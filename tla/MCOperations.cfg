CONSTANTS
  Cli = {c1, c2}
  RmName = {"local", "p"}
  RmProvider = {"openai"}
  RmArgs <- MCRmArgs
  RmAwaited = {"api"}
  RmOpBound = 3
  RmWaitBound = 1
  TuText <- MCTuText
  TuCommand <- MCTuCommand
  TuRun = {"r1", "r2"}
  TuProject = {"p1", "p2"}
  TuTasks <- MCTuTasks
  TuOpBound = 3
  TuReadBound = 2
  RtFile = {"f"}
  RtPlanId = {"p", "q"}
  RtPlan <- MCRtPlan
  RtInput <- MCRtInput
  RtOpBound = 3
  RtGoalBound = 2
  RtEditBound = 1
  WaKey = {"a", "b"}
  WaServer <- MCWaServer
  WaFirst <- MCWaFirst
  WaWindow = 2
  WaMax = 1
  WaBuckets = 1
  WaMaxAge = 2
  WaTimeBound = 3
  WaOpBound = 4
  WcType = {"node.yielded", "approval.requested"}
  WcLogBound = 2
  WcGetBound = 2
  WcPostBound = 2
  WcTokenBound = 1
SPECIFICATION Spec
CHECK_DEADLOCK FALSE
INVARIANTS
  RuntimeConfigSound
  SessionKeepsControl
  PatchesHeldToApproval
  AccessHolds
  ConsoleCatchesUp
