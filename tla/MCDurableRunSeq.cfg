SPECIFICATION FairSpec
CONSTANTS
  Run = {r1}
  Ticket = {t1, t2, t3}
  NodeCount = 2
  DependsOn <- Back
  Class <- BackClass
  SideEffecting = {1}
  Refreshable = {}
  Calls = {"create", "resume", "retry", "cancel", "reject"}
  Overlap = FALSE
  Hatchet = FALSE
  LostReply = {}
  MaxAborts = 1
CHECK_DEADLOCK FALSE
INVARIANT RecordAgreesAtRest
PROPERTY ImplementsPlanLifecycle
PROPERTY RequestsTakeEffect
