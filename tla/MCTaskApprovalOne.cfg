SPECIFICATION FairSpec
CONSTANTS
  Submission = {s1}
  Call = {c1, c2}
  CallKind = {"approve", "reject"}
  MaxTasks = 2
  MaxIntents = 3
  MaxAttempts = 2
  Plans <- EveryPlan
  Artifacts <- Mixed
  MaxAborts = 0
CHECK_DEADLOCK FALSE
INVARIANT RowsTruthful
INVARIANT WithinItsBounds
PROPERTY TasksSettle
