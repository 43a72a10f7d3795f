SPECIFICATION Spec
CONSTANTS
  Submission = {s1}
  Call = {c1}
  CallKind = {"reject"}
  MaxTasks = 1
  MaxIntents = 1
  MaxAttempts = 1
  Plans <- OneTask
  Artifacts <- Gated
  MaxAborts = 0
CHECK_DEADLOCK FALSE
INVARIANT RejectionStays
