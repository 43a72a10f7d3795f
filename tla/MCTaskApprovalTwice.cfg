SPECIFICATION Spec
CONSTANTS
  Submission = {s1, s2}
  Call = {c1, c2}
  CallKind = {"approve", "reject"}
  MaxTasks = 1
  MaxIntents = 2
  MaxAttempts = 2
  Plans <- OneTask
  Artifacts <- Telling
  MaxAborts = 1
SYMMETRY BothSymmetry
CHECK_DEADLOCK FALSE
INVARIANT ApprovalsInForce
