SPECIFICATION Spec
CONSTANTS
  Kinds <- DeterministicPlan
  Request = {a, b}
  Content = {x, y}
  Process = {p, q}
  MaxCommands = 3
  MaxOverlap = 2
  MaxRequests = 2
  MaxAborts = 2
SYMMETRY Symmetry
CHECK_DEADLOCK FALSE
INVARIANT ScopeExpansionSound
INVARIANT CompletedIsVerified
INVARIANT ViewTellsTheTruth
