SPECIFICATION Spec
CONSTANTS
  Run = {r1}
  Ticket = {t1, t2, t3}
  NodeCount = 3
  DependsOn <- Chain
  Class <- ChainClass
  SideEffecting = {3}
  Refreshable = {3}
  Calls = {"create", "retry"}
  Overlap = FALSE
  Hatchet = FALSE
  LostReply = {}
  MaxAborts = 0
SYMMETRY TicketSymmetry
CHECK_DEADLOCK FALSE
INVARIANT ForcedRetryWaitsForApproval
