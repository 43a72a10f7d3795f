SPECIFICATION Spec
CONSTANTS
  Run = {r1}
  Ticket = {t1, t2}
  NodeCount = 3
  DependsOn <- Chain
  Class <- ChainClass
  SideEffecting = {3}
  Refreshable = {2}
  Calls = {"create", "apply", "resume", "retry", "cancel", "approve", "reject"}
  Overlap = TRUE
  Hatchet = TRUE
  LostReply = {"cancel"}
  MaxAborts = 0
SYMMETRY TicketSymmetry
INVARIANT TypeOK
INVARIANT DependencyOrder
INVARIANT PlanStatusMeaning
INVARIANT LoopBoundNeverReached
CHECK_DEADLOCK FALSE
