SPECIFICATION Spec
CONSTANTS
  EventCount = 2
  Origins <- Mixed
  ReplayLimit = 2
  FallbackAfter = 1
  MaxBreaks = 0
  MaxRepeats = 0
CHECK_DEADLOCK FALSE
INVARIANT RecoveryContract
