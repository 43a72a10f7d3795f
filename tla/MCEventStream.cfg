SPECIFICATION FairSpec
CONSTANTS
  EventCount = 3
  Origins <- Both
  ReplayLimit = 2
  FallbackAfter = 2
  MaxBreaks = 4
  MaxRepeats = 2
CHECK_DEADLOCK FALSE
INVARIANT StreamSound
PROPERTY EventsArrive
