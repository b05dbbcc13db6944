SPECIFICATION Spec
CONSTANTS
  MaxSize = 3
  MaxFiles = 2
  Sizes = {1, 2, 4}
  MaxMessages = 6
  MaxFaults = 2
INVARIANTS
  SizeBounded
PROPERTIES
  ImplementsRecentLog
  NeverReopened
CHECK_DEADLOCK FALSE
