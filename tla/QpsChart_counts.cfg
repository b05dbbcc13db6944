SPECIFICATION Spec
CONSTANTS
  Interval = 2
  History = 4
  Shift = 1
  Nothing = Nothing
  MaxPackets = 2
  MaxTime = 6
INVARIANTS
  NeverMoreThanCaptured
  InnerIntervalsExact
CHECK_DEADLOCK FALSE
