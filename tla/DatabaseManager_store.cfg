SPECIFICATION Spec
CONSTANTS
  eth = eth
  wlan = wlan
  Interfaces <- Both
  Times <- TwoTimes
  MaxSamples = 3
  MaxRecords = 2
  MaxCrashes = 2
INVARIANTS
  WholeSamplesShown
PROPERTIES
  ImplementsDurableStore
  OpenTransactionBlocks
CHECK_DEADLOCK FALSE
