SPECIFICATION Spec
CONSTANTS
  Names = {eth0}
  eth0 = eth0
  NoSample = NoSample
  MaxDataGap = 2
  Window = 2
  ClockMayBeSet = TRUE
  ReadMayFail = FALSE
  MaxTraffic <- MCMaxTraffic
  MaxSamples = 3
  Times = {1, 2, 4}
INVARIANTS
  DrawnIsTraffic
  SpikeOnlyAtSetBack
CHECK_DEADLOCK FALSE
