SPECIFICATION Spec
CONSTANTS
  Interfaces = {eth, wlan}
  eth = eth
  wlan = wlan
  NoInterface = NoInterface
  Speeds = {5, 10}
  Window = 1
  MinRange = 5
  Tolerance = 1
  MaxTime = 3
  MaxMissing = 1
SYMMETRY Symmetry
INVARIANTS
  NothingCutOff
  AxisFits
CHECK_DEADLOCK FALSE
