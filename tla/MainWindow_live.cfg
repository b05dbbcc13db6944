SPECIFICATION FairSpec
CONSTANTS
  eth = eth
  wlan = wlan
  none = none
  never = never
  Interfaces <- OneInterface
  NoInterface = none
  NoTime = never
  StartTime = 10
  History <- OldRow
  Steps <- Regular
  MaxDataGap = 3
  VisibleWindow = 1
  Retention = 5
  DragSteps <- ShiftBack
  DbMayFail = TRUE
  MaxTime = 16
  MaxGestures = 1
INVARIANTS
  TrafficDrawnOnce
PROPERTIES
  LoadsComplete
  SampledInterfaceGetsSeries
  LiveViewReturns
CHECK_DEADLOCK FALSE
