SPECIFICATION Spec
CONSTANTS
  eth = eth
  wlan = wlan
  none = none
  never = never
  Interfaces <- OneInterface
  NoInterface = none
  NoTime = never
  StartTime = 10
  History <- OldRow
  Steps <- WithGap
  MaxDataGap = 3
  VisibleWindow = 2
  Retention = 5
  DragSteps <- ShiftBack
  DbMayFail = FALSE
  MaxTime = 20
  MaxGestures = 2
INVARIANTS
  NoTrafficSkipped
  DrawnIsStored
  ManualAlwaysSnapsBack
  SeriesBounded
CHECK_DEADLOCK FALSE
