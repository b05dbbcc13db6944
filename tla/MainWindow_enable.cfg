SPECIFICATION Spec
CONSTANTS
  eth = eth
  wlan = wlan
  none = none
  never = never
  Interfaces <- OneInterface
  NoInterface = none
  NoTime = never
  StartTime = 10
  History <- NoHistory
  Steps <- Regular
  MaxDataGap = 3
  VisibleWindow = 2
  Retention = 5
  DragSteps <- ShiftBack
  DbMayFail = FALSE
  MaxTime = 22
  MaxGestures = 0
PROPERTIES
  SufficientDataEnablesDragging
CHECK_DEADLOCK FALSE
