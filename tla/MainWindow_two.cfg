SPECIFICATION Spec
CONSTANTS
  eth = eth
  wlan = wlan
  none = none
  never = never
  Interfaces <- BothInterfaces
  NoInterface = none
  NoTime = never
  StartTime = 10
  History <- OldRow
  Steps <- Regular
  MaxDataGap = 3
  VisibleWindow = 1
  Retention = 5
  DragSteps <- ShiftBack
  DbMayFail = FALSE
  MaxTime = 16
  MaxGestures = 1
INVARIANTS
  TypeOK
  PendingIsOutstanding
  QueriedInterfaceHasRows
  NewInterfaceNotForgotten
  IsolationShown
PROPERTIES
  ImplementsBatchLoad
CHECK_DEADLOCK FALSE
