SPECIFICATION Spec
CONSTANTS
  a = a
  b = b
  no_domain = no_domain
  no_window = no_window
  never = never
  Domains <- TwoDomains
  NoDomain = no_domain
  NoWindow = no_window
  NoTime = never
  StartTime = 10
  History <- JustBefore
  Retention = 5
  HistoryDuration = 1
  ChartInterval = 2
  DragSteps <- ShiftBack
  DbMayFail = FALSE
  MaxTime = 11
  MaxPackets = 1
  MaxRefreshes = 3
  MaxGestures = 2
INVARIANTS
  TypeOK
  PageAgrees
  DetailsFollowCurrent
PROPERTIES
  NoStaleChart
  NoStaleDetails
CHECK_DEADLOCK FALSE
