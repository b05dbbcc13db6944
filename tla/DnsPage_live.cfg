SPECIFICATION FairSpec
CONSTANTS
  a = a
  b = b
  no_domain = no_domain
  no_window = no_window
  never = never
  Domains <- OneDomain
  NoDomain = no_domain
  NoWindow = no_window
  NoTime = never
  StartTime = 10
  History <- JustBefore
  Retention = 5
  HistoryDuration = 1
  ChartInterval = 2
  DragSteps <- ShiftBack
  DbMayFail = TRUE
  MaxTime = 11
  MaxPackets = 0
  MaxRefreshes = 4
  MaxGestures = 1
PROPERTIES
  LiveViewReturns
  RequestsAnswered
CHECK_DEADLOCK FALSE
