SPECIFICATION FairSpec
CONSTANTS
  NoOne = NoOne
  MaxSamples = 2
  MaxPackets = 1
INVARIANTS
  CollectorOutlivesCapture
  LoggerOutlivesThreads
  OnlyTailLost
PROPERTIES
  QuitEnds
  CollectedIsStored
  LoggedReachesDisk
CHECK_DEADLOCK FALSE
