SPECIFICATION FairSpec
CONSTANTS
  MaxFd = 2
  MaxListen = 2
  None = none
  Threads = 2
  MaxStarts = 2
  MaxStops = 1
  MaxConnects = 2
  FionbioArgs = {TRUE}
  Overlap = FALSE
CHECK_DEADLOCK FALSE
INVARIANTS
  NoLoopSpins
  ListenersConsistent
  ManagedIsNonblocking
  LoopsMatchListeners
PROPERTIES
  StopEndsLoops
  ConnectionsAccepted
