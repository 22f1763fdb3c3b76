SPECIFICATION FairSpec
CONSTANTS
  f1 = f1
  f2 = f2
  Fibers <- MCFibers
  Fds = {n1}
  None = none
  Threads = 2
  MaxCalls <- MCMaxCalls
  HeldReuse = FALSE
CHECK_DEADLOCK FALSE
INVARIANTS
  TimedWaitCovered
  CloseWakesWaiters
  NoOrphanTimer
  WaitersConsistent
PROPERTIES
  TimeoutIsOwn
  ConnectTellsTruth
  TimedWaitEnds
  ImplementsOneShot
