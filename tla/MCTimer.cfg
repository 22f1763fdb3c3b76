SPECIFICATION FairSpec
CONSTANTS
  Timers = {1, 2}
  Clients = {c1, c2}
  Idlers = {i1}
  Delays = {1, 3}
  Boot = 10
  MaxTime = 12
  MaxStall = 1
  Hour = 5
  Wrap = 100
  IntMax = 50
  MaxTimeout = 2
CHECK_DEADLOCK FALSE
INVARIANTS
  SetConsistent
  FrontTimerCovered
PROPERTIES
  DueTimerCollected
  ImplementsAlarm
