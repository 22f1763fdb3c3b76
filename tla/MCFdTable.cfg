SPECIFICATION Spec
CONSTANTS
  Threads = {t1, t2}
  MaxFd = 4
  FirstSize = 2
  MaxMade = 2
  None = none
CHECK_DEADLOCK FALSE
INVARIANTS
  CancelFindsEvents
