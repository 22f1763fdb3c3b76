SPECIFICATION FairSpec
CONSTANTS
  Fds = {fd1}
  Fibers = {f1, f2}
  Idlers = {i1, i2}
  None = none
CHECK_DEADLOCK FALSE
INVARIANTS
  TableConsistent
  PendingExact
  OneWakeUpPerRegistration
  NoLostEdge
PROPERTIES
  ImplementsOneShot
  ReadyEventDelivered
