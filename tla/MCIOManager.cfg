SPECIFICATION IOFairSpec
CONSTANTS
  Workers = {w1}
  Main = main
  UseCaller = FALSE
  Tasks = {t1, t2}
  Any = any
  None = none
  Pins = {w1, any}
  RequeuePins = {"own"}
  MaxYields = 2
  WindowMissed = TRUE
INVARIANTS
  IdleConsistent
  PendingCoversWakeUps
PROPERTIES
  IOStopReturns
  QueuedTaskRuns
  IOImplementsTaskPool
