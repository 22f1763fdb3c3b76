SPECIFICATION FairSpec
CONSTANTS
  Workers = {w1, w2}
  Main = main
  UseCaller = TRUE
  Tasks = {t1, t2}
  Any = any
  None = none
  Pins = {w1, any, main}
  RequeuePins = {"own"}
  MaxYields = 1
  WindowMissed = FALSE
INVARIANTS
  PoolConsistent
  OneThreadPerFiber
  NoEarlyLeave
PROPERTIES
  ResumesSavedContext
  ImplementsTaskPool
  StopReturns
