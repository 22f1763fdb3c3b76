SPECIFICATION IOSpec
CONSTANTS
  Workers = {w1, w2}
  Main = main
  UseCaller = FALSE
  Tasks = {t1}
  Any = any
  None = none
  Pins = {any}
  RequeuePins = {"own"}
  MaxYields = 2
  WindowMissed = TRUE
INVARIANTS
  IOStopWaits
