SPECIFICATION Spec
CONSTANTS
  Workers = {w1, w2}
  Main = main
  UseCaller = FALSE
  Tasks = {t1, t2}
  Any = any
  None = none
  Pins = {any}
  RequeuePins = {any}
  MaxYields = 1
  WindowMissed = FALSE
PROPERTIES
  ResumesSavedContext
