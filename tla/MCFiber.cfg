SPECIFICATION Spec
CONSTANTS
  Threads = {t1, t2}
  Owner = t1
  Fibers = {root, f1, f2}
  Root = root
  None = none
  Disciplined = TRUE
INVARIANTS
  FiberConsistent
  CurrentIsExecuting
