SPECIFICATION Spec
CONSTANTS
  j1 = j1
  t1 = t1
  t2 = t2
  Jobs = {j1}
  Tasks = {t1, t2}
  JobOf <- SmallJob
  Hooked = {j1}
  Backends = {b1, b2}
  Concurrency = 1
  Budget <- None
  NoBackend = NoBackend
SYMMETRY BackendSymmetry
INVARIANT CompletedIsReadable
CHECK_DEADLOCK FALSE
