SPECIFICATION Spec
CONSTANTS
  j1 = j1
  t1 = t1
  t2 = t2
  Jobs = {j1}
  Tasks = {t1, t2}
  JobOf <- SmallJob
  Hooked = {j1}
  Backends = {b1, b2}
  Concurrency = 1
  Budget <- EachOnce
  NoBackend = NoBackend
SYMMETRY TaskSymmetry
INVARIANT TypeOK
INVARIANT RequeuedOnce
INVARIANT UnknownIsRetried
INVARIANT RowsBound
INVARIANT ConcurrencyBound
INVARIANT CompletedMeansAll
PROPERTY OnlyFaultsLose
CHECK_DEADLOCK FALSE
