SPECIFICATION FairSpec
CONSTANTS
  j1 = j1
  t1 = t1
  t2 = t2
  Jobs = {j1}
  Tasks = {t1, t2}
  JobOf <- SmallJob
  Hooked = {}
  Backends = {b1, b2}
  Concurrency = 1
  Budget <- Recoverable
  NoBackend = NoBackend
PROPERTY ImplementsContract
CHECK_DEADLOCK FALSE
