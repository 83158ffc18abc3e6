SPECIFICATION Spec
CONSTANTS
  j1 = j1
  t1 = t1
  t2 = t2
  Jobs = {j1}
  Tasks = {t1, t2}
  JobOf <- OneJob
  Hosts = {h1}
  NoHost = NoHost
  MaxAttempts = 2
  MinConc = 2
  MaxConc = 2
  PortCounts = {1}
  Readers = {j1}
  Old = {j1}
  PageLimit = 1
  Budget <- NoInsertFault
SYMMETRY Symmetry
INVARIANT PagesComplete
INVARIANT PrunedIsFinished
CHECK_DEADLOCK FALSE
