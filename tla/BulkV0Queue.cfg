SPECIFICATION FairSpec
CONSTANTS
  j1 = j1
  t1 = t1
  t2 = t2
  Jobs = {j1}
  Tasks = {t1, t2}
  JobOf <- OneJob
  Hosts = {h1, h2}
  NoHost = NoHost
  MaxAttempts = 2
  MinConc = 1
  MaxConc = 1
  PortCounts = {0, 2}
  Readers = {}
  Old = {}
  PageLimit = 1
  Budget <- EachOnce
INVARIANT TypeOK
INVARIANT RowsBound
INVARIANT LostIsExhausted
PROPERTY ImplementsContract
PROPERTY SettledUnlessHeld
CHECK_DEADLOCK FALSE
