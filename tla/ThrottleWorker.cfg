SPECIFICATION Spec
CONSTANTS
  Handlers = {h1, h2}
  Worker = worker
  WorkerEnabled = TRUE
  NumLimits = 2
  Width <- MCWidth
  Max <- MCMaxLoose
  NoLimit = NoLimit
  MaxTime = 6
  MaxStarts = 9
INVARIANT TypeOK
INVARIANT BurstBound
INVARIANT WakeMeansFree
CHECK_DEADLOCK FALSE
