SPECIFICATION Spec
CONSTANTS
  Handlers = {h1, h2}
  Worker = worker
  WorkerEnabled = FALSE
  NumLimits = 2
  Width <- MCWidth
  Max <- MCMax
  NoLimit = NoLimit
  MaxTime = 5
  MaxStarts = 5
INVARIANT OverrunBound
CHECK_DEADLOCK FALSE
