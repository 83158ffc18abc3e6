SPECIFICATION FairSpec
CONSTANTS
  NumEmails = 2
  NumServers = 2
  PerMinute = 1
  Attempts = 2
  UseApify = TRUE
  Named <- AllServers
  MaxDuplicates = 0
  MaxCrashes = 1
INVARIANT TypeOK
INVARIANT OneRowPerEmail
INVARIANT UnknownsSeenTwice
INVARIANT AnswerIsFinal
INVARIANT CompletedBatchIsStored
INVARIANT CompletedIsExhausted
INVARIANT NothingDangles
PROPERTY ResultsStay
PROPERTY ProgressMonotone
PROPERTY JobEnds
CHECK_DEADLOCK FALSE
