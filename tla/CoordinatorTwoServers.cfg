SPECIFICATION Spec
CONSTANTS
  NumEmails = 2
  NumServers = 2
  PerMinute = 1
  Attempts = 2
  UseApify = FALSE
  Named <- AllServers
  MaxDuplicates = 0
  MaxCrashes = 0
INVARIANT RetriedElsewhere
CHECK_DEADLOCK FALSE
