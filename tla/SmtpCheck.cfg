SPECIFICATION FairSpec
CONSTANTS
  Emails <- AllEmails
  Settings <- AllSettings
  Requests <- AllRequests
  Refusals <- WithPolicy
  NoReply = NoReply
  NoResult = NoResult
INVARIANT TypeOK
INVARIANT ConnectionsBound
INVARIANT UnknownIsExhausted
INVARIANT VerdictIsBacked
INVARIANT NoDirectConnection
PROPERTY RefusedIsFinal
PROPERTY CheckEnds
CHECK_DEADLOCK FALSE
