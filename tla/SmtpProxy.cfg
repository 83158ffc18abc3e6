SPECIFICATION Spec
CONSTANTS
  Emails <- AllEmails
  Settings <- AllSettings
  Requests <- AllRequests
  Refusals <- WithPolicy
  NoReply = NoReply
  NoResult = NoResult
INVARIANT ProxyIsUsed
CHECK_DEADLOCK FALSE
