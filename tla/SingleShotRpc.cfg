SPECIFICATION FairSpec
CONSTANTS
  Requests = {r1}
  Bulk = {t1}
  Backends = {b1, b2}
  Concurrency = 1
  Budget <- Faults
  NoBackend = NoBackend
INVARIANT TypeOK
INVARIANT AtMostOneReply
INVARIANT AnsweredIsGone
PROPERTY Answered
CHECK_DEADLOCK FALSE
