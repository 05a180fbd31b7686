SPECIFICATION FairSpec
CONSTANTS
  s1 = s1
  a1 = a1
  a2 = a2
  None = None
  Threads <- MCThreads
  SyncThreads <- MCSync
  MaxCalls = 2
  MaxGuid = 2
  MaxRequests = 2
INVARIANTS
  TypeOK
  CallbackMatches
  IdsAccounted
  CallbackOnce
  OutArmed
PROPERTY RequestsCalledBack
CHECK_DEADLOCK FALSE
