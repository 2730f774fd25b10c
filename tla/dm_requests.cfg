SPECIFICATION FairSpec
CONSTANTS
  Batches <- LongAndShort
  Descriptors = 8
  CallbackNum = 2
  CmdMax = 3
  MaxRequests = 2
  MaxRecvErrors = 1
  MaxMallocErrors = 1
INVARIANTS
  TypeOK
  NothingLeftOver
  RepliesAreAnswers
  OneSpoiltReply
  OnlyGenuine
  PersistedInOrder
PROPERTIES
  BackToWait
CHECK_DEADLOCK FALSE
