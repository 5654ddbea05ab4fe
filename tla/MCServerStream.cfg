SPECIFICATION FairSpec
CONSTANTS
  Messages <- SmallMessages
  MaxMessages = 2
  Requests <- SmallRequests
  MaxRequests = 1
  ChunkSize = 12
  BlockSize = 2
INVARIANTS
  TypeOK
  BytesConserved
  FailsForCause
  WholeMessages
PROPERTIES
  MessagesAreWhole
  EveryMessageArrives
CHECK_DEADLOCK FALSE
