SPECIFICATION FairSpec
CONSTANTS
  m1 = m1
  m2 = m2
  m3 = m3
  Messages <- MCMessages
  Size <- MCSize
  IdOf <- DistinctIds
  MaxPayload = 2
  QueueCap = 2
  None = None
INVARIANTS
  TypeOK
  ChunksConserved
PROPERTIES
  ImplementsMessageChannel
  SentArrives
CHECK_DEADLOCK FALSE
