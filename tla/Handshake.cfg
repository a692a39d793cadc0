SPECIFICATION FairSpec
CONSTANTS
  Clients = {c1, c2}
  Candidates = {k1}
  Unlucky = {c1}
  None = None
INVARIANTS
  TypeOK
  AnswerFindsOffer
  ServedByProxy
PROPERTIES
  JoinEnds
CHECK_DEADLOCK FALSE
