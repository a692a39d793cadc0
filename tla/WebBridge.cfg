SPECIFICATION FairSpec
CONSTANTS
  Requests = {r1}
  Sockets = {s1}
  MaxData = 2
  None = None
INVARIANTS
  TypeOK
  OnCloseOnce
  QuietSocketHearsAll
PROPERTIES
  FetchSettles
  CloseReachesTarget
CHECK_DEADLOCK FALSE
