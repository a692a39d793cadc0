SPECIFICATION FairSpec
CONSTANTS
  Clients = {c1, c2}
  MaxEvents = 3
INVARIANTS
  TypeOK
  ShownConnectedIsBacked
PROPERTIES
  OutageIsShown
  StatsCatchUp
CHECK_DEADLOCK FALSE
