SPECIFICATION Spec
CONSTANTS
  Conns = {c1, c2, c3}
  Tokens = {t1, t2}
  SessionIds = {s1, s2}
  ClientIds = {k1, k2}
  Backend = "redis"
  None = None
  MaxRestarts = 1
  MaxRaces = 0
SYMMETRY Symmetry
INVARIANTS
  TypeOK
  JoinsItsTokensHost
  RelayStaysInSession
  LiveHostIsReachable
  JoinableHasHost
  NoGhostClient
CHECK_DEADLOCK FALSE
