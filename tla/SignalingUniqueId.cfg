SPECIFICATION Spec
CONSTANTS
  Conns = {c1, c2, c3}
  Tokens = {t1, t2}
  SessionIds = {s1, s2}
  ClientIds = {k1}
  Backend = "memory"
  None = None
  MaxRestarts = 0
  MaxRaces = 0
INVARIANT
  JoinsItsTokensHost
CHECK_DEADLOCK FALSE
