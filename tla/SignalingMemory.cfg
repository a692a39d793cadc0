SPECIFICATION FairSpec
CONSTANTS
  Conns = {c1, c2}
  Tokens = {t1, t2}
  SessionIds = {s1}
  ClientIds = {k1, k2}
  Backend = "memory"
  None = None
  MaxRestarts = 1
  MaxRaces = 2
PROPERTIES
  JoinIsAnswered
  HostGonePairGone
CHECK_DEADLOCK FALSE
