SPECIFICATION Spec
CONSTANTS
  Streams = {r1}
  MaxData = 2
  ChanCap = 2
INVARIANTS
  StreamInOrder
CHECK_DEADLOCK FALSE
