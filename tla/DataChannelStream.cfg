SPECIFICATION Spec
CONSTANTS
  m1 = m1
  m2 = m2
  m3 = m3
  Messages <- MCMessages
  Size <- MCSize
  IdOf <- StreamIds
  MaxPayload = 2
  QueueCap = 2
  None = None
INVARIANTS
  WholeMessages
CHECK_DEADLOCK FALSE
