CONSTANTS
  c1 = c1
  c2 = c2
  None = None
  Conn = {c1, c2}
  Acceptors = 1
  Port <- OnePort
  Strategy = "RemoveConnection"
  MaxIn = 1
  MaxOut = 1
  Faults = {}
SPECIFICATION Spec
SYMMETRY Symmetry
INVARIANTS NoUseAfterFree RemovalFinds InboundIntact OutboundIntact
CHECK_DEADLOCK FALSE
