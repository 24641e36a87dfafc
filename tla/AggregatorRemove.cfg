CONSTANTS
  c1 = c1
  c2 = c2
  None = None
  Conn = {c1, c2}
  Acceptors = 2
  Port <- TwoPorts
  Strategy = "RemoveConnection"
  MaxIn = 0
  MaxOut = 0
  Faults = {"connection"}
SPECIFICATION FairSpec
PROPERTIES ClosedIsRemoved DestructorReturns
CHECK_DEADLOCK FALSE
