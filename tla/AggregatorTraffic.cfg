CONSTANTS
  c1 = c1
  c2 = c2
  None = None
  Conn = {c1}
  Acceptors = 1
  Port <- OnePort
  Strategy = "ThrowException"
  MaxIn = 2
  MaxOut = 1
  Faults = {"accept", "connection"}
SPECIFICATION FairSpec
PROPERTIES RepliesSent ExceptionsReported
CHECK_DEADLOCK FALSE
