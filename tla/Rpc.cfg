CONSTANTS
  k1 = k1
  k2 = k2
  MaxConn = 3
  MaxDisturbances = 1
  MaxRetries = 2
  Client = {k1, k2}
  Workloads <- Loads
SPECIFICATION FairSpec
INVARIANTS OneReplyEach ErrorsMetOnce RepliesTrue OwnAnswer
PROPERTIES Answered CallReturns
CHECK_DEADLOCK FALSE
