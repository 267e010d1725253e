SPECIFICATION FairSpec
CONSTANTS
  Client = {c1, c2}
  Kind = {"call", "vh", "mem"}
  Fault = {"exception", "mem"}
  IdSpace = 5
  StartSeq = 0
  MaxRequests = 3
PROPERTY
  QueuedRequestCompletes
CHECK_DEADLOCK FALSE
