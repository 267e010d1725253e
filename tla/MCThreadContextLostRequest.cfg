SPECIFICATION FairSpec
CONSTANTS
  Client = {c1, c2}
  Kind = {"call"}
  Fault = {"exception"}
  IdSpace = 4
  StartSeq = 0
  MaxRequests = 2
PROPERTY
  ReturnedRequestCompletes
CHECK_DEADLOCK FALSE
