SPECIFICATION Spec
CONSTANTS
  Client = {c1, c2}
  Kind = {"call", "close"}
  Fault = {"exception"}
  IdSpace = 4
  StartSeq = 0
  MaxRequests = 2
INVARIANT
  CloseTerminatesPseudoThread
CHECK_DEADLOCK FALSE
