SPECIFICATION FairSpec
CONSTANTS
  Client = {c1, c2}
  Kind = {"call", "vh", "mem", "close"}
  Fault = {}
  IdSpace = 5
  StartSeq = 0
  MaxRequests = 3
INVARIANTS
  CloseTerminatesPseudoThread
  CloseCompletesAll
PROPERTIES
  ReturnedRequestCompletes
  WaitReturns
  CloseReturns
CHECK_DEADLOCK FALSE
