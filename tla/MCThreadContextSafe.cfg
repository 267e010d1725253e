SPECIFICATION Spec
CONSTANTS
  Client = {c1, c2}
  Kind = {"call", "mem", "close"}
  Fault = {"exception", "first", "mem"}
  IdSpace = 7
  StartSeq = 5
  MaxRequests = 4
SYMMETRY ClientSymmetry
INVARIANTS
  TypeOK
  SingleOwner
  OneTaker
  ExecutionOrder
  StatusTruthful
  FailStop
  StateAgrees
PROPERTY
  DeliveredOnce
  ImplementsService
CHECK_DEADLOCK FALSE
