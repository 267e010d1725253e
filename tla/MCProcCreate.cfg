SPECIFICATION FairSpec
CONSTANTS
  Caller = {c1, c2}
  Arguments <- MCArguments
  Fault <- MCFault
  NoCaller = NoCaller
  NoArguments = NoArguments
  Unset = Unset
  Bad = Bad
  NoNode = NoNode
INVARIANTS
  GlobalsKept
  NullJustified
  ThreadRestored
  SignalHandleLive
  NothingLeft
  WorkerReady
  WorkerOutlives
PROPERTIES
  NodeAssigned
  CreateReturns
CHECK_DEADLOCK FALSE
