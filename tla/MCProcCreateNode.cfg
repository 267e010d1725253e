SPECIFICATION FairSpec
CONSTANTS
  Caller = {c1}
  Arguments <- MCArguments
  Fault = {}
  NoCaller = NoCaller
  NoArguments = NoArguments
  Unset = Unset
  Bad = Bad
  NoNode = NoNode
PROPERTY
  FirstNodeUsed
CHECK_DEADLOCK FALSE
