SPECIFICATION Spec
CONSTANTS
  NumRegs = 1
  ParamOffset = 2
  WordSize = 2
  ArgSet <- Args
  MaxArgs = 3
  CallLists <- AllLists
  StartSP = 44
  MemSize = 52
  Fault = {}
  MaxCalls = 1
INVARIANT
  CalleeSeesArguments
CHECK_DEADLOCK FALSE
