SPECIFICATION Spec
CONSTANTS
  NumRegs = 1
  ParamOffset = 2
  WordSize = 2
  ArgSet <- Args
  MaxArgs = 3
  CallLists <- TransferredLists
  StartSP = 44
  MemSize = 52
  Fault = {"in", "out"}
  MaxCalls = 2
INVARIANTS
  ImageFillsFrame
  CallerFrameKept
  CalleeSeesArguments
  OutputDelivered
CHECK_DEADLOCK FALSE
