SPECIFICATION FairSpec
CONSTANTS
  Thread = {t1, t2}
  Name = {"allocBuff", "exitProc"}
  Symbol <- MCSymbol
  Address <- MCAddress
  VeorunVersion = 4
  Fault = {"exception"}
  MaxContexts = 1
  NoThread = NoThread
PROPERTY
  ExitReturns
CHECK_DEADLOCK FALSE
