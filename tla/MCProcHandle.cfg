SPECIFICATION FairSpec
CONSTANTS
  Thread = {t1, t2}
  Name = {"loadLibrary", "getSym", "allocBuff", "freeBuff", "readMem", "writeMem", "openContext", "exitProc"}
  Symbol <- MCSymbol
  Address <- MCAddress
  VeorunVersion = 4
  Fault = {"exception", "mem"}
  MaxContexts = 2
  NoThread = NoThread
INVARIANTS
  TypeOK
  MutexDiscipline
  AnswerBelongs
  SymbolsTrue
  ContextsOwned
  ContextsReady
PROPERTY
  OperationsReturn
CHECK_DEADLOCK FALSE
