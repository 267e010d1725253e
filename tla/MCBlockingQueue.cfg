SPECIFICATION FairSpec
CONSTANTS
  Thread = {t1, t2, t3}
  NoThread = NoThread
  nullptr = nullptr
  MsgId <- MCMsgId
  Command <- MCCommand
INVARIANTS
  TypeOK
  SingleOwner
  NoLostWakeup
PROPERTIES
  ImplementsAtomicQueue
  WaitServed
