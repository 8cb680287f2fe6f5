SPECIFICATION Spec
CONSTANTS
  Happens <- May
  MsgType <- EveryPath
  MaxRequests = 2
  MaxDisplays = 1
  MaxInterrupts = 1
INVARIANTS
  TypeOK
  BetweenRequests
  ExecutionCounts
  NoResultOnError
  Conversations
  IInv
PROPERTY ImplementsProtocol
