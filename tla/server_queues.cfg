SPECIFICATION FairSpec
CONSTANTS
  Happens <- May
  MsgType <- OnlyCells
  MaxRequests = 3
  MaxDisplays = 0
  MaxInterrupts = 0
INVARIANTS
  ControlNotOvertaken
  RepliesInOrder
PROPERTY EveryRequestSettles
