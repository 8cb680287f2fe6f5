SPECIFICATION ValuesSpec
CONSTANTS
  Strings <- MCStrings
  CodeUnits <- MCCodeUnits
  NumberTexts <- MCNumberTexts
  Contents <- MCContents
  Results <- MCResults
  Requests <- MCRequests
  Dialogues <- MCDialogues
  SigningKeys = {"k"}
  Replies <- MCReplies
  Pieces <- MCPieces
  MaxPieces = 3
  Dumped <- MCDumped
  Reread <- MCReread
  Binaries <- MCBinaries
  Inputs <- MCInputs
  Cuts = 60
  Shapes = {"line", "polygon", "rect", "text"}
  Contexts <- MCContexts
  Width = 10
  Precision = 2
  IntWidth = 4
  NA = NA
  Precedes <- MCPrecedes
INVARIANTS
  StringsKept
  
  BinaryKept
  ContentsKept
  MessagesKept
  StylesAsAsked
CHECK_DEADLOCK FALSE
