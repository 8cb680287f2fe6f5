SPECIFICATION TextSpec
CONSTANTS
  Scalars <- MCScalars
  Precedes <- MCPrecedes
  Indents <- MCIndents
  IndentSize = 2
  MaxTokens = 11
INVARIANTS
  AcceptAgrees
  TextKept
CHECK_DEADLOCK FALSE
