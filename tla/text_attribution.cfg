SPECIFICATION KernelSpec
CONSTANTS
  Happens = {"invisible"}
  MsgType <- CellsAndQueries
  MaxRequests = 2
  MaxDisplays = 0
  MaxInterrupts = 0
  Early <- NoneLate
  Sinks = {"stdout"}
  Glyphs = {"ascii"}
  MaxWrites = 2
  Hwm = 8
INVARIANTS
  TextOfCells
