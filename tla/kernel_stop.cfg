SPECIFICATION FairKernelSpec
CONSTANTS
  Happens = {"invisible", "visible", "quit"}
  MsgType <- CellsAndShutdown
  MaxRequests = 1
  MaxDisplays = 1
  MaxInterrupts = 0
  Early = {}
  Sinks = {"stdout"}
  Glyphs = {"ascii"}
  MaxWrites = 1
  Hwm = 2
INVARIANT
  NoGaps
PROPERTIES
  PillStops
  PipesDrain
