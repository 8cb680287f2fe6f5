SPECIFICATION KernelSpec
CONSTANTS
  Happens = {"invisible"}
  MsgType = {"execute_request"}
  MaxRequests = 1
  MaxDisplays = 0
  MaxInterrupts = 0
  Early <- NoneLate
  Sinks = {"stdout"}
  Glyphs = {"ascii", "multibyte"}
  MaxWrites = 2
  Hwm = 8
INVARIANTS
  TextRecombines
