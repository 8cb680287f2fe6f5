SPECIFICATION KernelSpec
CONSTANTS
  Happens = {"invisible"}
  MsgType = {"execute_request", "comm_msg"}
  MaxRequests = 2
  MaxDisplays = 0
  MaxInterrupts = 0
  Early <- NoneLate
  Sinks = {"stdout"}
  Glyphs = {"ascii"}
  MaxWrites = 2
  Hwm = 4
INVARIANTS
  KernelTypeOK
  CellTextInOrder
  TextConserved
  NeverAttributedBackwards
