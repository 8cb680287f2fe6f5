SPECIFICATION KernelSpec
CONSTANTS
  Happens = {}
  MsgType = {"shutdown_request"}
  MaxRequests = 1
  MaxDisplays = 0
  MaxInterrupts = 0
  Early <- NoneLate
  Sinks = {"stdout"}
  Glyphs = {"ascii"}
  MaxWrites = 0
  Hwm = 8
INVARIANTS
  ShutdownIdleSent
