SPECIFICATION HandlersSpec
CONSTANTS
  Rects = {page, plot}
  WholePage = page
  NoRect = nowhere
  MaxDevices = 2
  MaxElements = 3
  MaxHandled = 2
  Targets = {"widget"}
  Ids = {c, d}
  MaxComms = 2
  MaxMessages = 1
INVARIANTS
  DeviceTypeOK
  OnePageEach
  NoDeviceLeft
  FirstPageClipped
  CommsAlive
  
PROPERTY OthersStayOpen
SYMMETRY IdSymmetry
