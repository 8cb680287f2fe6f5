SPECIFICATION HandlersSpec
CONSTANTS
  Rects = {page, plot}
  WholePage = page
  NoRect = nowhere
  MaxDevices = 1
  MaxElements = 4
  MaxHandled = 1
  Targets = {"widget"}
  Ids = {"c"}
  MaxComms = 0
  MaxMessages = 0
INVARIANT EveryPageClipped
