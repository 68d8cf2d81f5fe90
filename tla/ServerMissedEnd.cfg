SPECIFICATION FairSpec
CONSTANTS
  c1 = c1
  c2 = c2
  c3 = c3
  Conns = {c1}
  Listener = Listener
  product_code <- SingleProduct
  MaxEventCount = 3
  FirstFd = 5
  MaxFd = 5
  MaxMessages = 0
  quota <- SingleNone
  MaxSize = 1
PROPERTIES
  DisconnectNoticed
CHECK_DEADLOCK FALSE
