SPECIFICATION Spec
CONSTANTS
  c1 = c1
  c2 = c2
  c3 = c3
  Conns = {c1, c2}
  Listener = Listener
  product_code <- OneProduct
  MaxEventCount = 3
  FirstFd = 5
  MaxFd = 6
  MaxMessages = 1
  quota <- OneEach
  MaxSize = 1
INVARIANTS
  DisconnectEndsSession
CHECK_DEADLOCK FALSE
