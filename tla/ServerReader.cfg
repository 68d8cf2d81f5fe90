SPECIFICATION FairSpec
CONSTANTS
  c1 = c1
  c2 = c2
  c3 = c3
  Conns = {c1, c2, c3}
  Listener = Listener
  product_code <- ThreeProducts
  MaxEventCount = 2
  FirstFd = 5
  MaxFd = 6
  MaxMessages = 1
  quota <- OneOnly
  MaxSize = 1
INVARIANTS
  AcceptNeverBlocks
PROPERTIES
  ImplementsReader
CHECK_DEADLOCK FALSE
