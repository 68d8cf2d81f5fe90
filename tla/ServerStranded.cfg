SPECIFICATION FairSpec
CONSTANTS
  c1 = c1
  c2 = c2
  c3 = c3
  Conns = {c1, c2}
  Listener = Listener
  product_code <- Overlapping
  MaxEventCount = 3
  FirstFd = 5
  MaxFd = 8
  MaxMessages = 0
  quota <- NoneEach
  MaxSize = 1
PROPERTIES
  WaitingAccepted
CHECK_DEADLOCK FALSE
