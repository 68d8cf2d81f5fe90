SPECIFICATION Spec
CONSTANTS
  c1 = c1
  c2 = c2
  c3 = c3
  Conns = {c1, c2}
  Listener = Listener
  product_code <- Overlapping
  MaxEventCount = 3
  FirstFd = 5
  MaxFd = 6
  MaxMessages = 3
  quota <- ThreeSent
  MaxSize = 2
INVARIANTS
  TypeOK
  AtMostOneSession
  NoLostEdge
  SessionSound
  GreetingFirstRegisters
  DeliveredIntact
CHECK_DEADLOCK FALSE
