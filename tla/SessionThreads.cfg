SPECIFICATION Spec
CONSTANTS
  a1 = a1
  a2 = a2
  Apps = {a1, a2}
  Epoll = Epoll
  Fds = {5, 6, 7}
  product_code <- OverlappingProducts
INVARIANTS
  TypeOK
  ReverseSound
  CheckThenAct
  AtMostOneSession
PROPERTIES
  LookupWhole
