SPECIFICATION FairSpec
CONSTANTS
  Server = Server
  App = App
  Handler = Handler
  Fd = 3
  Capacity = 2
  MaxSent = 1
  MaxMessages = 2
  MaxSize = 3
INVARIANTS
  TypeOK
  NoLostEdge
  CallbackIntact
PROPERTIES
  Announces
  WritesReturn
  EndNoticed
CHECK_DEADLOCK FALSE
