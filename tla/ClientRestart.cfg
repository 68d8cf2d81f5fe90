SPECIFICATION Spec
CONSTANTS
  Server = Server
  App = App
  Handler = Handler
  Fd = 3
  Capacity = 1
  MaxSent = 0
  MaxMessages = 0
  MaxSize = 1
INVARIANTS
  ConnectedMeansConnected
CHECK_DEADLOCK FALSE
