SPECIFICATION FairSpec
CONSTANTS
  Server = Server
  Client = Client
  Capacity = 2
  ServerLines = 1
  ClientLines = 3
  ServerLives = 1
  ClientLives = 2
INVARIANTS
  TypeOK
  SameFifo
  FoundOnlyIfRead
PROPERTIES
  Delivers
  Connects
  JoinReturns
CHECK_DEADLOCK FALSE
