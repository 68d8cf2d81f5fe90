\* One thread that sends, and a client that counts its own messages from 1 too.
CONSTANTS
  Callers = {t1}
  Client = client
  MaxCalls = 3
  MaxOwn = 2
  MaxWait = 2
SPECIFICATION FairSpec
INVARIANTS
  TypeOK
  AwaitedIsUnderWay
PROPERTIES
  ImplementsRequestReply
CHECK_DEADLOCK FALSE
