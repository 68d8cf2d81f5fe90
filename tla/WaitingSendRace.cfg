\* Two threads that send, and a client that only answers.
CONSTANTS
  Callers = {t1, t2}
  Client = client
  MaxCalls = 1
  MaxOwn = 0
  MaxWait = 1
SPECIFICATION Spec
INVARIANTS
  NeverParsesNull
CHECK_DEADLOCK FALSE
