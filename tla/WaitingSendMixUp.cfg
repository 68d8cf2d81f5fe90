\* Both sides count from 1.
CONSTANTS
  Callers = {t1}
  Client = client
  MaxCalls = 2
  MaxOwn = 1
  MaxWait = 2
SPECIFICATION Spec
INVARIANTS
  ReturnsResponse
CHECK_DEADLOCK FALSE
