SPECIFICATION FairSpec
CONSTANTS
  Requests = {r1, r2}
  Bodies = {r2}
  Timed = {r2}
  Cancelable = {r1}
  Conns = {p1, p2, p3}
  MaxConnsPerHost = 2
  MaxIdleConnsPerHost = 2
  MaxIdleConns = 1
  MaxAttempts = 2
  MaxFaults = 2
  None = None
CHECK_DEADLOCK FALSE
INVARIANTS Inv OneHolder NobodyWaitsInVain
PROPERTIES RequestsEnd
