SPECIFICATION FairSpec
CONSTANTS
  Clients = {x1, x2}
  Timed = {x1}
  Conns = {c1, c2}
  MaxOpen = 2
  MaxIdle = 2
  Limits = {1}
  ResetCap = 1
  Resetters = {TRUE, FALSE}
  MaxFaults = 2
  None = None
CHECK_DEADLOCK FALSE
INVARIANTS Inv OneHolder ResetBeforeReuse NoneIdleWhileWaiting
PROPERTIES GrowsWithinLimit CallsReturn
