SPECIFICATION FairSpec
CONSTANTS
  Clients = {c1, c2}
  Modulus = 2
  None = None
CHECK_DEADLOCK FALSE
PROPERTIES StartReturns
