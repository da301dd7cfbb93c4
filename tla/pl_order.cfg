SPECIFICATION FairSpec
CONSTANTS
  Clients = {c1, c2, c3}
  Modulus = 3
  None = None
CHECK_DEADLOCK FALSE
INVARIANTS Inv
PROPERTIES EventsBegin
