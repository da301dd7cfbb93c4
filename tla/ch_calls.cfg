SPECIFICATION FairSpec
CONSTANTS
  Senders = {s1, s2}
  Receivers = {r1, r2}
  Rangers = {g1}
  Closers = {c1}
  Cap = 1
  None = None
CHECK_DEADLOCK FALSE
INVARIANTS Fifo NeverBothQueued SendReturnsWithRoom HandedOnce ReturnedValue RangeInBounds
PROPERTIES ImplementsChannel BufferedSendReturns RangeEndsAfterClose
