SPECIFICATION FairSpec
CONSTANTS
  w1 = w1
  w2 = w2
  r1 = r1
  r2 = r2
  Readers = {r1}
  Writers = {w1}
  Size <- SizeOf
  Room <- RoomOf
  Calls <- CallsOf
  Closers = {"CloseWrite"}
  None = None
CHECK_DEADLOCK FALSE
PROPERTIES ReadAfterClose
