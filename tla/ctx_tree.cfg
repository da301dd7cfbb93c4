SPECIFICATION FairSpec
CONSTANTS
  root = root
  mid = mid
  leaf = leaf
  side = side
  Ctxs = {root, mid, leaf, side}
  Background = Background
  Parent <- ParentOf
  Foreign = {side}
  Deadline <- DeadlineOf
  CancelCalls <- Calls
  MaxTime = 2
  None = None
CHECK_DEADLOCK FALSE
INVARIANTS Inv ErrorFromAbove NothingRetained
PROPERTIES CallsReturn EndsInTime
