SPECIFICATION Spec
CONSTANTS
  Timers = {t1}
  Kinds = {"func"}
  Durations = {3}
  Milli = 3
  MaxInt32 = 16
  MaxInt64 = 50
  MinTime = 0
  MaxTime = 12
  MaxStarts = 2
CHECK_DEADLOCK FALSE
INVARIANTS OneCallPerStart
