SPECIFICATION Spec
CONSTANTS
  Timers = {t1}
  Kinds = {"func"}
  Durations = {4}
  Milli = 3
  MaxInt32 = 16
  MaxInt64 = 50
  MinTime = 0
  MaxTime = 9
  MaxStarts = 1
CHECK_DEADLOCK FALSE
PROPERTIES AtLeastDuration
