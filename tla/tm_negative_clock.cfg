SPECIFICATION Spec
CONSTANTS
  Timers = {t1}
  Kinds = {"func"}
  Durations = {4}
  Milli = 3
  MaxInt32 = 16
  MaxInt64 = 50
  MinTime <- Negative
  MaxTime <- Negative
  MaxStarts = 1
CHECK_DEADLOCK FALSE
INVARIANTS ArmedForWhen
