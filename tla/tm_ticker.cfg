SPECIFICATION Spec
CONSTANTS
  Timers = {t1}
  Kinds = {"ticker"}
  Durations = {3}
  Milli = 3
  MaxInt32 = 16
  MaxInt64 = 50
  MinTime = 0
  MaxTime = 16
  MaxStarts = 1
CHECK_DEADLOCK FALSE
INVARIANTS TickerKeepsTicking
