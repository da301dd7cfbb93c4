SPECIFICATION FairSpec
CONSTANTS
  Timers = {t1}
  Kinds = {"timer", "func", "ticker"}
  Durations = {0, 4, 8, 40}
  Milli = 3
  MaxInt32 = 2
  MaxInt64 = 50
  MinTime = 41
  MaxTime = 56
  MaxStarts = 2
CHECK_DEADLOCK FALSE
INVARIANTS Inv
PROPERTIES EarlyByLessThanMilli ArmedTimerFires
