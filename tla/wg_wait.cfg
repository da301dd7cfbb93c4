SPECIFICATION FairSpec
CONSTANTS
  Tasks = {t1, t2, t3}
  Waiters = {w1, w2, w3}
INVARIANTS TypeOK WaitIsABarrier
PROPERTIES WaitReturns
CHECK_DEADLOCK FALSE
