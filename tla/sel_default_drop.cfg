SPECIFICATION Spec
CONSTANTS
  a = a
  b = b
  s1 = s1
  s2 = s2
  s3 = s3
  p1 = p1
  p2 = p2
  p3 = p3
  Chans = {a}
  Selects = {s1, s2}
  Plain = {p1, p2}
  Blocking = {}
  Closing = {}
  Cap <- OnePlace
  Cases <- CasesTick
  None = None
CHECK_DEADLOCK FALSE
INVARIANTS DefaultDropsTheSend
