SPECIFICATION FairSpec
CONSTANTS
  a = a
  b = b
  s1 = s1
  s2 = s2
  s3 = s3
  p1 = p1
  p2 = p2
  p3 = p3
  Chans = {a, b}
  Selects = {s1}
  Plain = {p1, p2, p3}
  Blocking = {s1}
  Closing = {}
  Cap <- Unbuffered
  Cases <- CasesOne
  None = None
CHECK_DEADLOCK FALSE
PROPERTIES CompletedSelectReturns
