SPECIFICATION FairSpec
CONSTANTS
  c1 = c1
  c2 = c2
  s1 = s1
  w1 = w1
  t1 = t1
  t2 = t2
  t3 = t3
  Null = Null
  Calls = {c1, c2}
  Signals = {s1}
  Workers = {w1}
  Tags = {t1, t2, t3}
  RequestCapacity = 1
  PipeCapacity = 2
  MayLeave = TRUE
PROPERTIES
  EveryCallAnswered
  ImplementsFairService
  LeaveEnds
