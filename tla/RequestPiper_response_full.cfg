SPECIFICATION Spec
CONSTANTS
  c1 = c1
  c2 = c2
  c3 = c3
  w1 = w1
  t1 = t1
  t2 = t2
  t3 = t3
  Null = Null
  Calls = {c1, c2, c3}
  Signals = {}
  Workers = {w1}
  Tags = {t1, t2, t3}
  RequestCapacity = 3
  PipeCapacity = 1
  MayLeave = FALSE
SYMMETRY Symmetry
INVARIANTS
  HandlerNotBlocked
