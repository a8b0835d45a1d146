SPECIFICATION Spec
CONSTANTS
  c1 = c1
  c2 = c2
  c3 = c3
  s1 = s1
  s2 = s2
  w1 = w1
  w2 = w2
  t1 = t1
  t2 = t2
  t3 = t3
  t4 = t4
  Null = Null
  Calls = {c1, c2, c3}
  Signals = {s1, s2}
  Workers = {w1, w2}
  Tags = {t1, t2, t3, t4}
  RequestCapacity = 1
  PipeCapacity = 4
  MayLeave = FALSE
SYMMETRY Symmetry
INVARIANTS
  TypeOK
  ContinuationFound
  RightCaller
  SentOnce
  InOrder
  ByteForEachRequest
  HeldTagsAreAllocated
  PiperInv
  CrashFree
