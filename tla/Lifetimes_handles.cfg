SPECIFICATION Spec
CONSTANTS
  Calls = {c1, c2, c3}
  Workers = {w1, w2}
  Pending = {p1, p2}
  Clients = {b1}
  Accepted = {s1, s2}
  Variables = {v1, v2, v3}
SYMMETRY Interchangeable
CHECK_DEADLOCK FALSE
INVARIANTS
  NoCounterRace
  HandlesValid
  NothingLeft
  ClosedBeforeItEnds
