SPECIFICATION FairSpec
CONSTANTS
  c1 = c1
  c2 = c2
  t1 = t1
  Null = Null
  Connections = {c1, c2}
  Threads = {t1}
  Loop = "bus"
  MaxMessages = 2
  MayDisconnect = TRUE
INVARIANTS
  TypeOK
  DataIsScheduled
PROPERTIES
  EveryMessageDispatched
