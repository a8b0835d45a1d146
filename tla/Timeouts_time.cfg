SPECIFICATION FairSpec
CONSTANTS
  t1 = t1
  t2 = t2
  th1 = th1
  Null = Null
  Timeouts = {t1, t2}
  Threads = {th1}
  Intervals = {1, 2}
  MaxWait = 3
  MaxWork = 1
  HandlersChange = FALSE
INVARIANTS
  TypeOK
  HandledInTime
PROPERTIES
  HandledAgain
