SPECIFICATION FairSpec
CONSTANTS
  c1 = c1
  c2 = c2
  Null = Null
  Connections = {c1, c2}
  Threads = {}
  Loop = "glib"
  MaxMessages = 2
  MayDisconnect = TRUE
INVARIANTS
  PollsOnlyWhenDrained
PROPERTIES
  EveryMessageDispatched
