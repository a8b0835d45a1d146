SPECIFICATION FairSpec
CONSTANTS
  c1 = c1
  c2 = c2
  Connections = {c1, c2}
  Senders = {c1}
  Closers = {c1}
  Capacity = 1
  MaxSend = 2
  MaxReceive = 1
  PeersRead = TRUE
INVARIANTS
  TypeOK
PROPERTIES
  SavedIteratorValid
  EveryMessageRead
  EveryMessageWritten
  HangupNoticed
