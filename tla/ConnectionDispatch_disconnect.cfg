SPECIFICATION FairSpec
CONSTANTS
  c1 = c1
  Null = Null
  Connections = {c1}
  Threads = {}
  Loop = "bus"
  MaxMessages = 1
  MayDisconnect = TRUE
PROPERTIES
  DisconnectedDispatched
