SPECIFICATION Spec
CONSTANTS
  None = None
  c1 = c1  c2 = c2
  o1 = o1  o2 = o2
  q1 = q1  q2 = q2
  t1 = t1
  Connections = {c1, c2}
  Objects = {o1, o2}
  Proxies = {q1, q2}
  Tags = {t1}
  Paths <- MCPaths
  Methods <- MCMethods
  PropertyTable <- MCPropertyTable
  Announced <- MCAnnounced
  InitialValues <- MCInitialValues
  NewValues <- MCNewValues
  SignalsOf <- MCSignalsOf
  Requests <- MCRequests
  PathOf <- MCPathOf
  ServiceOf <- MCServiceOf
  InterfacesOf <- MCInterfacesOf
  MaxMessages = 2
SYMMETRY Interchangeable
CHECK_DEADLOCK FALSE
INVARIANTS
  TablesAgree
  CallsAccountedFor
  PropertiesKept
  AnnouncedIsStored
  SignalsReachProxies
