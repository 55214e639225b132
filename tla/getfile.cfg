SPECIFICATION FairSpec
CONSTANTS
  c1 = c1
  c2 = c2
  NoConn = NoConn
  Clients = {c1, c2}
  Items <- MCItems
  Size <- MCSize
  Workloads <- MCWorkloads
  Requests <- MCRequests
  Chunk = 2
  Addresses = 1
  Leavers = {c2}
  Faults = {"bind", "listen", "read", "sigpipe", "open", "disk"}
INVARIANTS
  ReportsAreTrue
  ConnectionsHaveOwner
  LookupIsRight
PROPERTIES
  EveryRequestEnds
CHECK_DEADLOCK FALSE
