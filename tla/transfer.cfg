SPECIFICATION FairSpec
CONSTANTS
  c1 = c1
  c2 = c2
  NoClient = NoClient
  Clients = {c1, c2}
  Size = 3
  Chunk = 2
  Addresses = 2
  Leavers = {c2}
  Sources = {"file", "other"}
  Faults = {"bind", "listen", "open", "read", "sink", "disk", "sigpipe"}
INVARIANTS
  WholeOrLogged
  FilesMatchStatus
PROPERTIES
  EveryTransferEnds
CHECK_DEADLOCK FALSE
