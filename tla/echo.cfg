SPECIFICATION FairSpec
CONSTANTS
  c1 = c1
  c2 = c2
  c3 = c3
  NoClient = NoClient
  Clients = {c1, c2, c3}
  Length <- Messages
  MaxMessageLength = 2
  Addresses = 2
  Splits = {c2}
  Leavers = {c3}
  Faults = {"resolve", "bind", "listen", "sigpipe"}
INVARIANTS
  EchoIsTheMessage
  NobodyCutOff
PROPERTIES
  EveryClientServed
CHECK_DEADLOCK FALSE
