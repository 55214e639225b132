SPECIFICATION Spec
CONSTANTS
  c1 = c1
  c2 = c2
  c3 = c3
  NoClient = NoClient
  Clients = {c1, c2}
  Length <- ShortMessages
  MaxMessageLength = 2
  Addresses = 1
  Splits = {}
  Leavers = {c1}
  Faults = {"sigpipe"}
INVARIANTS
  RunsUntilStopped
CHECK_DEADLOCK FALSE
