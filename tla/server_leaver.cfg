SPECIFICATION Spec
CONSTANTS
  c1 = c1
  c2 = c2
  c3 = c3
  p = p
  q = q
  Missing = Missing
  Malformed = Malformed
  NoPath = NoPath
  NoConn = NoConn
  Chunk = 2
  Conns = {c1}
  Workers = {w1}
  Paths = {p}
  Request <- OneFile
  Size <- Short
  Leavers = {c1}
  Faults = {}
INVARIANTS
  NoAssertFails
CHECK_DEADLOCK FALSE
