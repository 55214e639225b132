SPECIFICATION Spec
CONSTANTS
  c1 = c1
  c2 = c2
  c3 = c3
  p = p
  q = q
  Missing = Missing
  Malformed = Malformed
  NoPath = NoPath
  NoConn = NoConn
  Chunk = 2
  Conns = {c1, c2, c3}
  Workers = {w1, w2}
  Paths = {p, q}
  Request <- TwoFiles
  Size <- Sizes
  Leavers = {c3}
  Faults = {"recv", "stat", "read", "shrink", "sigpipe"}
INVARIANTS
  ResponseIsTheFile
  OneOwner
  NoAssertFails
CHECK_DEADLOCK FALSE
