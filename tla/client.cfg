SPECIFICATION FairSpec
CONSTANTS
  t1 = t1
  t2 = t2
  home = home
  NoTask = NoTask
  Tasks = {t1, t2}
  Workers = {w1, w2}
  Dirs = {home}
  Dir <- OneDirectory
  Replies <- AnyServer
  Chunk = 2
  Faults = {"mkdir", "fopen", "connect", "recv"}
INVARIANTS
  NoAssertFails
  SuccessMeansWholeFile
  NoPartialFileLeft
  EveryRequestReported
PROPERTIES
  FinishReturns
CHECK_DEADLOCK FALSE
