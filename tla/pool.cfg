SPECIFICATION FairSpec
CONSTANTS
  a = a
  b = b
  Pill = Pill
  Boss = 0
  NumWorkers = 3
  Threads = {0, 1, 2, 3}
  Tasks = {a, b}
  Items = {a, b, Pill}
  NoThread = NoThread
  NoItem = NoItem
  Batches <- MCBatches
INVARIANTS
  PoolTypeOK
  EveryTaskOnce
  PillsLast
  DataOutlivesWorker
  FinishedMeansDone
PROPERTIES
  KeepsQueueContract
  FinishReturns
CHECK_DEADLOCK FALSE
