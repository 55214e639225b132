SPECIFICATION FairSpec
CONSTANTS
  t1 = t1
  t2 = t2
  t3 = t3
  a = a
  b = b
  Threads = {t1, t2, t3}
  Items = {a, b}
  NoThread = NoThread
  NoItem = NoItem
  Batches <- MCBatches
  MaxCalls = 4
INVARIANTS
  MutexOwned
  PopFindsItem
  NoLostWakeup
PROPERTIES
  ImplementsFifo
  EventuallyServed
CHECK_DEADLOCK FALSE
