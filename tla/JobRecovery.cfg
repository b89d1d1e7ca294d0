SPECIFICATION Spec
SYMMETRY Symmetry
CONSTRAINT TwoExecutions
CONSTANTS
  q1 = q1
  q2 = q2
  t1 = t1
  t2 = t2
  t3 = t3
  h1 = h1
  h2 = h2
  Queues = {q1}
  Threads = {t1, t2, t3}
  QueueOf <- OneQueue
  SyncThreads = {}
  Recoveries = {t3}
  Monitored = {t3}
  Hosts = {h1, h2}
  IpList <- OneHost
  FirstQueue = q1
  UseDB = TRUE
  MAX_TRY_TIMES = 2
  MaxFaults = 1
CHECK_DEADLOCK FALSE
INVARIANTS
  FinishedImpliesReported
PROPERTIES
  LedgerSpec
