SPECIFICATION FairSpec
CONSTANTS
  q1 = q1
  q2 = q2
  t1 = t1
  t2 = t2
  t3 = t3
  h1 = h1
  h2 = h2
  Queues = {q1, q2}
  Threads = {t1, t2}
  QueueOf <- TwoQueues
  SyncThreads = {t2}
  Recoveries = {}
  Monitored = {t1, t2}
  Hosts = {h1, h2}
  IpList <- OneHost
  FirstQueue = q2
  UseDB = FALSE
  MAX_TRY_TIMES = 2
  MaxFaults = 1
CHECK_DEADLOCK FALSE
INVARIANTS
  SecondReportNeedsKill
PROPERTIES
  CallerReturns
  EveryThreadEnds
