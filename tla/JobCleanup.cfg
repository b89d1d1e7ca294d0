SPECIFICATION Spec
CONSTANTS
  q1 = q1
  q2 = q2
  t1 = t1
  t2 = t2
  t3 = t3
  h1 = h1
  h2 = h2
  Queues = {q1, q2}
  Threads = {t1, t2}
  QueueOf <- TwoQueues
  SyncThreads = {}
  Recoveries = {}
  Monitored = {}
  Hosts = {h1, h2}
  IpList <- BothHosts
  FirstQueue = q1
  UseDB = TRUE
  MAX_TRY_TIMES = 3
  MaxFaults = 0
CHECK_DEADLOCK FALSE
PROPERTIES
  CleanupKeepsOthers
