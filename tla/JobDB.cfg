SPECIFICATION Spec
CONSTANTS
  q1 = q1
  q2 = q2
  t1 = t1
  t2 = t2
  t3 = t3
  h1 = h1
  h2 = h2
  Queues = {q1, q2}
  Threads = {t1, t2}
  QueueOf <- TwoQueues
  SyncThreads = {t2}
  Recoveries = {}
  Monitored = {t2}
  Hosts = {h1, h2}
  IpList <- TwoAndOne
  FirstQueue = q2
  UseDB = TRUE
  MAX_TRY_TIMES = 2
  MaxFaults = 1
CHECK_DEADLOCK FALSE
INVARIANTS
  TypeOK
  SilenceHasACause
  RunningHasACause
  GivesUpAfterMaxTries
  AnswerComplete
  LastAttemptReported
PROPERTIES
  AnswerFrozen
