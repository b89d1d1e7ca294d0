SPECIFICATION Spec
CONSTANTS
  q1 = q1
  q2 = q2
  h1 = h1
  h2 = h2
  Conns = {c1, c2}
  Queues = {q1, q2}
  Hosts = {h1, h2}
  HostList <- CommonHost
  Called = {"submit", "mark", "result", "summary", "finish", "fail", "respond", "respond failure", "cleanup", "refresh"}
  RetryTime = 1
  MaxCalls = 4
  MaxBusy = 4
  MaxCrashes = 1
SYMMETRY Symmetry
CONSTRAINT FewCallsOrLocks
CHECK_DEADLOCK FALSE
INVARIANTS
  ReferencesOK
  LockReleased
  StoredOnce
PROPERTIES
  FailureAtomic
  OnlyOwnRows
  FinishedUnlessOvertaken
