SPECIFICATION FairSpec
CONSTANTS
  r1 = r1
  r2 = r2
  r3 = r3
  r4 = r4
  r5 = r5
  Requests <- AllRequests
  Body <- Bodies
  Ip <- Ips
  Scans = {r5}
  Broken = {r5}
  Whitelist <- White
  Blacklist <- Black
  Recoveries = {k1}
  MaxPosts = 2
  MaxFailures = 1
CHECK_DEADLOCK FALSE
INVARIANTS
  OneAdmitted
  CompleteIsExplained
  RecoveryStartsNew
  SecondThreadNeedsTimeout
PROPERTIES
  RecoveryEnds
