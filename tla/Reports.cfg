SPECIFICATION Spec
CONSTANTS
  Jobs <- ConstJobs
  MaxTasks = 2
  MaxOutages = 2
INVARIANTS
  FailureReported
  ReportedResult
  CostsAddUp
  BannerUnlessLost
