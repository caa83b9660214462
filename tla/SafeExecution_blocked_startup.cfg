SPECIFICATION FairSpec
CONSTANTS
  r1 = r1
  r2 = r2
  Execution <- TwoExecutions
  N = 1
  Quarantined <- NoQuarantine
  Stale <- NoneStale
  Request <- TwoRequests
  Startup = startup
  Operations <- PublicOperations
  Disturbances <- DirectoryOnly
  MaxDisturb = 1
  MaxCrash = 1
  MaxAttempt = 1
  ExpireOnCommit = FALSE
PROPERTIES ClearExecutionIsRecovered
