SPECIFICATION FairSpec
CONSTANTS
  r1 = r1
  r2 = r2
  Execution <- OneExecution
  N = 2
  Quarantined <- NoQuarantine
  Stale <- NoneStale
  Request <- TwoRequests
  Startup = startup
  Operations <- PublicOperations
  Disturbances <- UserFiles
  MaxDisturb = 2
  MaxCrash = 2
  MaxAttempt = 1
  ExpireOnCommit = FALSE
PROPERTIES RequestsEnd ServerReturns InterruptedIsRecovered
