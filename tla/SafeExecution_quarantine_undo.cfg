SPECIFICATION FairSpec
CONSTANTS
  r1 = r1
  r2 = r2
  Execution <- OneExecution
  N = 1
  Quarantined <- FirstQuarantined
  Stale <- NoneStale
  Request <- OneRequest
  Startup = startup
  Operations <- PublicOperations
  Disturbances <- ScanOnly
  MaxDisturb = 1
  MaxCrash = 0
  MaxAttempt = 1
  ExpireOnCommit = FALSE
PROPERTIES UndoCompletes
