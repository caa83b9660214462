SPECIFICATION Spec
CONSTANTS
  r1 = r1
  r2 = r2
  Execution <- OneExecution
  N = 2
  Quarantined <- NoQuarantine
  Stale <- NoneStale
  Request <- OneRequest
  Startup = startup
  Operations <- AllOperations
  Disturbances <- FileDisturbances
  MaxDisturb = 2
  MaxCrash = 0
  MaxAttempt = 2
  ExpireOnCommit = FALSE
INVARIANTS RetrySummaryIsFresh
