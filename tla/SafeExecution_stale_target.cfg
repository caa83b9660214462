SPECIFICATION FairSpec
CONSTANTS
  r1 = r1
  r2 = r2
  Execution <- OneExecution
  N = 1
  Quarantined <- NoQuarantine
  Stale <- FirstStale
  Request <- OneRequest
  Startup = startup
  Operations <- ExecuteOnly
  Disturbances <- NoDisturbances
  MaxDisturb = 0
  MaxCrash = 1
  MaxAttempt = 1
  ExpireOnCommit = FALSE
PROPERTIES MovedIsRecorded
