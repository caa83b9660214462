SPECIFICATION Spec
CONSTANTS
  r1 = r1
  r2 = r2
  Execution <- OneExecution
  N = 2
  Quarantined <- NoQuarantine
  Stale <- LastStale
  Request <- TwoRequests
  Startup = startup
  Operations <- AllOperations
  Disturbances <- AllDisturbances
  MaxDisturb = 2
  MaxCrash = 2
  MaxAttempt = 2
  ExpireOnCommit = TRUE
SYMMETRY RequestSymmetry
INVARIANTS StatusesAgree
PROPERTIES WorkflowStreamExtends
