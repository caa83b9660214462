SPECIFICATION Spec
CONSTANTS
  r1 = r1
  r2 = r2
  Execution <- OneExecution
  N = 2
  Quarantined <- FirstQuarantined
  Stale <- NoneStale
  Request <- TwoRequests
  Startup = startup
  Operations <- WithoutRetry
  Disturbances <- AllDisturbances
  MaxDisturb = 2
  MaxCrash = 2
  MaxAttempt = 1
  ExpireOnCommit = FALSE
SYMMETRY RequestSymmetry
INVARIANTS OneDriver IndexFollowsHistory HistoryLocatesFile
PROPERTIES MovesAreAnnounced KeepsContract
