SPECIFICATION RunSpec
CONSTANTS
  d1 = d1
  d2 = d2
  r1 = r1
  NoDriver = NoDriver
  Driver = {d1, d2}
  Requester = {r1}
  MaxSteps = 2
  MaxRetries = 1
  MaxCalls = 1
  RunBudgets <- OneRun
INVARIANTS ResumableRunsResume
CHECK_DEADLOCK FALSE
