SPECIFICATION Spec
CONSTANTS
  j1 = j1
  j2 = j2
  j3 = j3
  NoJob = NoJob
  Job = {j1, j2, j3}
  MaxAttempts <- Attempts
  JobBudgets <- AllJobs
  d1 = d1
  d2 = d2
  r1 = r1
  r2 = r2
  NoDriver = NoDriver
  Driver = {d1, d2}
  Requester = {r1, r2}
  MaxSteps = 2
  MaxRetries = 1
  MaxCalls = 1
  RunBudgets <- AllRuns
  a = a
  b = b
  Nothing = Nothing
  LastPath = 2
  Text = {a, b}
  TopK = 1
  IndexBudgets <- AllIndex
  MaxLength = 5
  MaxChars = 3
  x = x
  f1 = f1
  f2 = f2
  f3 = f3
  Folder = {"in", "root", "sub"}
  Parent <- MCParent
  Watched = "in"
  Stem = {x}
  File = {f1, f2, f3}
  HistoryMax = 2
  DesktopBudgets <- AllClicks
  Scans <- MCScans
  Scores = {54, 75, 90, 95, 100}
  Thresholds = {85}
  MaxRows = 2
  Root = "top"
  Dir = {"top", "left", "right", "link"}
  DirAt <- MCDirAt
  Name = {"m", "n"}
  FileId = {1, 2}
  NoPath = NoPath
  ProposalBudgets <- AllPlans
  Component = {"a", "b", "c", "f", "k", "l", "s", ".h", "x"}
  Trees <- SomeTrees
  Rules <- SomeRules
  Hidden = {".h"}
  Sensitive = {"s"}
  MaxDepth = 2
  LoopSteps = 12
  Entry <- SomeEntries
  PageSize = 2
  ReadBudgets <- AllReads
  TurnLimit = 2
  CallLimit = 1
  NoUsage = NoUsage
  RecordBudgets <- AllRecords
  c1 = c1
  c2 = c2
  Clerk = {c1, c2}
  NoClerk = NoClerk
  LeadsTo <- MCLeadsTo
  RuleName = {"t"}
  PolicyBudgets <- AllPolicies
INVARIANTS
  TypesOK RecordFollowsRow NothingStranded  StepsFollowTurns
  IndexedIsCurrent ChunksTileText ChoiceFollowsScores  PagesReachStaying RecordsExplainRun
  PoliciesAccounted
PROPERTIES
  KeepsJobContract JobsEnd KeepsRunContract RunEnds TimelineExtends
  ScanKeepsIdentity AnswersAreGrounded FilesAreKept PlansHold
CHECK_DEADLOCK FALSE
