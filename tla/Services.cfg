CONSTANTS
  w1 = w1
  w2 = w2
  p1 = p1
  p2 = p2
  p3 = p3
  Watched = {w1, w2}
  Policies <- ThreePolicies
  MaxRetries <- SmallCaps
  ResetWindow <- SmallWindows
  MaxTime = 2
  MaxAttempts = 4
  Projects = {p1, p2, p3}
  Statuses = {"running", "error"}
  Providers = {"openai"}
  Accounts = {"x", "y"}
  Pollers = {"a", "b"}
  MaxRetry = 1
  MaxUsage = 1
  Manifest <- NodeManifest
  KindOf <- NodeKinds
  MaxEdits = 3
  MaxSessions = 2
  Dirs = {p1, p2}
  NoDir = NoDir
  NoSession = 0
  MaxCommands = 2
  MaxVersions = 2
  MaxStatements = 3
CHECK_DEADLOCK FALSE
SPECIFICATION MCSpec
INVARIANTS RetryBudget FewAfterStop ValidateDecides CostsNeverAhead
   MarkerOnce AnswersAreTrue UpIsMigrated
PROPERTIES OwnContentKept
