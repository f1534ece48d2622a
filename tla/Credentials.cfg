CONSTANTS
  k1 = k1
  k2 = k2
  NoKey = NoKey
  Requests = {1, 2, 3}
  KeyOf <- RequestKeys
  HttpCap = 1
  AppliedCap = 1
  MaxRepeats = 1
  MaxTroubles = 1
  MaxConns = 2
  Expected = 1
  Hosts = {"in", "broken", "hangs"}
  NoState = "none"
  MaxChanges = 2
CHECK_DEADLOCK FALSE
SPECIFICATION MCSpec
INVARIANTS  RepeatNeedsEviction SyncStatusHonest
PROPERTIES AuthArrives
