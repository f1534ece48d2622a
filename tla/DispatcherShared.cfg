CONSTANTS
  c1 = c1
  c2 = c2
  c3 = c3
  i1 = i1
  i2 = i2
  i3 = i3
  k1 = k1
  NoKey = NoKey
  NoChan = NoChan
  None = None
  Error = Error
  Calls = {c1, c2}
  Ids = {i1, i2, i3}
  IdOf <- OneId
  Keys = {k1}
  KeyOf <- OneKey
  DBMayFail = TRUE
  MaxExpiries = 1
  MaxRestarts = 1
CHECK_DEADLOCK FALSE
SPECIFICATION FairSpec
INVARIANT NoLeakedWaiter
PROPERTY EveryCallReturns
