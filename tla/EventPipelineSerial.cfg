CONSTANTS
  a1 = a1
  c1 = c1
  Agents = {a1}
  Conns = {c1}
  NodeOf <- OneConn
  MaxSeq = 3
  MaxInc = 2
  WireCap = 1
  DedupCap = 1
  QueueCap = 1
  SendMayFail = TRUE
SPECIFICATION Spec
INVARIANTS TypeOK InOrder OnlyWaiting  HeadRequested PersistedInOrder CloseDrains
PROPERTY ImplementsOrderedDelivery
