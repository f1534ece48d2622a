CONSTANTS
  n1 = n1
  c1 = c1
  c2 = c2
  k1 = k1
  NoConn = NoConn
  Nodes = {n1}
  Conns = {c1, c2}
  NodeOf <- OneNode
  Callers = {k1}
  Envelopes = {"heartbeat"}
  SendCap = 1
  EventsCap = 1
  MaxBroadcasts = 0
  DBMayFail = FALSE
CHECK_DEADLOCK FALSE
SPECIFICATION FairSpec
  
PROPERTIES DeadConnectionLeaves SilentConnectionLeaves
