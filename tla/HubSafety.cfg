CONSTANTS
  n1 = n1
  c1 = c1
  c2 = c2
  k1 = k1
  NoConn = NoConn
  Nodes = {n1}
  Conns = {c1, c2}
  NodeOf <- OneNode
  Callers = {k1}
  Envelopes = {"heartbeat", "auth_state"}
  SendCap = 1
  EventsCap = 1
  MaxBroadcasts = 2
  DBMayFail = TRUE
CHECK_DEADLOCK FALSE
SPECIFICATION Spec
INVARIANTS OpenIffRegistered
PROPERTY StaleExitKeepsClient
