CONSTANTS
  n1 = n1
  s1 = s1
  s2 = s2
  c1 = c1
  c2 = c2
  k1 = k1
  NoConn = NoConn
  Nodes = {n1}
  Sessions = {s1, s2}
  HomeOf <- OneHome
  Conns = {c1, c2}
  PeerOf <- OnePeer
  Callers = {k1}
  MaxUpsets = 2
CHECK_DEADLOCK FALSE
SPECIFICATION Spec
INVARIANTS AcknowledgedIsKnown GoneIsUnreachable OnlineHasRegistered
