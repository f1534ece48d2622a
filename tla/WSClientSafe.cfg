CONSTANTS
  s1 = s1
  s2 = s2
  Senders = {s1, s2}
  MaxSeq = 2
  MaxConns = 3
CHECK_DEADLOCK FALSE
SPECIFICATION FairSpec
INVARIANTS PendingOnConnection NoEventForgotten
PROPERTIES EventArrives CloseEnds
