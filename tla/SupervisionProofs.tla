-------------------------- MODULE SupervisionProofs --------------------------
(* Theorems about Supervision: what registry and tracker know of nodes and  *)
(* sessions through overlapping handlers, callers, failing statements,      *)
(* crashes and restarts.                                                    *)
EXTENDS Supervision, TLAPS

-----------------------------------------------------------------------------
(* Types.                                                                  *)

Status == {Absent, "online", "offline", "running", "idle", "unreachable"}

Calling == [op : {"read", "fill", "update", "updateMap"}, id : Nodes \cup Sessions,
            status : {Absent, "running"}]

TablesTypeOK ==
  /\ sessRow \in [Sessions -> Status] /\ sessions \in [Sessions -> Status]
  /\ nodeRow \in [Nodes -> Status] /\ nodes \in [Nodes -> Status]

\* What is still to be restored on a connection are sessions of its node, and
\* the session a handler enters is one of them.
HandlersTypeOK ==
  /\ conn \in [Conns -> Steps \cup Sessions]
  /\ sock \in [Conns -> {"open", "closed"}]
  /\ connections \in [Nodes -> Conns \cup {NoConn}]
  /\ DOMAIN todo = Conns
  /\ \A c \in Conns :
       /\ \A s \in DOMAIN todo[c] :
            s \in SessionsOf(PeerOf[c]) /\ todo[c][s] \in {"running", "idle"}
       /\ conn[c] \in Sessions => conn[c] \in DOMAIN todo[c]

\* Only sessions are updated, and only a row that was found is put into a map.
CallsTypeOK ==
  /\ call \in [Callers -> {Idle} \cup Calling]
  /\ copy \in [Callers -> Status]
  /\ \A k \in Callers :
       /\ call[k].op \in {"update", "updateMap"} =>
            call[k].id \in Sessions /\ call[k].status = "running"
       /\ call[k].op # "none" /\ call[k].id \in Nodes => call[k].status = Absent
       /\ call[k].op = "fill" => copy[k] # Absent

\* Between a crash and the restart no handler and no call is left.
DownIsQuiet ==
  ~ running => /\ \A c \in Conns : conn[c] \in {"new", "killed"}
               /\ \A k \in Callers : call[k] = Idle

SupTypeOK ==
  /\ TablesTypeOK /\ HandlersTypeOK /\ CallsTypeOK /\ DownIsQuiet
  /\ running \in BOOLEAN /\ restored \in BOOLEAN
  /\ acked \in SUBSET Sessions

LEMMA InitSupTypeOK == Init => SupTypeOK
<1> SUFFICES ASSUME Init PROVE SupTypeOK
  OBVIOUS
<1>1. TablesTypeOK /\ HandlersTypeOK
  BY SupervisionAssumption DEF Init, TablesTypeOK, HandlersTypeOK, Status, Steps, Absent
<1>2. CallsTypeOK /\ DownIsQuiet
  BY DEF Init, CallsTypeOK, DownIsQuiet, Idle, Status
<1> QED
  BY <1>1, <1>2 DEF Init, SupTypeOK

\* A handler keeps the types.
LEMMA HandlerSupTypeOK ==
  ASSUME SupTypeOK, running, UNCHANGED <<running, restored>>, NEW c \in Conns, Handler(c)
  PROVE  SupTypeOK'
<1> USE SupervisionAssumption DEF SupTypeOK
<1>1. CallsTypeOK' /\ DownIsQuiet'
  BY DEF Handler, Accept, RegisterRow, Register, ReadSnapshot, RestoreRow, RestoreFails,
     AddSession, ReadFails, Unlist, MarkOfflineRow, MarkOffline, MarkUnreachableRows,
     MarkUnreachable, CleanupFails, callVars, CallsTypeOK, DownIsQuiet
<1>2. PeerOf[c] \in Nodes
  OBVIOUS
<1> USE DEF TablesTypeOK, HandlersTypeOK, Goto, Status, Steps, tables, maps
<1>3. CASE Accept(c) \/ RegisterRow(c) \/ Register(c)
  BY <1>1, <1>2, <1>3 DEF Accept, RegisterRow, Register
<1>4. CASE ReadSnapshot(c)
  BY <1>1, <1>2, <1>4 DEF ReadSnapshot
<1>5. CASE RestoreRow(c)
  BY <1>1, <1>2, <1>5 DEF RestoreRow, UpsertSession, SessionsOf
<1>6. CASE RestoreFails(c)
  BY <1>1, <1>2, <1>6 DEF RestoreFails
<1>7. CASE AddSession(c)
  BY <1>1, <1>2, <1>7 DEF AddSession
<1>8. CASE ReadFails(c) \/ Unlist(c) \/ MarkOfflineRow(c) \/ MarkOffline(c)
  BY <1>1, <1>2, <1>8 DEF ReadFails, Unlist, MarkOfflineRow, MarkOffline
<1>9. CASE MarkUnreachableRows(c) \/ MarkUnreachable(c) \/ CleanupFails(c)
  BY <1>1, <1>2, <1>9 DEF MarkUnreachableRows, MarkUnreachable, CleanupFails
<1> QED
  BY <1>3, <1>4, <1>5, <1>6, <1>7, <1>8, <1>9 DEF Handler

\* So does a caller.
LEMMA CallerSupTypeOK ==
  ASSUME SupTypeOK, running, UNCHANGED <<running, restored>>, NEW k \in Callers, Caller(k)
  PROVE  SupTypeOK'
<1> USE SupervisionAssumption DEF SupTypeOK
<1>1. HandlersTypeOK' /\ DownIsQuiet' /\ acked' = acked
  BY DEF Caller, LookupSession, LookupNode, ReadThrough, FillMap, UpdateRow, UpdateSession,
     CallFails, handlerVars, HandlersTypeOK, DownIsQuiet
<1>2. call[k] = Idle \/ call[k] \in Calling
  BY DEF CallsTypeOK
<1> USE <1>1, <1>2 DEF TablesTypeOK, CallsTypeOK, SetCall, Status, Idle, Calling, tables, maps, Absent
<1>3. CASE LookupSession(k)
  BY <1>3 DEF LookupSession
<1>4. CASE LookupNode(k)
  BY <1>4 DEF LookupNode
<1>5. CASE ReadThrough(k)
  BY <1>5 DEF ReadThrough
<1>6. CASE FillMap(k)
  BY <1>6 DEF FillMap
<1>7. CASE UpdateRow(k)
  BY <1>7 DEF UpdateRow, UpsertSession
<1>8. CASE UpdateSession(k)
  BY <1>8 DEF UpdateSession
<1>9. CASE CallFails(k)
  BY <1>9 DEF CallFails
<1> QED
  BY <1>3, <1>4, <1>5, <1>6, <1>7, <1>8, <1>9 DEF Caller

LEMMA NextSupTypeOK == SupTypeOK /\ [Next]_vars => SupTypeOK'
<1> SUFFICES ASSUME SupTypeOK, [Next]_vars PROVE SupTypeOK'
  OBVIOUS
<1> USE DEF SupTypeOK
<1>1. ASSUME running, UNCHANGED <<running, restored>>, NEW c \in Conns, Handler(c)
      PROVE  SupTypeOK'
  BY <1>1, HandlerSupTypeOK
<1>2. ASSUME running, UNCHANGED <<running, restored>>, NEW c \in Conns, PeerEnds(c)
      PROVE  SupTypeOK'
  BY <1>2 DEF PeerEnds, TablesTypeOK, HandlersTypeOK, CallsTypeOK, DownIsQuiet, tables, maps,
     callVars
<1>3. ASSUME running, UNCHANGED <<running, restored>>, NEW n \in Nodes, CloseStale(n)
      PROVE  SupTypeOK'
  BY <1>2, <1>3 DEF CloseStale, HandlersTypeOK
<1>4. ASSUME running, UNCHANGED <<running, restored>>, NEW k \in Callers, Caller(k)
      PROVE  SupTypeOK'
  BY <1>4, CallerSupTypeOK
<1>5. CASE Crash
  <2>1. TablesTypeOK' /\ HandlersTypeOK'
    BY <1>5, SupervisionAssumption DEF Crash, TablesTypeOK, HandlersTypeOK, Status, Steps, tables
  <2>2. CallsTypeOK' /\ DownIsQuiet'
    BY <1>5 DEF Crash, CallsTypeOK, DownIsQuiet, Idle, Status
  <2> QED
    BY <1>5, <2>1, <2>2 DEF Crash
<1>6. CASE Restart
  BY <1>6 DEF Restart, LoadNodesFromDB, LoadSessionsFromDB, TablesTypeOK, HandlersTypeOK,
     CallsTypeOK, DownIsQuiet, Status, tables, maps, handlerVars, callVars
<1>7. CASE UNCHANGED vars
  BY <1>7 DEF vars, TablesTypeOK, HandlersTypeOK, CallsTypeOK, DownIsQuiet, tables, maps,
     handlerVars, callVars
<1> QED
  BY <1>1, <1>2, <1>3, <1>4, <1>5, <1>6, <1>7 DEF Next

\* In every reachable state maps, tables, handlers and calls are well typed:
\* the session a handler enters is one of its snapshot, only a row that was
\* found is put into a map, and a crash leaves neither handler nor call.
THEOREM SupervisionTypeCorrect == Spec => []SupTypeOK
  BY InitSupTypeOK, NextSupTypeOK, PTL DEF Spec

-----------------------------------------------------------------------------
(* Acknowledged sessions.                                                  *)

\* AcknowledgedIsKnown rests on the order of AddSession: the row of a session
\* a handler is about to enter is there, and nothing takes a row away.
KnownInv ==
  /\ \A s \in acked : sessRow[s] # Absent
  /\ \A c \in Conns : conn[c] \in Sessions => sessRow[conn[c]] # Absent
  /\ running /\ restored => \A s \in acked : sessions[s] # Absent

\* No step takes a row of the sessions table away.
LEMMA RowsStay ==
  ASSUME SupTypeOK, [Next]_vars, NEW s \in Sessions, sessRow[s] # Absent
  PROVE  sessRow'[s] # Absent
<1> USE DEF SupTypeOK, TablesTypeOK, Absent
<1>1. ASSUME NEW c \in Conns, Handler(c) PROVE sessRow'[s] # Absent
  BY <1>1 DEF Handler, Accept, RegisterRow, Register, ReadSnapshot, RestoreRow, UpsertSession,
     RestoreFails, AddSession, ReadFails, Unlist, MarkOfflineRow, MarkOffline,
     MarkUnreachableRows, MarkUnreachable, CleanupFails, HandlersTypeOK, tables
<1>2. ASSUME NEW k \in Callers, Caller(k) PROVE sessRow'[s] # Absent
  BY <1>2 DEF Caller, LookupSession, LookupNode, ReadThrough, FillMap, UpdateRow, UpsertSession,
     UpdateSession, CallFails, CallsTypeOK, tables
<1>3. ASSUME NEW c, PeerEnds(c) PROVE sessRow'[s] # Absent
  BY <1>3 DEF PeerEnds, tables
<1>4. CASE Crash \/ Restart \/ UNCHANGED vars
  BY <1>4 DEF Crash, Restart, LoadSessionsFromDB, vars, tables
<1> QED
  BY <1>1, <1>2, <1>3, <1>4 DEF Next, CloseStale

LEMMA NextKnownInv == SupTypeOK /\ KnownInv /\ [Next]_vars => KnownInv'
<1> SUFFICES ASSUME SupTypeOK, KnownInv, [Next]_vars PROVE KnownInv'
  OBVIOUS
<1> USE SupervisionAssumption DEF SupTypeOK, TablesTypeOK
<1>1. \A s \in Sessions : sessRow[s] # Absent => sessRow'[s] # Absent
  BY RowsStay
<1>2. ASSUME NEW c \in Conns, Handler(c), UNCHANGED <<running, restored>> PROVE KnownInv'
  <2> USE DEF HandlersTypeOK, Goto, maps
  <2>1. CASE RestoreRow(c)
    BY <1>1, <1>2, <2>1 DEF RestoreRow, UpsertSession, KnownInv, Absent, Steps
  <2>2. CASE AddSession(c)
    BY <1>1, <1>2, <2>2 DEF AddSession, KnownInv, Absent, Steps
  <2>3. CASE MarkUnreachable(c)
    BY <1>1, <1>2, <2>3 DEF MarkUnreachable, KnownInv, Absent, Steps
  <2>4. CASE /\ conn' \in [Conns -> Steps \cup Sessions]
             /\ \A x \in Conns : conn'[x] \in Sessions => conn'[x] = conn[x]
             /\ UNCHANGED <<sessions, acked>>
    BY <1>1, <1>2, <2>4 DEF KnownInv
  <2> QED
    BY <1>2, <2>1, <2>2, <2>3, <2>4 DEF Handler, Accept, RegisterRow, Register, ReadSnapshot,
       RestoreFails, ReadFails, Unlist, MarkOfflineRow, MarkOffline, MarkUnreachableRows,
       CleanupFails, Steps
<1>3. ASSUME NEW k \in Callers, Caller(k), UNCHANGED <<running, restored>> PROVE KnownInv'
  <2>1. conn' = conn /\ acked' = acked
    BY <1>3 DEF Caller, LookupSession, LookupNode, ReadThrough, FillMap, UpdateRow,
       UpdateSession, CallFails, handlerVars
  <2>2. \A s \in Sessions : sessions[s] # Absent => sessions'[s] # Absent
    BY <1>3 DEF Caller, LookupSession, LookupNode, ReadThrough, FillMap, UpdateRow,
       UpdateSession, CallFails, maps, CallsTypeOK, Absent
  <2> QED
    BY <1>1, <1>3, <2>1, <2>2 DEF KnownInv, HandlersTypeOK
<1>4. ASSUME NEW c, PeerEnds(c), UNCHANGED <<running, restored>> PROVE KnownInv'
  BY <1>4 DEF PeerEnds, tables, maps, KnownInv
<1>5. CASE Crash
  BY <1>5 DEF Crash, KnownInv, tables, Steps
<1>6. CASE Restart
  BY <1>1, <1>6 DEF Restart, LoadSessionsFromDB, LoadNodesFromDB, KnownInv, handlerVars, Absent,
     HandlersTypeOK
<1>7. CASE UNCHANGED vars
  BY <1>7 DEF vars, tables, maps, handlerVars, KnownInv
<1> QED
  BY <1>2, <1>3, <1>4, <1>5, <1>6, <1>7 DEF Next, CloseStale

\* A session whose AddSession succeeded is found by GetSession ever after, and
\* listed by a supervisor that has restored its state, for any number of nodes,
\* handlers, callers, failures and crashes (tracker.go).
THEOREM AcknowledgedStaysKnown == Spec => []AcknowledgedIsKnown
<1>1. Init => KnownInv
  BY SupervisionAssumption DEF Init, KnownInv, Steps
<1>2. SupTypeOK /\ KnownInv => AcknowledgedIsKnown
  BY DEF SupTypeOK, KnownInv, AcknowledgedIsKnown, Lookup
<1> QED
  BY <1>1, <1>2, NextKnownInv, SupervisionTypeCorrect, PTL DEF Spec

-----------------------------------------------------------------------------
(* Nodes that are online after a restart.                                  *)

Registered == (Steps \ {"new", "register", "killed"}) \cup Sessions
HasRegistered(n) == \E c \in Conns : PeerOf[c] = n /\ conn[c] \in Registered

\* GetNode may have read a row that says online and put it into the map later:
\* what a call has in hand counts as well.
RegisteredInv ==
  running /\ restored =>
    \A n \in Nodes :
      /\ "online" \in {nodes[n], nodeRow[n]} => HasRegistered(n)
      /\ \A k \in Callers :
           call[k].op = "fill" /\ call[k].id = n /\ copy[k] = "online" => HasRegistered(n)

\* A handler that has registered does not go back, unless the process ends.
LEMMA RegisteredStays ==
  ASSUME SupTypeOK, [Next]_vars, running', running, NEW n \in Nodes, HasRegistered(n)
  PROVE  HasRegistered(n)'
<1> USE SupervisionAssumption DEF SupTypeOK, HandlersTypeOK
<1> PICK x \in Conns : PeerOf[x] = n /\ conn[x] \in Registered
  BY DEF HasRegistered
<1> SUFFICES conn'[x] \in Registered
  BY DEF HasRegistered
<1>1. ASSUME NEW c \in Conns, Handler(c) PROVE conn'[x] \in Registered
  <2>1. c # x => conn'[x] = conn[x]
    BY <1>1 DEF Handler, Accept, RegisterRow, Register, ReadSnapshot, RestoreRow,
       RestoreFails, AddSession, ReadFails, Unlist, MarkOfflineRow, MarkOffline,
       MarkUnreachableRows, MarkUnreachable, CleanupFails, Goto
  <2>2. ASSUME c = x PROVE conn'[x] \in Registered
    <3>1. DOMAIN todo[x] \subseteq Sessions
      BY DEF SessionsOf
    <3>2. CASE RestoreRow(c)
      BY <2>2, <3>1, <3>2 DEF RestoreRow, Registered, Goto
    <3>3. CASE AddSession(c)
      BY <2>2, <3>3 DEF AddSession, Registered, Goto, Steps
    <3> QED
      BY <1>1, <2>2, <3>2, <3>3 DEF Handler, Accept, RegisterRow, Register, ReadSnapshot,
         RestoreFails, ReadFails, Unlist, MarkOfflineRow, MarkOffline, MarkUnreachableRows,
         MarkUnreachable, CleanupFails, Registered, Steps, Goto
  <2> QED
    BY <2>1, <2>2
<1>2. ASSUME NEW k \in Callers, Caller(k) PROVE conn' = conn
  BY <1>2 DEF Caller, LookupSession, LookupNode, ReadThrough, FillMap, UpdateRow,
     UpdateSession, CallFails, handlerVars
<1>3. ASSUME NEW c, PeerEnds(c) PROVE conn' = conn
  BY <1>3 DEF PeerEnds
<1>4. CASE Crash \/ Restart \/ UNCHANGED vars
  BY <1>4 DEF Crash, Restart, vars, handlerVars
<1> QED
  BY <1>1, <1>2, <1>3, <1>4 DEF Next, CloseStale

LEMMA NextRegisteredInv == SupTypeOK /\ RegisteredInv /\ [Next]_vars => RegisteredInv'
<1> SUFFICES ASSUME SupTypeOK, RegisteredInv, [Next]_vars, running', restored', NEW n \in Nodes
             PROVE  /\ "online" \in {nodes'[n], nodeRow'[n]} => HasRegistered(n)'
                    /\ \A k \in Callers :
                         call'[k].op = "fill" /\ call'[k].id = n /\ copy'[k] = "online"
                           => HasRegistered(n)'
  BY DEF RegisteredInv
<1> USE SupervisionAssumption DEF SupTypeOK, TablesTypeOK
<1>1. running /\ HasRegistered(n) => HasRegistered(n)'
  BY RegisteredStays
<1>2. ASSUME NEW c \in Conns, Handler(c), running, UNCHANGED <<running, restored>>
      PROVE  "online" \in {nodes'[n], nodeRow'[n]} => HasRegistered(n)'
  <2>1. CASE PeerOf[c] = n /\ (RegisterRow(c) \/ Register(c))
    BY <2>1 DEF RegisterRow, Register, Goto, HasRegistered, Registered, Steps, HandlersTypeOK
  <2>2. CASE RegisterRow(c) \/ Register(c)
    BY <1>1, <1>2, <2>1, <2>2 DEF RegisterRow, Register, RegisteredInv, tables, maps
  <2>3. CASE MarkOfflineRow(c) \/ MarkOffline(c)
    BY <1>1, <1>2, <2>3 DEF MarkOfflineRow, MarkOffline, RegisteredInv, tables, maps
  <2>4. CASE UNCHANGED <<nodes, nodeRow>>
    BY <1>1, <1>2, <2>4 DEF RegisteredInv
  <2> QED
    BY <1>2, <2>2, <2>3, <2>4 DEF Handler, Accept, ReadSnapshot, RestoreRow, UpsertSession,
       RestoreFails, AddSession, ReadFails, Unlist, MarkUnreachableRows, MarkUnreachable,
       CleanupFails, tables, maps
<1>3. ASSUME NEW c \in Conns, Handler(c), UNCHANGED <<running, restored>>
      PROVE  call' = call /\ copy' = copy
  BY <1>3 DEF Handler, Accept, RegisterRow, Register, ReadSnapshot, RestoreRow,
     RestoreFails, AddSession, ReadFails, Unlist, MarkOfflineRow, MarkOffline,
     MarkUnreachableRows, MarkUnreachable, CleanupFails, callVars
<1>4. ASSUME NEW k \in Callers, Caller(k), running, UNCHANGED <<running, restored>>
      PROVE  /\ "online" \in {nodes'[n], nodeRow'[n]} => HasRegistered(n)'
             /\ \A j \in Callers :
                  call'[j].op = "fill" /\ call'[j].id = n /\ copy'[j] = "online"
                    => HasRegistered(n)'
  <2> USE <1>1, <1>4 DEF RegisteredInv, CallsTypeOK, SetCall, Idle, Calling
  <2>1. CASE ReadThrough(k)
    BY <2>1 DEF ReadThrough, tables, maps
  <2>2. CASE FillMap(k)
    BY <2>2 DEF FillMap, tables
  <2>3. CASE LookupSession(k) \/ LookupNode(k) \/ CallFails(k)
    BY <2>3 DEF LookupSession, LookupNode, CallFails, tables, maps
  <2>4. CASE UpdateRow(k) \/ UpdateSession(k)
    BY <2>4 DEF UpdateRow, UpdateSession, UpsertSession, tables, maps
  <2> QED
    BY <2>1, <2>2, <2>3, <2>4 DEF Caller
<1>5. ASSUME NEW c, PeerEnds(c), UNCHANGED <<running, restored>> PROVE UNCHANGED <<tables, maps, callVars>>
  BY <1>5 DEF PeerEnds
<1>6. CASE Restart
  BY <1>6 DEF Restart, LoadNodesFromDB, LoadSessionsFromDB, callVars, DownIsQuiet, Idle, Absent
<1>7. CASE UNCHANGED vars
  BY <1>1, <1>7 DEF vars, tables, maps, callVars, RegisteredInv
<1> QED
  BY <1>1, <1>2, <1>3, <1>4, <1>5, <1>6, <1>7
     DEF Next, CloseStale, Crash, RegisteredInv, tables, maps, callVars

\* After a restart that loaded the tables, only a node with a handler of this
\* incarnation that has registered is online, in map and table, whatever rows
\* the crash left and whatever calls have read (registry.go).
THEOREM OnlineRegistered == Spec => []OnlineHasRegistered
<1>1. Init => RegisteredInv
  BY DEF Init, RegisteredInv, Absent, Idle
<1>2. SupTypeOK /\ RegisteredInv => OnlineHasRegistered
  BY SupervisionAssumption DEF SupTypeOK, HandlersTypeOK, RegisteredInv, HasRegistered,
     Registered, OnlineHasRegistered, Steps
<1> QED
  BY <1>1, <1>2, NextRegisteredInv, SupervisionTypeCorrect, PTL DEF Spec

-----------------------------------------------------------------------------
(* Nodes whose handlers are gone.                                          *)

\* A handler of node n is at one of the steps P.
At(n, P) == \E c \in Conns : PeerOf[c] = n /\ conn[c] \in P

\* Steps from which a handler still comes to write the node's row, and to
\* write the rows of its sessions.
OwesOffline == {"enter", "read", "restore", "serve", "unlist", "offline"} \cup Sessions
OwesUnreachable == OwesOffline \cup {"offlineMap", "unreachable"}

\* Whatever a handler has written, it takes back later; so once a first handler
\* has passed a write of the clean-up, what that write is about is as it left
\* it, unless another handler has its own clean-up still to do.
NodeGone(n) ==
  n \notin excused =>
    /\ At(n, {"offlineMap", "unreachable", "unreachableMap", "done"}) =>
         nodeRow[n] = "offline" \/ At(n, OwesOffline)
    /\ At(n, {"unreachable", "unreachableMap", "done"}) =>
         nodes[n] = "offline" \/ At(n, OwesOffline \cup {"offlineMap"})

SessionGone(s) ==
  s \notin excused =>
    /\ At(HomeOf[s], {"unreachableMap", "done"}) =>
         sessRow[s] \in {"unreachable", Absent} \/ At(HomeOf[s], OwesUnreachable)
    /\ At(HomeOf[s], {"done"}) =>
         sessions[s] \in {"unreachable", Absent}
           \/ At(HomeOf[s], OwesUnreachable \cup {"unreachableMap"})

GoneInv == (\A n \in Nodes : NodeGone(n)) /\ (\A s \in Sessions : SessionGone(s))

LEMMA HandlerNodeGone ==
  ASSUME SupTypeOK, NEW c \in Conns, Handler(c), NEW n \in Nodes, NodeGone(n)
  PROVE  NodeGone(n)'
<1> USE SupervisionAssumption DEF SupTypeOK, HandlersTypeOK, TablesTypeOK, NodeGone, At, Goto
<1>1. \A x \in Conns : x # c => conn'[x] = conn[x]
  BY DEF Handler, Accept, RegisterRow, Register, ReadSnapshot, RestoreRow,
     RestoreFails, AddSession, ReadFails, Unlist, MarkOfflineRow, MarkOffline,
     MarkUnreachableRows, MarkUnreachable, CleanupFails
<1>2. CASE PeerOf[c] # n
  <2>1. UNCHANGED <<nodeRow[n], nodes[n]>>
    BY <1>2 DEF Handler, Accept, RegisterRow, Register, ReadSnapshot, RestoreRow, UpsertSession,
       RestoreFails, AddSession, ReadFails, Unlist, MarkOfflineRow, MarkOffline,
       MarkUnreachableRows, MarkUnreachable, CleanupFails, tables, maps
  <2>2. n \in excused' <=> n \in excused
    BY <1>2 DEF Handler, Accept, RegisterRow, Register, ReadSnapshot, RestoreRow,
       RestoreFails, AddSession, ReadFails, Unlist, MarkOfflineRow, MarkOffline,
       MarkUnreachableRows, MarkUnreachable, CleanupFails, SessionsOf
  <2> QED
    BY <1>1, <1>2, <2>1, <2>2
<1>3. CASE PeerOf[c] = n
  <2> USE <1>1, <1>3 DEF OwesOffline, Steps, tables, maps
  <2>1. CASE Accept(c)
    BY <2>1 DEF Accept
  <2>2. CASE RegisterRow(c) \/ Register(c)
    BY <2>2 DEF RegisterRow, Register
  <2>3. CASE ReadSnapshot(c) \/ RestoreFails(c)
    BY <2>3 DEF ReadSnapshot, RestoreFails
  <2>4. CASE RestoreRow(c)
    BY <2>4 DEF RestoreRow, UpsertSession, SessionsOf
  <2>5. CASE AddSession(c)
    BY <2>5 DEF AddSession
  <2>6. CASE ReadFails(c) \/ Unlist(c)
    BY <2>6 DEF ReadFails, Reading, Unlist
  <2>7. CASE MarkOfflineRow(c)
    BY <2>7 DEF MarkOfflineRow
  <2>8. CASE MarkOffline(c)
    BY <2>8 DEF MarkOffline
  <2>9. CASE MarkUnreachableRows(c)
    BY <2>9 DEF MarkUnreachableRows, SessionsOf
  <2>10. CASE MarkUnreachable(c)
    BY <2>10 DEF MarkUnreachable
  <2>11. CASE CleanupFails(c)
    BY <2>11 DEF CleanupFails, SessionsOf
  <2> QED
    BY <2>1, <2>2, <2>3, <2>4, <2>5, <2>6, <2>7, <2>8, <2>9, <2>10, <2>11 DEF Handler
<1> QED
  BY <1>2, <1>3

LEMMA HandlerSessionGone ==
  ASSUME SupTypeOK, NEW c \in Conns, Handler(c), NEW s \in Sessions, SessionGone(s)
  PROVE  SessionGone(s)'
<1> USE SupervisionAssumption DEF SupTypeOK, HandlersTypeOK, TablesTypeOK, SessionGone, At, Goto
<1>1. \A x \in Conns : x # c => conn'[x] = conn[x]
  BY DEF Handler, Accept, RegisterRow, Register, ReadSnapshot, RestoreRow,
     RestoreFails, AddSession, ReadFails, Unlist, MarkOfflineRow, MarkOffline,
     MarkUnreachableRows, MarkUnreachable, CleanupFails
<1>2. CASE PeerOf[c] # HomeOf[s]
  <2>1. UNCHANGED <<sessRow[s], sessions[s]>>
    BY <1>2 DEF Handler, Accept, RegisterRow, Register, ReadSnapshot, RestoreRow, UpsertSession,
       RestoreFails, AddSession, ReadFails, Unlist, MarkOfflineRow, MarkOffline,
       MarkUnreachableRows, MarkUnreachable, CleanupFails, SessionsOf, tables, maps
  <2>2. s \in excused' <=> s \in excused
    BY <1>2 DEF Handler, Accept, RegisterRow, Register, ReadSnapshot, RestoreRow,
       RestoreFails, AddSession, ReadFails, Unlist, MarkOfflineRow, MarkOffline,
       MarkUnreachableRows, MarkUnreachable, CleanupFails, SessionsOf
  <2> QED
    BY <1>1, <1>2, <2>1, <2>2
<1>3. CASE PeerOf[c] = HomeOf[s]
  <2> USE <1>1, <1>3 DEF OwesUnreachable, OwesOffline, Steps, tables, maps
  <2>1. CASE Accept(c)
    BY <2>1 DEF Accept
  <2>2. CASE RegisterRow(c) \/ Register(c)
    BY <2>2 DEF RegisterRow, Register
  <2>3. CASE ReadSnapshot(c) \/ RestoreFails(c)
    BY <2>3 DEF ReadSnapshot, RestoreFails
  <2>4. CASE RestoreRow(c)
    BY <2>4 DEF RestoreRow, UpsertSession, SessionsOf
  <2>5. CASE AddSession(c)
    BY <2>5 DEF AddSession
  <2>6. CASE ReadFails(c) \/ Unlist(c)
    BY <2>6 DEF ReadFails, Reading, Unlist
  <2>7. CASE MarkOfflineRow(c)
    BY <2>7 DEF MarkOfflineRow
  <2>8. CASE MarkOffline(c)
    BY <2>8 DEF MarkOffline
  <2>9. CASE MarkUnreachableRows(c)
    BY <2>9 DEF MarkUnreachableRows, SessionsOf
  <2>10. CASE MarkUnreachable(c)
    BY <2>10 DEF MarkUnreachable, SessionsOf
  <2>11. CASE CleanupFails(c)
    BY <2>11 DEF CleanupFails, SessionsOf
  <2> QED
    BY <2>1, <2>2, <2>3, <2>4, <2>5, <2>6, <2>7, <2>8, <2>9, <2>10, <2>11 DEF Handler
<1> QED
  BY <1>2, <1>3

\* A call excuses what it writes.
LEMMA CallerGone ==
  ASSUME SupTypeOK, GoneInv, NEW k \in Callers, Caller(k)
  PROVE  GoneInv'
<1> USE SupervisionAssumption DEF SupTypeOK, TablesTypeOK, CallsTypeOK
<1>1. conn' = conn /\ excused \subseteq excused'
  BY DEF Caller, LookupSession, LookupNode, ReadThrough, FillMap, UpdateRow, UpdateSession,
     CallFails, handlerVars
<1>2. \A n \in Nodes : n \notin excused' => UNCHANGED <<nodeRow[n], nodes[n]>>
  BY DEF Caller, LookupSession, LookupNode, ReadThrough, FillMap, UpdateRow, UpsertSession,
     UpdateSession, CallFails, tables, maps
<1>3. \A s \in Sessions : s \notin excused' => UNCHANGED <<sessRow[s], sessions[s]>>
  BY DEF Caller, LookupSession, LookupNode, ReadThrough, FillMap, UpdateRow, UpsertSession,
     UpdateSession, CallFails, tables, maps
<1> QED
  BY <1>1, <1>2, <1>3 DEF GoneInv, NodeGone, SessionGone, At

LEMMA NextGoneInv == SupTypeOK /\ GoneInv /\ [Next]_vars => GoneInv'
<1> SUFFICES ASSUME SupTypeOK, GoneInv, [Next]_vars PROVE GoneInv'
  OBVIOUS
<1>1. ASSUME NEW c \in Conns, Handler(c) PROVE GoneInv'
  BY <1>1, HandlerNodeGone, HandlerSessionGone DEF GoneInv
<1>2. ASSUME NEW c, PeerEnds(c) PROVE GoneInv'
  BY <1>2 DEF PeerEnds, tables, maps, GoneInv, NodeGone, SessionGone, At
<1>3. CASE Crash
  BY <1>3 DEF Crash, GoneInv, NodeGone, SessionGone, At
<1>4. CASE Restart
  <2>1. \A c \in Conns : conn'[c] \in {"new", "killed"}
    BY <1>4 DEF Restart, SupTypeOK, DownIsQuiet, handlerVars
  <2> QED
    BY <2>1 DEF GoneInv, NodeGone, SessionGone, At
<1>5. CASE UNCHANGED vars
  BY <1>5 DEF vars, tables, maps, handlerVars, GoneInv, NodeGone, SessionGone, At
<1> QED
  BY <1>1, <1>2, <1>3, <1>4, <1>5, CallerGone DEF Next, CloseStale

\* When all handlers of a node have ended, the node is offline and its sessions
\* are unreachable, in the maps and in the tables, for any number of handlers
\* that overlapped in any way (the deferred clean-up of readLoop).
THEOREM GoneNodesUnreachable == Spec => []GoneIsUnreachable
<1>1. Init => GoneInv
  BY DEF Init, GoneInv, NodeGone, SessionGone, At
<1>2. SupTypeOK /\ GoneInv => GoneIsUnreachable
  <2> SUFFICES ASSUME SupTypeOK, GoneInv, NEW n \in Nodes,
                      \E c \in Conns : PeerOf[c] = n /\ conn[c] = "done",
                      \A c \in Conns : PeerOf[c] = n => conn[c] \in {"new", "done", "killed"}
               PROVE  /\ n \notin excused => nodes[n] = "offline" /\ nodeRow[n] = "offline"
                      /\ \A s \in SessionsOf(n) \ excused :
                           {sessions[s], sessRow[s]} \subseteq {"unreachable", Absent}
    BY DEF GoneIsUnreachable
  <2>1. At(n, {"offlineMap", "unreachable", "unreachableMap", "done"})
        /\ At(n, {"unreachable", "unreachableMap", "done"})
        /\ At(n, {"unreachableMap", "done"}) /\ At(n, {"done"})
    BY DEF At
  <2>2. ~ At(n, OwesUnreachable \cup {"unreachableMap"}) /\ ~ At(n, OwesUnreachable)
        /\ ~ At(n, OwesOffline \cup {"offlineMap"}) /\ ~ At(n, OwesOffline)
    BY SupervisionAssumption DEF At, OwesUnreachable, OwesOffline, Steps
  <2> QED
    BY <2>1, <2>2 DEF GoneInv, NodeGone, SessionGone, SessionsOf
<1> QED
  BY <1>1, <1>2, NextGoneInv, SupervisionTypeCorrect, PTL DEF Spec
=============================================================================
