----------------------------- MODULE Supervision -----------------------------
(***************************************************************************)
(* NodeRegistry (registry.go) and SessionTracker (tracker.go): each keeps  *)
(* a map in memory over a table that outlives the process, and every       *)
(* operation touches the two one after the other, outside any common lock. *)
(* They are driven by the connection handlers of the integration           *)
(* supervisor (integration/helpers.go), by concurrent callers that look    *)
(* sessions and nodes up and update them, and by crashes and restarts.     *)
(*                                                                         *)
(* Of a session and of a node only the status is kept, with the node a     *)
(* session runs on. Rows are written by the program and always parse.      *)
(***************************************************************************)
EXTENDS Integers, FiniteSets

CONSTANTS Nodes,        \* node ids
          Sessions,     \* session ids
          HomeOf,       \* HomeOf[s]: the node session s runs on
          Conns,        \* connections; each is accepted at most once
          PeerOf,       \* PeerOf[c]: the node that opened connection c
          NoConn,       \* no connection
          Callers,      \* goroutines that use the tracker and the registry
          MaxUpsets     \* bound on their calls, on crashes and on failing
                        \* statements, taken together

Absent == "absent"

\* Where a handler can be; in AddSession it is at the session it enters.
Steps == {"new", "register", "enter", "read", "restore", "serve", "unlist", "offline",
          "offlineMap", "unreachable", "unreachableMap", "done", "killed"}

ASSUME SupervisionAssumption ==
  /\ HomeOf \in [Sessions -> Nodes]
  /\ PeerOf \in [Conns -> Nodes]
  /\ NoConn \notin Conns
  /\ Nodes \cap Sessions = {}    \* ids stand for the table they are in
  /\ Steps \cap Sessions = {}
  /\ MaxUpsets \in Nat

VARIABLES
  sessRow, sessions,  \* the sessions table and the tracker's map: status by id
  nodeRow, nodes,     \* the nodes table and the registry's map: status by id
  connections,        \* h.connections: the listed connection of a node
  conn,               \* conn[c]: what the handler of c does next
  sock,               \* the websocket of c: "open", "closed"
  todo,               \* the sessions of a snapshot still to be restored: id -> status
  call,               \* call[k]: the operation of caller k
  copy,               \* copy[k]: the status it has read
  upsets,             \* calls, crashes and failing statements so far
  running,            \* the supervisor process is up
  restored,           \* it has loaded its tables at start
  acked,              \* history: sessions an AddSession has succeeded for
  excused             \* history: ids a caller or a failed statement has
                      \* left behind since their node was last taken down

tables == <<sessRow, nodeRow>>
maps == <<sessions, nodes>>
handlerVars == <<connections, conn, sock, todo>>
callVars == <<call, copy>>
vars == <<tables, maps, handlerVars, callVars, upsets, running, restored, acked, excused>>

SessionsOf(n) == {s \in Sessions : HomeOf[s] = n}
Idle == [op |-> "none"]

\* A call, a crash, or a statement that returns an error.
Upset == upsets < MaxUpsets /\ upsets' = upsets + 1

-----------------------------------------------------------------------------
(* A connection's handler. *)

\* Blocked in ReadMessage, before and after the snapshot.
Reading == {"read", "serve"}

Goto(c, pc) == conn' = [conn EXCEPT ![c] = pc]

\* The upgrade, and the entry in h.connections.
Accept(c) ==
  /\ conn[c] = "new"
  /\ Goto(c, "register")
  /\ sock' = [sock EXCEPT ![c] = "open"]
  /\ connections' = [connections EXCEPT ![PeerOf[c]] = c]
  /\ UNCHANGED <<tables, maps, todo, callVars, upsets, acked, excused>>

\* Register writes the row, ...
RegisterRow(c) ==
  /\ conn[c] = "register"
  /\ nodeRow' = [nodeRow EXCEPT ![PeerOf[c]] = "online"]
  /\ Goto(c, "enter")
  /\ UNCHANGED <<sessRow, maps, connections, sock, todo, callVars, upsets, acked, excused>>

\* ... then the map.
Register(c) ==
  /\ conn[c] = "enter"
  /\ nodes' = [nodes EXCEPT ![PeerOf[c]] = "online"]
  /\ Goto(c, "read")
  /\ UNCHANGED <<tables, sessions, connections, sock, todo, callVars, upsets, acked, excused>>

\* A register message, which an agent sends once on a connection: its
\* sessions become the work list of RestoreFromSnapshot.
ReadSnapshot(c) ==
  /\ conn[c] = "read" /\ sock[c] = "open"
  /\ SessionsOf(PeerOf[c]) # {}
  /\ \E status \in {"running", "idle"} :
       todo' = [todo EXCEPT ![c] = [s \in SessionsOf(PeerOf[c]) |-> status]]
  /\ Goto(c, "restore")
  /\ UNCHANGED <<tables, maps, connections, sock, callVars, upsets, acked, excused>>

\* upsertSession: insert or update, refused without a row of the node.
UpsertSession(s, status) ==
  /\ nodeRow[HomeOf[s]] # Absent
  /\ sessRow' = [sessRow EXCEPT ![s] = status]

RestoreRow(c) ==
  /\ conn[c] = "restore"
  /\ \E s \in DOMAIN todo[c] :
       /\ UpsertSession(s, todo[c][s])
       /\ Goto(c, s)
  /\ UNCHANGED <<nodeRow, maps, connections, sock, todo, callVars, upsets, acked, excused>>

\* Mutant of RestoreFails: the session is entered although its row was not written.
RestoreRegardless(c) ==
  /\ conn[c] = "restore"
  /\ Upset
  /\ \E s \in DOMAIN todo[c] : Goto(c, s)
  /\ UNCHANGED <<tables, maps, connections, sock, todo, callVars, acked, excused>>

\* RestoreFromSnapshot stops at the first error, and readLoop returns.
RestoreFails(c) ==
  /\ conn[c] = "restore"
  /\ Upset
  /\ Goto(c, "unlist")
  /\ todo' = [todo EXCEPT ![c] = <<>>]
  /\ UNCHANGED <<tables, maps, connections, sock, callVars, acked, excused>>

\* AddSession enters the session in the map and returns nil.
AddSession(c) ==
  /\ conn[c] \in Sessions
  /\ LET s == conn[c]
         left == DOMAIN todo[c] \ {s}
     IN /\ sessions' = [sessions EXCEPT ![s] = todo[c][s]]
        /\ acked' = acked \cup {s}
        /\ todo' = [todo EXCEPT ![c] = [x \in left |-> todo[c][x]]]
        /\ Goto(c, IF left = {} THEN "serve" ELSE "restore")
  /\ UNCHANGED <<tables, nodes, connections, sock, callVars, upsets, excused>>

\* ReadMessage fails: the socket is closed, or its read deadline has passed.
ReadFails(c) ==
  /\ conn[c] \in Reading /\ sock[c] = "closed"
  /\ Goto(c, "unlist")
  /\ UNCHANGED <<tables, maps, connections, sock, todo, callVars, upsets, acked, excused>>

\* The deferred clean-up: whatever connection is listed for the node is
\* removed, and the handler's own socket closed.
Unlist(c) ==
  /\ conn[c] = "unlist"
  /\ connections' = [connections EXCEPT ![PeerOf[c]] = NoConn]
  /\ sock' = [sock EXCEPT ![c] = "closed"]
  /\ Goto(c, "offline")
  /\ UNCHANGED <<tables, maps, todo, callVars, upsets, acked, excused>>

\* MarkOffline finds the node in the map or reads its row, and writes the
\* row (only the status is kept here, so what it read does not matter) ...
MarkOfflineRow(c) ==
  /\ conn[c] = "offline"
  /\ nodeRow' = [nodeRow EXCEPT ![PeerOf[c]] = "offline"]
  /\ excused' = excused \ {PeerOf[c]}
  /\ Goto(c, "offlineMap")
  /\ UNCHANGED <<sessRow, maps, connections, sock, todo, callVars, upsets, acked>>

\* ... and then the map.
MarkOffline(c) ==
  /\ conn[c] = "offlineMap"
  /\ nodes' = [nodes EXCEPT ![PeerOf[c]] = "offline"]
  /\ Goto(c, "unreachable")
  /\ UNCHANGED <<tables, sessions, connections, sock, todo, callVars, upsets, acked, excused>>

\* UPDATE sessions SET status = 'unreachable' WHERE node_id = ?
MarkUnreachableRows(c) ==
  /\ conn[c] = "unreachable"
  /\ sessRow' = [s \in Sessions |-> IF s \in SessionsOf(PeerOf[c]) /\ sessRow[s] # Absent
                                    THEN "unreachable" ELSE sessRow[s]]
  /\ excused' = excused \ SessionsOf(PeerOf[c])
  /\ Goto(c, "unreachableMap")
  /\ UNCHANGED <<nodeRow, maps, connections, sock, todo, callVars, upsets, acked>>

\* Mutant of MarkUnreachable: only sessions that run are marked.
MarkRunningUnreachable(c) ==
  /\ conn[c] = "unreachableMap"
  /\ sessions' = [s \in Sessions |-> IF s \in SessionsOf(PeerOf[c]) /\ sessions[s] = "running"
                                     THEN "unreachable" ELSE sessions[s]]
  /\ Goto(c, "done")
  /\ UNCHANGED <<tables, nodes, connections, sock, todo, callVars, upsets, acked, excused>>

\* The same for the map.
MarkUnreachable(c) ==
  /\ conn[c] = "unreachableMap"
  /\ sessions' = [s \in Sessions |-> IF s \in SessionsOf(PeerOf[c]) /\ sessions[s] # Absent
                                     THEN "unreachable" ELSE sessions[s]]
  /\ Goto(c, "done")
  /\ UNCHANGED <<tables, nodes, connections, sock, todo, callVars, upsets, acked, excused>>

\* MarkOffline and MarkUnreachable return at a failing statement; the
\* clean-up ignores the error.
CleanupFails(c) ==
  /\ conn[c] \in {"offline", "unreachable"}
  /\ Upset
  /\ Goto(c, IF conn[c] = "offline" THEN "unreachable" ELSE "done")
  /\ excused' = excused \cup
       (IF conn[c] = "offline" THEN {PeerOf[c]} ELSE SessionsOf(PeerOf[c]))
  /\ UNCHANGED <<tables, maps, connections, sock, todo, callVars, acked>>

-----------------------------------------------------------------------------
(* The peer and the heartbeat monitor. *)

\* The agent or the network ends the connection, or is silent until the
\* read deadline has passed. Only a read notices.
PeerEnds(c) ==
  /\ conn[c] \in Reading /\ sock[c] = "open"
  /\ sock' = [sock EXCEPT ![c] = "closed"]
  /\ UNCHANGED <<tables, maps, connections, conn, todo, callVars, upsets, acked, excused>>

\* The monitor closes a listed connection without a recent heartbeat.
CloseStale(n) ==
  /\ connections[n] # NoConn
  /\ PeerEnds(connections[n])

-----------------------------------------------------------------------------
(* Callers of GetSession, UpdateSession and GetNode. *)

SetCall(k, c) == call' = [call EXCEPT ![k] = c]

\* GetSession (status = Absent) or UpdateSession to a status; the map is
\* read under the lock.
LookupSession(k) ==
  /\ call[k] = Idle /\ Upset
  /\ \E s \in Sessions, status \in {Absent, "running"} :
       LET miss == sessions[s] = Absent
           next == IF miss THEN "read" ELSE IF status = Absent THEN "none" ELSE "update"
       IN SetCall(k, IF next = "none" THEN Idle
                     ELSE [op |-> next, id |-> s, status |-> status])
  /\ UNCHANGED <<tables, maps, handlerVars, copy, acked, excused>>

LookupNode(k) ==
  /\ call[k] = Idle /\ Upset
  /\ \E n \in Nodes :
       /\ nodes[n] = Absent
       /\ SetCall(k, [op |-> "read", id |-> n, status |-> Absent])
  /\ UNCHANGED <<tables, maps, handlerVars, copy, acked, excused>>

\* A miss reads the row; no row ends the call with not found.
ReadThrough(k) ==
  /\ call[k].op = "read"
  /\ LET x == call[k].id
         row == IF x \in Nodes THEN nodeRow[x] ELSE sessRow[x]
     IN /\ copy' = [copy EXCEPT ![k] = row]
        /\ SetCall(k, IF row = Absent THEN Idle ELSE [call[k] EXCEPT !.op = "fill"])
  /\ UNCHANGED <<tables, maps, handlerVars, upsets, acked, excused>>

\* What was read goes into the map, whatever is there by now.
FillMap(k) ==
  /\ call[k].op = "fill"
  /\ LET x == call[k].id
     IN /\ IF x \in Nodes
             THEN nodes' = [nodes EXCEPT ![x] = copy[k]] /\ UNCHANGED sessions
             ELSE sessions' = [sessions EXCEPT ![x] = copy[k]] /\ UNCHANGED nodes
        /\ excused' = excused \cup {x}
        /\ SetCall(k, IF call[k].status = Absent THEN Idle
                      ELSE [call[k] EXCEPT !.op = "update"])
  /\ UNCHANGED <<tables, handlerVars, copy, upsets, acked>>

\* UpdateSession (ApplyEvent, with the status of the event) writes the
\* whole record to the row ...
UpdateRow(k) ==
  /\ call[k].op = "update"
  /\ UpsertSession(call[k].id, call[k].status)
  /\ excused' = excused \cup {call[k].id}
  /\ SetCall(k, [call[k] EXCEPT !.op = "updateMap"])
  /\ UNCHANGED <<nodeRow, maps, handlerVars, copy, upsets, acked>>

\* ... then to the map.
UpdateSession(k) ==
  /\ call[k].op = "updateMap"
  /\ sessions' = [sessions EXCEPT ![call[k].id] = call[k].status]
  /\ excused' = excused \cup {call[k].id}
  /\ SetCall(k, Idle)
  /\ UNCHANGED <<tables, nodes, handlerVars, copy, upsets, acked>>

\* A failing statement ends the call with an error.
CallFails(k) ==
  /\ call[k].op \in {"read", "update"}
  /\ Upset
  /\ SetCall(k, Idle)
  /\ UNCHANGED <<tables, maps, handlerVars, copy, acked, excused>>

-----------------------------------------------------------------------------
(* Crash and restart. *)

\* The process ends: handlers, calls and maps are gone, the tables stay.
Crash ==
  /\ running /\ Upset
  /\ running' = FALSE
  /\ conn' = [c \in Conns |-> IF conn[c] = "new" THEN "new" ELSE "killed"]
  /\ sock' = [c \in Conns |-> "closed"]
  /\ connections' = [n \in Nodes |-> NoConn]
  /\ sessions' = [s \in Sessions |-> Absent]
  /\ nodes' = [n \in Nodes |-> Absent]
  /\ todo' = [c \in Conns |-> <<>>]
  /\ call' = [k \in Callers |-> Idle]
  /\ copy' = [k \in Callers |-> Absent]
  /\ excused' = {}
  /\ UNCHANGED <<tables, restored, acked>>

\* Mutant of LoadNodesFromDB: the rows are taken as the crash left them.
LoadNodesAsTheyAre ==
  /\ UNCHANGED nodeRow
  /\ nodes' = nodeRow

\* LoadNodesFromDB: every row is set offline, then becomes the map.
LoadNodesFromDB ==
  /\ nodeRow' = [n \in Nodes |-> IF nodeRow[n] = Absent THEN Absent ELSE "offline"]
  /\ nodes' = nodeRow'

\* LoadSessionsFromDB: the same for the sessions.
LoadSessionsFromDB ==
  /\ sessRow' = [s \in Sessions |-> IF sessRow[s] = Absent THEN Absent ELSE "unreachable"]
  /\ sessions' = sessRow'

\* The start of the integration supervisor loads both tables when it is
\* told to restore; cmd/supervisor never does.
Restart ==
  /\ ~ running
  /\ running' = TRUE
  /\ \E restore \in BOOLEAN :
       /\ restored' = restore
       /\ IF restore THEN LoadNodesFromDB /\ LoadSessionsFromDB
                     ELSE UNCHANGED <<tables, maps>>
  /\ UNCHANGED <<handlerVars, callVars, upsets, acked, excused>>

-----------------------------------------------------------------------------
Init ==
  /\ sessRow = [s \in Sessions |-> Absent] /\ sessions = sessRow
  /\ nodeRow = [n \in Nodes |-> Absent] /\ nodes = nodeRow
  /\ connections = [n \in Nodes |-> NoConn]
  /\ conn = [c \in Conns |-> "new"]
  /\ sock = [c \in Conns |-> "closed"]
  /\ todo = [c \in Conns |-> <<>>]
  /\ call = [k \in Callers |-> Idle] /\ copy = [k \in Callers |-> Absent]
  /\ upsets = 0
  /\ running = TRUE /\ restored = TRUE
  /\ acked = {} /\ excused = {}

\* readLoop and the code around it, for one connection.
Handler(c) ==
  \/ Accept(c) \/ RegisterRow(c) \/ Register(c)
  \/ ReadSnapshot(c) \/ RestoreRow(c) \/ RestoreFails(c) \/ AddSession(c)
  \/ ReadFails(c) \/ Unlist(c)
  \/ MarkOfflineRow(c) \/ MarkOffline(c)
  \/ MarkUnreachableRows(c) \/ MarkUnreachable(c) \/ CleanupFails(c)

Caller(k) ==
  \/ LookupSession(k) \/ LookupNode(k)
  \/ ReadThrough(k) \/ FillMap(k) \/ UpdateRow(k) \/ UpdateSession(k) \/ CallFails(k)

Next ==
  \/ /\ running
     /\ UNCHANGED <<running, restored>>
     /\ \/ \E c \in Conns : Handler(c) \/ PeerEnds(c)
        \/ \E n \in Nodes : CloseStale(n)
        \/ \E k \in Callers : Caller(k)
  \/ Crash
  \/ Restart

Spec == Init /\ [][Next]_vars

-----------------------------------------------------------------------------
\* What GetSession answers: the map, or else the row.
Lookup(s) == IF sessions[s] # Absent THEN sessions[s] ELSE sessRow[s]

\* A session whose AddSession succeeded is never unknown again, whatever
\* crashes, failing statements and restarts do (AddSession writes the row
\* before the map, nothing deletes a row, LoadSessionsFromDB takes every
\* row): GetSession finds it, and a supervisor that has restored its state
\* lists it.
AcknowledgedIsKnown ==
  running => \A s \in acked : /\ Lookup(s) # Absent
                              /\ restored => sessions[s] # Absent

\* When all handlers of a node have ended, however many there were and
\* however their registrations, snapshots and clean-ups overlapped, the
\* node is offline and its sessions are unreachable, in memory and in the
\* tables; only a caller that wrote a session or filled the map later, or
\* a failed statement, is an excuse (readLoop's deferred MarkOffline and
\* MarkUnreachable).
GoneIsUnreachable ==
  \A n \in Nodes :
    LET mine == {c \in Conns : PeerOf[c] = n}
    IN (/\ \E c \in mine : conn[c] = "done"
        /\ \A c \in mine : conn[c] \in {"new", "done", "killed"})
       => /\ n \notin excused => nodes[n] = "offline" /\ nodeRow[n] = "offline"
          /\ \A s \in SessionsOf(n) \ excused :
               {sessions[s], sessRow[s]} \subseteq {"unreachable", Absent}

\* After a restart that restored the tables, a node is online only when it
\* has registered with this incarnation: rows a crash left online do not
\* count (LoadNodesFromDB sets them offline before the map is filled).
OnlineHasRegistered ==
  running /\ restored =>
    \A n \in Nodes :
      "online" \in {nodes[n], nodeRow[n]} =>
        \E c \in Conns : PeerOf[c] = n /\ conn[c] \notin {"new", "register", "killed"}
=============================================================================
