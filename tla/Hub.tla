--------------------------------- MODULE Hub ---------------------------------
(***************************************************************************)
(* The supervisor's connection hub: Hub.Run and ServeWS (hub.go), the two  *)
(* pumps of a connection (agent_conn.go), the status half of NodeRegistry  *)
(* (registry.go) and the transport through which the command dispatcher    *)
(* reaches a connection (hubCommandTransport.Send).                        *)
(*                                                                         *)
(* Hub.Run is one goroutine: register, unregister, broadcast, the          *)
(* heartbeat check and shutdown are cases of one select, but the registry  *)
(* is called after h.mu is released and does its read-modify-write in two  *)
(* critical sections of its own, between which the read pumps run.         *)
(***************************************************************************)
EXTENDS Integers, Sequences, FiniteSets

CONSTANTS Nodes,        \* node ids (X-Node-ID)
          Conns,        \* connections; each is accepted at most once
          NodeOf,       \* NodeOf[c]: the node that opened connection c
          NoConn,       \* no connection
          Callers,      \* goroutines that send commands
          Envelopes,    \* kinds of envelope agents send
          SendCap,      \* capacity of a connection's send channel (256)
          EventsCap,    \* capacity of the hub's event channel (64)
          MaxBroadcasts,\* bound on broadcasts (nothing in the repository sends one)
          DBMayFail     \* may the registry's upsert return an error?

\* heartbeat stands for the kinds that only refresh lastHeartbeat,
\* auth_state for those that also update the registry entry.
EnvelopeKinds == {"heartbeat", "auth_state"}

ASSUME HubAssumption ==
  /\ NodeOf \in [Conns -> Nodes]
  /\ NoConn \notin Conns
  /\ Envelopes \subseteq EnvelopeKinds
  /\ SendCap \in Nat \ {0}
  /\ EventsCap \in Nat
  /\ MaxBroadcasts \in Nat
  /\ DBMayFail \in BOOLEAN

VARIABLES
  ctxDone,    \* the hub's context is cancelled
  clients,    \* clients[n]: the registered connection of node n, or NoConn
  serve,      \* ServeWS of c: "new", "register" (sending on h.register), "served"
  sendOpen,   \* c.send has not been closed
  sendLen,    \* messages buffered in c.send
  sock,       \* the websocket of c is usable
  reader,     \* readPump: "off", "read", "lookup", "update", "exit", "done"
  copy,       \* the registry entry readPump read and will write back
  writer,     \* writePump: "off", "run", "done"
  fresh,      \* c.lastHeartbeat is within the timeout
  hub,        \* Run: "select", "online", "offline", "timeouts", "expire", "stopped"
  hubNode,    \* the node the present case of Run is about
  timedOut,   \* connections checkHeartbeats still has to expire
  events,     \* contents of h.events
  broadcasts, \* broadcasts so far
  nodes,      \* the registry's status of a node
  target,     \* target[k]: the connection Send of caller k has looked up
  panicked    \* a goroutine has sent on, or closed, a closed channel

connVars == <<clients, sendOpen, sendLen, sock>>
pumpVars == <<serve, reader, copy, writer, fresh>>
hubVars  == <<ctxDone, hub, hubNode, timedOut, events, broadcasts>>
vars == <<connVars, pumpVars, hubVars, nodes, target, panicked>>

-----------------------------------------------------------------------------
\* close(c.send) for every c in S; closing a closed channel panics.
CloseSends(S) ==
  /\ sendOpen' = [c \in Conns |-> sendOpen[c] /\ c \notin S]
  /\ panicked' = (panicked \/ \E c \in S : ~ sendOpen[c])

\* c.conn.Close() for every c in S.
CloseSocks(S) == sock' = [c \in Conns |-> sock[c] /\ c \notin S]

Registered == {clients[n] : n \in Nodes} \ {NoConn}

\* The non-blocking send on h.events.
Emit(type, n) ==
  events' = IF Len(events) < EventsCap THEN Append(events, <<type, n>>) ELSE events

-----------------------------------------------------------------------------
(* ServeWS and the network.                                                *)

\* ServeWS accepts a connection (token checked, upgraded) and is about to
\* send it on h.register.
ServeWS(c) ==
  /\ serve[c] = "new"
  /\ serve' = [serve EXCEPT ![c] = "register"]
  /\ UNCHANGED <<connVars, reader, copy, writer, fresh, hubVars, nodes, target, panicked>>

\* The peer goes away, or the read deadline passes without a pong.
PeerDrop(c) ==
  /\ serve[c] # "new" /\ sock[c]
  /\ CloseSocks({c})
  /\ UNCHANGED <<clients, sendOpen, sendLen, pumpVars, hubVars, nodes, target, panicked>>

\* The heartbeat timeout passes without an envelope from c.
Silence(c) ==
  /\ serve[c] = "served" /\ fresh[c]
  /\ fresh' = [fresh EXCEPT ![c] = FALSE]
  /\ UNCHANGED <<connVars, serve, reader, copy, writer, hubVars, nodes, target, panicked>>

\* The supervisor is shut down.
Cancel ==
  /\ ~ ctxDone /\ ctxDone' = TRUE
  /\ UNCHANGED <<connVars, pumpVars, hub, hubNode, timedOut, events, broadcasts, nodes, target, panicked>>

-----------------------------------------------------------------------------
(* Hub.Run.                                                                *)

\* Mutant of HubRegister: the channel of the replaced connection stays open.
RegisterLeavesOld(c) ==
  LET n == NodeOf[c] IN
  /\ hub = "select" /\ serve[c] = "register"
  /\ clients' = [clients EXCEPT ![n] = c]
  /\ serve' = [serve EXCEPT ![c] = "served"]
  /\ reader' = [reader EXCEPT ![c] = "read"]
  /\ writer' = [writer EXCEPT ![c] = "run"]
  /\ hub' = "online" /\ hubNode' = n
  /\ UNCHANGED <<sendOpen, sendLen, sock, copy, fresh, ctxDone, timedOut, events,
                 broadcasts, nodes, target, panicked>>

\* case conn := <-h.register: the new connection replaces the node's old one,
\* and ServeWS goes on to start the pumps.
HubRegister(c) ==
  LET n == NodeOf[c]
      existing == {clients[n]} \ {NoConn, c} IN
  /\ hub = "select" /\ serve[c] = "register"
  /\ CloseSends(existing) /\ CloseSocks(existing)
  /\ clients' = [clients EXCEPT ![n] = c]
  /\ serve' = [serve EXCEPT ![c] = "served"]
  /\ reader' = [reader EXCEPT ![c] = "read"]
  /\ writer' = [writer EXCEPT ![c] = "run"]
  /\ hub' = "online" /\ hubNode' = n
  /\ UNCHANGED <<sendLen, copy, fresh, ctxDone, timedOut, events, broadcasts, nodes, target>>

\* Register upserts the row, then replaces the entry with one that is online.
RegisterNode(n) ==
  \/ nodes' = [nodes EXCEPT ![n] = "online"]
  \/ DBMayFail /\ nodes' = nodes

\* registerNodeOnline and the event that follows it.
HubOnline ==
  /\ hub = "online"
  /\ RegisterNode(hubNode)
  /\ Emit("node.online", hubNode)
  /\ hub' = "select"
  /\ UNCHANGED <<connVars, pumpVars, ctxDone, hubNode, timedOut, broadcasts,
                 target, panicked>>

\* Mutants of HubUnregister: whatever connection is registered is removed; the
\* registry is not told; the registry is told even when nothing was removed.
UnregisterAny(c) ==
  LET n == NodeOf[c] IN
  /\ hub = "select" /\ reader[c] = "exit"
  /\ clients' = [clients EXCEPT ![n] = NoConn]
  /\ CloseSends({c})
  /\ hub' = "offline" /\ hubNode' = n
  /\ reader' = [reader EXCEPT ![c] = "done"]
  /\ CloseSocks({c})
  /\ UNCHANGED <<sendLen, serve, copy, writer, fresh, ctxDone, timedOut, events,
                 broadcasts, nodes, target>>

UnregisterTelling(c, told) ==
  LET n == NodeOf[c]
      removed == clients[n] = c IN
  /\ hub = "select" /\ reader[c] = "exit"
  /\ clients' = IF removed THEN [clients EXCEPT ![n] = NoConn] ELSE clients
  /\ CloseSends(IF removed THEN {c} ELSE {})
  /\ hub' = IF told THEN "offline" ELSE hub
  /\ hubNode' = IF told THEN n ELSE hubNode
  /\ reader' = [reader EXCEPT ![c] = "done"]
  /\ CloseSocks({c})
  /\ UNCHANGED <<sendLen, serve, copy, writer, fresh, ctxDone, timedOut, events,
                 broadcasts, nodes, target>>

UnregisterSilent(c) == UnregisterTelling(c, FALSE)
UnregisterTells(c) == UnregisterTelling(c, TRUE)

\* case conn := <-h.unregister: only the registered connection is removed.
\* readPump returns and closes the websocket.
HubUnregister(c) ==
  LET n == NodeOf[c]
      removed == clients[n] = c IN
  /\ hub = "select" /\ reader[c] = "exit"
  /\ clients' = IF removed THEN [clients EXCEPT ![n] = NoConn] ELSE clients
  /\ CloseSends(IF removed THEN {c} ELSE {})
  /\ hub' = IF removed THEN "offline" ELSE hub
  /\ hubNode' = IF removed THEN n ELSE hubNode
  /\ reader' = [reader EXCEPT ![c] = "done"]
  /\ CloseSocks({c})
  /\ UNCHANGED <<sendLen, serve, copy, writer, fresh, ctxDone, timedOut, events,
                 broadcasts, nodes, target>>

\* case msg := <-h.broadcast: a client whose channel is full is dropped; its
\* websocket is left to writePump and the registry is not told.
HubBroadcast ==
  LET slow == {c \in Registered : sendLen[c] = SendCap} IN
  /\ hub = "select" /\ broadcasts < MaxBroadcasts
  /\ broadcasts' = broadcasts + 1
  /\ sendLen' = [c \in Conns |->
                   IF c \in Registered \ slow THEN sendLen[c] + 1 ELSE sendLen[c]]
  /\ CloseSends(slow)
  /\ clients' = [n \in Nodes |-> IF clients[n] \in slow THEN NoConn ELSE clients[n]]
  /\ UNCHANGED <<sock, pumpVars, ctxDone, hub, hubNode, timedOut, events, nodes, target>>

\* case <-ticker.C: checkHeartbeats collects the silent connections.
HubCheckHeartbeats ==
  /\ hub = "select"
  /\ timedOut' = {c \in Registered : ~ fresh[c]}
  /\ timedOut' # {}
  /\ hub' = "timeouts"
  /\ UNCHANGED <<connVars, pumpVars, ctxDone, hubNode, events, broadcasts, nodes, target, panicked>>

\* MarkOffline: read the entry, upsert the row, replace the entry.  Only the
\* status is kept here, so the entry that is written does not depend on the one
\* read; a node the registry does not know is skipped.
MarkOffline(n) ==
  \/ nodes' = [nodes EXCEPT ![n] = IF @ = "absent" THEN @ ELSE "offline"]
  \/ DBMayFail /\ nodes' = nodes

\* registerNodeOffline after an unregister.
HubOffline ==
  /\ hub = "offline"
  /\ MarkOffline(hubNode)
  /\ hub' = "select"
  /\ UNCHANGED <<connVars, pumpVars, ctxDone, hubNode, timedOut, events, broadcasts, target, panicked>>

\* checkHeartbeats marks the next silent connection's node offline.
HubExpire(c) ==
  /\ hub = "timeouts" /\ c \in timedOut
  /\ MarkOffline(NodeOf[c])
  /\ hubNode' = NodeOf[c]
  /\ hub' = "expire"
  /\ UNCHANGED <<connVars, pumpVars, ctxDone, timedOut, events, broadcasts, target, panicked>>

\* Mutant of HubExpireClose: the websocket is left open.
ExpireKeepsSocket ==
  LET expired == {c \in timedOut : NodeOf[c] = hubNode} IN
  /\ hub = "expire"
  /\ Emit("node.offline", hubNode)
  /\ timedOut' = timedOut \ expired
  /\ hub' = IF timedOut' = {} THEN "select" ELSE "timeouts"
  /\ UNCHANGED <<connVars, pumpVars, ctxDone, hubNode, broadcasts, nodes, target, panicked>>

\* ... emits the event and closes the websocket; readPump will unregister.
HubExpireClose ==
  LET expired == {c \in timedOut : NodeOf[c] = hubNode} IN
  /\ hub = "expire"
  /\ Emit("node.offline", hubNode)
  /\ CloseSocks(expired)
  /\ timedOut' = timedOut \ expired
  /\ hub' = IF timedOut' = {} THEN "select" ELSE "timeouts"
  /\ UNCHANGED <<clients, sendOpen, sendLen, pumpVars, ctxDone, hubNode, broadcasts,
                 nodes, target, panicked>>

\* case <-h.ctx.Done(): every connection is closed and Run returns; the
\* registry is not told.
HubStop ==
  /\ hub = "select" /\ ctxDone
  /\ CloseSends(Registered) /\ CloseSocks(Registered)
  /\ clients' = [n \in Nodes |-> NoConn]
  /\ hub' = "stopped"
  /\ UNCHANGED <<sendLen, pumpVars, ctxDone, hubNode, timedOut, events, broadcasts, nodes, target>>

-----------------------------------------------------------------------------
(* The pumps of a connection.                                              *)

\* readPump reads an envelope; handleEnvelope refreshes lastHeartbeat and,
\* for some kinds, goes on to the registry.
ReadEnvelope(c, kind) ==
  /\ reader[c] = "read" /\ sock[c]
  /\ fresh' = [fresh EXCEPT ![c] = TRUE]
  /\ reader' = [reader EXCEPT ![c] = IF kind = "auth_state" THEN "lookup" ELSE @]
  /\ UNCHANGED <<connVars, serve, copy, writer, hubVars, nodes, target, panicked>>

\* UpdateAuthState / ReconcileCredentialVersion, first critical section: copy
\* the entry; an unknown node ends the update.
LookupNode(c) ==
  /\ reader[c] = "lookup"
  /\ \/ /\ nodes[NodeOf[c]] = "absent"
        /\ reader' = [reader EXCEPT ![c] = "read"]
        /\ UNCHANGED copy
     \/ /\ nodes[NodeOf[c]] # "absent"
        /\ reader' = [reader EXCEPT ![c] = "update"]
        /\ copy' = [copy EXCEPT ![c] = nodes[NodeOf[c]]]
  /\ UNCHANGED <<connVars, serve, writer, fresh, hubVars, nodes, target, panicked>>

\* ... second critical section: the whole entry is written back, with the
\* status it had when it was read.
UpdateNode(c) ==
  /\ reader[c] = "update"
  /\ nodes' = [nodes EXCEPT ![NodeOf[c]] = copy[c]]
  /\ copy' = [copy EXCEPT ![c] = "absent"]
  /\ reader' = [reader EXCEPT ![c] = "read"]
  /\ UNCHANGED <<connVars, serve, writer, fresh, hubVars, target, panicked>>

\* ReadMessage fails: readPump's deferred function runs.
ReadFails(c) ==
  /\ reader[c] = "read" /\ ~ sock[c]
  /\ reader' = [reader EXCEPT ![c] = "exit"]
  /\ UNCHANGED <<connVars, serve, copy, writer, fresh, hubVars, nodes, target, panicked>>

\* The deferred function need not reach Run when the hub is shutting down.
ReaderGivesUp(c) ==
  /\ reader[c] = "exit" /\ ctxDone
  /\ reader' = [reader EXCEPT ![c] = "done"]
  /\ CloseSocks({c})
  /\ UNCHANGED <<clients, sendOpen, sendLen, serve, copy, writer, fresh, hubVars,
                 nodes, target, panicked>>

\* writePump takes a message off c.send and writes it.
WriteMessage(c) ==
  /\ writer[c] = "run" /\ sendLen[c] > 0 /\ sock[c]
  /\ sendLen' = [sendLen EXCEPT ![c] = @ - 1]
  /\ UNCHANGED <<clients, sendOpen, sock, pumpVars, hubVars, nodes, target, panicked>>

\* Mutant of WriterReturns: a failed write is ignored.
WriterIgnoresErrors(c) ==
  /\ writer[c] = "run"
  /\ ~ sendOpen[c] /\ sendLen[c] = 0
  /\ writer' = [writer EXCEPT ![c] = "done"]
  /\ CloseSocks({c})
  /\ UNCHANGED <<clients, sendOpen, sendLen, serve, reader, copy, fresh, hubVars,
                 nodes, target, panicked>>

\* writePump returns: its channel is closed and empty, or a write (of a ping
\* or of a message it has taken) fails.
WriterReturns(c) ==
  /\ writer[c] = "run"
  /\ \/ ~ sendOpen[c] /\ sendLen[c] = 0 /\ UNCHANGED sendLen
     \/ ~ sock[c] /\ UNCHANGED sendLen
     \/ ~ sock[c] /\ sendLen[c] > 0 /\ sendLen' = [sendLen EXCEPT ![c] = @ - 1]
  /\ writer' = [writer EXCEPT ![c] = "done"]
  /\ CloseSocks({c})
  /\ UNCHANGED <<clients, sendOpen, serve, reader, copy, fresh, hubVars,
                 nodes, target, panicked>>

-----------------------------------------------------------------------------
(* hubCommandTransport.Send.                                               *)

\* Look the node's connection up under the read lock.
SendLookup(k, n) ==
  /\ target[k] = NoConn /\ clients[n] # NoConn
  /\ target' = [target EXCEPT ![k] = clients[n]]
  /\ UNCHANGED <<connVars, pumpVars, hubVars, nodes, panicked>>

\* Send on its channel, without the lock: a full channel is an error, a
\* closed one panics.
SendEnqueue(k) ==
  LET c == target[k] IN
  /\ c # NoConn
  /\ target' = [target EXCEPT ![k] = NoConn]
  /\ panicked' = (panicked \/ ~ sendOpen[c])
  /\ sendLen' = [sendLen EXCEPT ![c] = IF sendOpen[c] /\ @ < SendCap THEN @ + 1 ELSE @]
  /\ UNCHANGED <<clients, sendOpen, sock, pumpVars, hubVars, nodes>>

-----------------------------------------------------------------------------
Init ==
  /\ ctxDone = FALSE /\ clients = [n \in Nodes |-> NoConn]
  /\ serve = [c \in Conns |-> "new"]
  /\ sendOpen = [c \in Conns |-> TRUE] /\ sendLen = [c \in Conns |-> 0]
  /\ sock = [c \in Conns |-> TRUE]
  /\ reader = [c \in Conns |-> "off"] /\ copy = [c \in Conns |-> "absent"]
  /\ writer = [c \in Conns |-> "off"] /\ fresh = [c \in Conns |-> TRUE]
  /\ hub = "select" /\ hubNode \in Nodes /\ timedOut = {}
  /\ events = << >> /\ broadcasts = 0
  /\ nodes = [n \in Nodes |-> "absent"]
  /\ target = [k \in Callers |-> NoConn]
  /\ panicked = FALSE

HubHandler ==
  HubOnline \/ HubOffline \/ HubExpireClose \/ \E c \in Conns : HubExpire(c)

HubSelect ==
  \/ \E c \in Conns : HubRegister(c) \/ HubUnregister(c)
  \/ HubBroadcast \/ HubCheckHeartbeats \/ HubStop

ReadPump(c) == LookupNode(c) \/ UpdateNode(c) \/ ReadFails(c) \/ ReaderGivesUp(c)
WritePump(c) == WriteMessage(c) \/ WriterReturns(c)

Environment(c) ==
  ServeWS(c) \/ PeerDrop(c) \/ Silence(c) \/ \E kind \in Envelopes : ReadEnvelope(c, kind)

Next ==
  \/ HubHandler \/ HubSelect \/ Cancel
  \/ \E c \in Conns : Environment(c) \/ ReadPump(c) \/ WritePump(c)
  \/ \E k \in Callers : SendEnqueue(k) \/ \E n \in Nodes : SendLookup(k, n)

Spec == Init /\ [][Next]_vars

\* The scheduler runs every goroutine, and select chooses at random among its
\* ready cases, so none of them is passed over for ever.  (Nothing below needs
\* a register to be taken.)
Fairness ==
  /\ WF_vars(HubHandler)
  /\ SF_vars(HubCheckHeartbeats) /\ SF_vars(HubStop)
  /\ \A c \in Conns :
       /\ SF_vars(HubUnregister(c))
       /\ WF_vars(ReadPump(c)) /\ WF_vars(WritePump(c))

FairSpec == Spec /\ Fairness

-----------------------------------------------------------------------------
(* Properties.                                                             *)

\* The state has the shape the Go types give it; the channels stay within
\* their capacities.
TypeOK ==
  /\ ctxDone \in BOOLEAN /\ clients \in [Nodes -> Conns \cup {NoConn}]
  /\ serve \in [Conns -> {"new", "register", "served"}]
  /\ sendOpen \in [Conns -> BOOLEAN] /\ sendLen \in [Conns -> 0..SendCap]
  /\ sock \in [Conns -> BOOLEAN] /\ fresh \in [Conns -> BOOLEAN]
  /\ reader \in [Conns -> {"off", "read", "lookup", "update", "exit", "done"}]
  /\ copy \in [Conns -> {"absent", "online", "offline"}]
  /\ writer \in [Conns -> {"off", "run", "done"}]
  /\ hub \in {"select", "online", "offline", "timeouts", "expire", "stopped"}
  /\ hubNode \in Nodes /\ timedOut \in SUBSET Conns
  /\ events \in Seq({"node.online", "node.offline"} \X Nodes) /\ Len(events) <= EventsCap
  /\ broadcasts \in 0..MaxBroadcasts
  /\ nodes \in [Nodes -> {"absent", "online", "offline"}]
  /\ target \in [Callers -> Conns \cup {NoConn}]
  /\ panicked \in BOOLEAN

\* The send channel of a served connection is open exactly while the
\* connection is its node's registered client.  So Run never closes a channel
\* twice nor broadcasts on a closed one, and the write pump of a connection
\* that was replaced, removed or dropped as slow always comes to its end.
OpenIffRegistered ==
  \A c \in Conns :
    serve[c] = "served" => (sendOpen[c] <=> clients[NodeOf[c]] = c)

\* A connection on its way out never takes its replacement with it: when a
\* read pump of one connection finishes, another connection of the same node
\* stays registered.
StaleExitKeepsClient ==
  [][\A c, d \in Conns :
       (/\ c # d /\ NodeOf[c] = NodeOf[d] /\ clients[NodeOf[d]] = d
        /\ reader[c] = "exit" /\ reader'[c] = "done")
       => clients'[NodeOf[d]] = d]_vars

\* Between two cases of Run, a node without a connection is not online in the
\* registry (no read pump being in the middle of an update).
DisconnectedIsOffline ==
  (hub = "select" /\ \A c \in Conns : reader[c] # "update") =>
    \A n \in Nodes : clients[n] = NoConn => nodes[n] # "online"

\* Between two cases of Run, a node whose connection works is online in the
\* registry, so that the dispatcher does not turn its commands away.
ConnectedIsOnline ==
  (hub = "select" /\ \A c \in Conns : reader[c] # "update") =>
    \A n \in Nodes : (clients[n] # NoConn /\ sock[clients[n]]) => nodes[n] = "online"

\* Sending a command to a node whose connection goes away is an error, never a
\* send on a closed channel.
NoPanic == ~ panicked

\* A served connection whose websocket is gone is eventually forgotten: both
\* pumps return and it is no longer its node's client.
DeadConnectionLeaves ==
  \A c \in Conns :
    (serve[c] = "served" /\ ~ sock[c]) ~>
      (reader[c] = "done" /\ writer[c] = "done" /\ clients[NodeOf[c]] # c)

\* A registered connection that stays silent past the heartbeat timeout is
\* disconnected unless the hub is shut down.
SilentConnectionLeaves ==
  \A c \in Conns :
    (clients[NodeOf[c]] = c /\ ~ fresh[c]) ~>
      (fresh[c] \/ clients[NodeOf[c]] # c \/ ctxDone)
=============================================================================
