------------------------------ MODULE HubProofs ------------------------------
(* Theorems about Hub: types and capacities, the channel discipline of      *)
(* Hub.Run, what an exiting read pump leaves alone, and the agreement of    *)
(* the registry's status with the hub's connections.                        *)
EXTENDS Hub, TLAPS

-----------------------------------------------------------------------------
(* Types.                                                                  *)

\* The non-blocking send keeps h.events within its capacity.
LEMMA EmitType ==
  ASSUME TypeOK, NEW type \in {"node.online", "node.offline"}, NEW n \in Nodes,
         Emit(type, n)
  PROVE  /\ events' \in Seq({"node.online", "node.offline"} \X Nodes)
         /\ Len(events') <= EventsCap
<1> DEFINE S == {"node.online", "node.offline"} \X Nodes
<1>1. events \in Seq(S) /\ Len(events) <= EventsCap /\ <<type, n>> \in S
  BY DEF TypeOK
<1>2. EventsCap \in Nat
  BY HubAssumption
<1>3. events' = IF Len(events) < EventsCap THEN Append(events, <<type, n>>) ELSE events
  BY DEF Emit
<1> HIDE DEF S
<1>4. Append(events, <<type, n>>) \in Seq(S)
      /\ Len(Append(events, <<type, n>>)) = Len(events) + 1 /\ Len(events) \in Nat
  BY <1>1
<1>5. events' \in Seq(S) /\ Len(events') <= EventsCap
  BY <1>1, <1>2, <1>3, <1>4
<1> QED
  BY <1>5 DEF S

\* Closing channels and websockets keeps their types.
LEMMA CloseType ==
  ASSUME TypeOK, NEW S \in SUBSET Conns
  PROVE  /\ CloseSends(S) => sendOpen' \in [Conns -> BOOLEAN] /\ panicked' \in BOOLEAN
         /\ CloseSocks(S) => sock' \in [Conns -> BOOLEAN]
<1>1. ASSUME CloseSends(S) PROVE sendOpen' \in [Conns -> BOOLEAN]
  BY <1>1, Zenon DEF CloseSends, TypeOK
<1>2. ASSUME CloseSends(S) PROVE panicked' \in BOOLEAN
  BY <1>2, Zenon DEF CloseSends, TypeOK
<1>3. ASSUME CloseSocks(S) PROVE sock' \in [Conns -> BOOLEAN]
  BY <1>3, Zenon DEF CloseSocks, TypeOK
<1> QED
  BY <1>1, <1>2, <1>3

LEMMA RegisteredType == TypeOK => Registered \in SUBSET Conns
  BY DEF TypeOK, Registered

\* The initial state is well typed.
LEMMA InitTypeOK == Init => TypeOK
<1> SUFFICES ASSUME Init PROVE TypeOK
  OBVIOUS
<1> USE HubAssumption
<1>1. sendLen \in [Conns -> 0..SendCap] /\ broadcasts \in 0..MaxBroadcasts
  BY DEF Init
<1>2. events \in Seq({"node.online", "node.offline"} \X Nodes) /\ Len(events) <= EventsCap
  BY DEF Init
<1>3. /\ ctxDone \in BOOLEAN /\ panicked \in BOOLEAN
      /\ sendOpen \in [Conns -> BOOLEAN] /\ sock \in [Conns -> BOOLEAN]
      /\ fresh \in [Conns -> BOOLEAN]
  BY Zenon DEF Init
<1>4. /\ clients \in [Nodes -> Conns \cup {NoConn}]
      /\ target \in [Callers -> Conns \cup {NoConn}]
      /\ hubNode \in Nodes /\ timedOut \in SUBSET Conns
  BY Zenon DEF Init
<1>5. /\ serve \in [Conns -> {"new", "register", "served"}]
      /\ reader \in [Conns -> {"off", "read", "lookup", "update", "exit", "done"}]
      /\ copy \in [Conns -> {"absent", "online", "offline"}]
      /\ writer \in [Conns -> {"off", "run", "done"}]
      /\ hub \in {"select", "online", "offline", "timeouts", "expire", "stopped"}
      /\ nodes \in [Nodes -> {"absent", "online", "offline"}]
  BY Zenon DEF Init
<1> QED
  BY <1>1, <1>2, <1>3, <1>4, <1>5, Zenon DEF TypeOK

\* Every step of Run keeps the types.
LEMMA RunTypeOK == TypeOK /\ (HubHandler \/ HubSelect) => TypeOK'
<1> SUFFICES ASSUME TypeOK, HubHandler \/ HubSelect PROVE TypeOK'
  OBVIOUS
<1> USE HubAssumption
<1>1. ASSUME NEW c \in Conns, HubRegister(c) PROVE TypeOK'
  <2>1. {clients[NodeOf[c]]} \ {NoConn, c} \in SUBSET Conns /\ NodeOf[c] \in Nodes
    BY DEF TypeOK
  <2>2. sendOpen' \in [Conns -> BOOLEAN] /\ panicked' \in BOOLEAN /\ sock' \in [Conns -> BOOLEAN]
    BY <1>1, <2>1, CloseType DEF HubRegister
  <2> QED
    BY <1>1, <2>1, <2>2 DEF HubRegister, TypeOK
<1>2. CASE HubOnline
  <2>1. /\ events' \in Seq({"node.online", "node.offline"} \X Nodes)
        /\ Len(events') <= EventsCap
    BY <1>2, EmitType DEF HubOnline, TypeOK
  <2>2. nodes' \in [Nodes -> {"absent", "online", "offline"}]
    BY <1>2 DEF HubOnline, RegisterNode, TypeOK
  <2> QED
    BY <1>2, <2>1, <2>2, Zenon DEF HubOnline, TypeOK, connVars, pumpVars
<1>3. ASSUME NEW c \in Conns, HubUnregister(c) PROVE TypeOK'
  <2> DEFINE gone == IF clients[NodeOf[c]] = c THEN {c} ELSE {}
  <2>1. gone \in SUBSET Conns /\ {c} \in SUBSET Conns /\ NodeOf[c] \in Nodes
    OBVIOUS
  <2>2. sendOpen' \in [Conns -> BOOLEAN] /\ panicked' \in BOOLEAN /\ sock' \in [Conns -> BOOLEAN]
    BY <1>3, <2>1, CloseType DEF HubUnregister
  <2> HIDE DEF gone
  <2> QED
    BY <1>3, <2>1, <2>2 DEF HubUnregister, TypeOK
<1>4. CASE HubBroadcast
  <2> DEFINE slow == {c \in Registered : sendLen[c] = SendCap}
  <2>1. slow \in SUBSET Conns
    BY RegisteredType
  <2>2. sendOpen' \in [Conns -> BOOLEAN] /\ panicked' \in BOOLEAN
    BY <1>4, <2>1, CloseType DEF HubBroadcast
  <2>3. sendLen' \in [Conns -> 0..SendCap]
    BY <1>4 DEF HubBroadcast, TypeOK
  <2>4. clients' \in [Nodes -> Conns \cup {NoConn}]
    BY <1>4 DEF HubBroadcast, TypeOK
  <2> QED
    BY <1>4, <2>2, <2>3, <2>4 DEF HubBroadcast, TypeOK, pumpVars
<1>5. CASE HubCheckHeartbeats
  BY <1>5, RegisteredType DEF HubCheckHeartbeats, TypeOK, connVars, pumpVars
<1>6. CASE HubStop
  <2>1. sendOpen' \in [Conns -> BOOLEAN] /\ panicked' \in BOOLEAN /\ sock' \in [Conns -> BOOLEAN]
    BY <1>6, RegisteredType, CloseType DEF HubStop
  <2> QED
    BY <1>6, <2>1 DEF HubStop, TypeOK, pumpVars
<1>7. CASE HubOffline
  BY <1>7 DEF HubOffline, MarkOffline, TypeOK, connVars, pumpVars
<1>8. ASSUME NEW c \in Conns, HubExpire(c) PROVE TypeOK'
  BY <1>8 DEF HubExpire, MarkOffline, TypeOK, connVars, pumpVars
<1>9. CASE HubExpireClose
  <2> DEFINE expired == {c \in timedOut : NodeOf[c] = hubNode}
  <2>1. expired \in SUBSET Conns
    BY DEF TypeOK
  <2>2. sock' \in [Conns -> BOOLEAN]
    BY <1>9, <2>1, CloseType DEF HubExpireClose
  <2>3. /\ events' \in Seq({"node.online", "node.offline"} \X Nodes)
        /\ Len(events') <= EventsCap
    BY <1>9, EmitType DEF HubExpireClose, TypeOK
  <2> QED
    BY <1>9, <2>1, <2>2, <2>3 DEF HubExpireClose, TypeOK, pumpVars
<1> QED
  BY <1>1, <1>2, <1>3, <1>4, <1>5, <1>6, <1>7, <1>8, <1>9 DEF HubHandler, HubSelect

\* Every step of a connection keeps the types.
LEMMA ConnTypeOK ==
  ASSUME TypeOK, NEW c \in Conns, Environment(c) \/ ReadPump(c) \/ WritePump(c)
  PROVE  TypeOK'
<1> USE HubAssumption
<1>0. {c} \in SUBSET Conns
  OBVIOUS
<1>1. CASE ServeWS(c)
  BY <1>1 DEF ServeWS, TypeOK, connVars, hubVars
<1>2. CASE PeerDrop(c)
  BY <1>2, <1>0, CloseType DEF PeerDrop, TypeOK, pumpVars, hubVars
<1>3. CASE Silence(c)
  BY <1>3 DEF Silence, TypeOK, connVars, hubVars
<1>4. ASSUME NEW kind \in Envelopes, ReadEnvelope(c, kind) PROVE TypeOK'
  BY <1>4 DEF ReadEnvelope, TypeOK, connVars, hubVars
<1>5. CASE LookupNode(c)
  BY <1>5 DEF LookupNode, TypeOK, connVars, hubVars
<1>6. CASE UpdateNode(c)
  BY <1>6 DEF UpdateNode, TypeOK, connVars, hubVars
<1>7. CASE ReadFails(c)
  BY <1>7 DEF ReadFails, TypeOK, connVars, hubVars
<1>8. CASE ReaderGivesUp(c)
  BY <1>8, <1>0, CloseType DEF ReaderGivesUp, TypeOK, hubVars
<1>9. CASE WriteMessage(c)
  BY <1>9 DEF WriteMessage, TypeOK, pumpVars, hubVars
<1>10. CASE WriterReturns(c)
  BY <1>10, <1>0, CloseType DEF WriterReturns, TypeOK, hubVars
<1> QED
  BY <1>1, <1>2, <1>3, <1>4, <1>5, <1>6, <1>7, <1>8, <1>9, <1>10
  DEF Environment, ReadPump, WritePump

\* Every step of a command sender, and shutdown, keeps the types.
LEMMA SendTypeOK ==
  ASSUME TypeOK,
         \/ Cancel
         \/ \E k \in Callers : SendEnqueue(k) \/ \E n \in Nodes : SendLookup(k, n)
  PROVE  TypeOK'
<1> USE HubAssumption
<1>1. CASE Cancel
  BY <1>1 DEF Cancel, TypeOK, connVars, pumpVars
<1>2. ASSUME NEW k \in Callers, SendEnqueue(k) PROVE TypeOK'
  <2>1. target[k] \in Conns /\ sendOpen[target[k]] \in BOOLEAN
    BY <1>2 DEF SendEnqueue, TypeOK
  <2>2. panicked' \in BOOLEAN
    BY <1>2, Zenon DEF SendEnqueue
  <2>3. sendLen' \in [Conns -> 0..SendCap]
    BY <1>2, <2>1 DEF SendEnqueue, TypeOK
  <2> QED
    BY <1>2, <2>2, <2>3 DEF SendEnqueue, TypeOK, pumpVars, hubVars
<1>3. ASSUME NEW k \in Callers, NEW n \in Nodes, SendLookup(k, n) PROVE TypeOK'
  BY <1>3 DEF SendLookup, TypeOK, connVars, pumpVars, hubVars
<1> QED
  BY <1>1, <1>2, <1>3

\* TypeOK is inductive.
LEMMA NextTypeOK == TypeOK /\ [Next]_vars => TypeOK'
<1> SUFFICES ASSUME TypeOK, [Next]_vars PROVE TypeOK'
  OBVIOUS
<1>1. CASE UNCHANGED vars
  BY <1>1 DEF TypeOK, vars, connVars, pumpVars, hubVars
<1>2. CASE Next
  BY <1>2, RunTypeOK, ConnTypeOK, SendTypeOK DEF Next
<1> QED
  BY <1>1, <1>2

\* Every reachable state of the hub is well typed; the send channels and the
\* event channel stay within their capacities.
THEOREM HubTypeCorrect == Spec => []TypeOK
  BY InitTypeOK, NextTypeOK, PTL DEF Spec

-----------------------------------------------------------------------------
(* The channel discipline of Run.                                          *)

\* OpenIffRegistered is not inductive: register closes the channel of the
\* connection it replaces and leaves the new one's alone, so a connection that
\* is not served yet must have an open channel and be nobody's client, and a
\* client must be registered under its own node.
ChannelInv ==
  /\ \A n \in Nodes : clients[n] # NoConn => NodeOf[clients[n]] = n
  /\ \A c \in Conns : clients[NodeOf[c]] = c => serve[c] = "served"
  /\ \A c \in Conns : serve[c] # "served" => sendOpen[c]
  /\ OpenIffRegistered

\* Under ChannelInv the channels of the registered connections are open.
LEMMA ClientsAreOpen ==
  ASSUME TypeOK, ChannelInv, NEW n \in Nodes, clients[n] # NoConn
  PROVE  clients[n] \in Conns /\ NodeOf[clients[n]] = n /\ sendOpen[clients[n]] = TRUE
<1>1. clients[n] \in Conns /\ NodeOf[clients[n]] = n
  BY DEF TypeOK, ChannelInv
<1>2. serve[clients[n]] = "served"
  BY <1>1 DEF ChannelInv
<1>3. sendOpen[clients[n]] \in BOOLEAN /\ sendOpen[clients[n]]
  BY <1>1, <1>2 DEF ChannelInv, OpenIffRegistered, TypeOK
<1> QED
  BY <1>1, <1>3

\* A step that changes neither clients nor channels nor who is served.
LEMMA ChannelsUntouched ==
  ASSUME ChannelInv, UNCHANGED <<clients, sendOpen, serve>>
  PROVE  ChannelInv'
  BY DEF ChannelInv, OpenIffRegistered

\* A step that removes exactly the clients whose channels it closes keeps the
\* discipline, and closes no channel twice.
LEMMA RemoveClients ==
  ASSUME TypeOK, ChannelInv, NEW S \in SUBSET Registered, CloseSends(S),
         clients' = [n \in Nodes |-> IF clients[n] \in S THEN NoConn ELSE clients[n]],
         UNCHANGED serve
  PROVE  ChannelInv' /\ panicked' = panicked
<1> USE HubAssumption
<1>0. S \in SUBSET Conns
  BY RegisteredType
<1>1. ASSUME NEW c \in S PROVE sendOpen[c] = TRUE
  <2>1. PICK n \in Nodes : clients[n] = c /\ c # NoConn
    BY DEF Registered
  <2> QED
    BY <2>1, ClientsAreOpen
<1>2. panicked' = panicked
  <2>1. ~ \E c \in S : ~ sendOpen[c]
    BY <1>1
  <2>2. panicked' = (panicked \/ \E c \in S : ~ sendOpen[c]) /\ panicked \in BOOLEAN
    BY DEF CloseSends, TypeOK
  <2> QED
    BY <2>1, <2>2, Zenon
<1>3. \A c \in Conns : sendOpen'[c] = (sendOpen[c] /\ c \notin S)
  BY DEF CloseSends
<1>4. \A n \in Nodes : clients'[n] = IF clients[n] \in S THEN NoConn ELSE clients[n]
  OBVIOUS
<1>5. ChannelInv'
  <2>1. \A c \in Conns : sendOpen[c] \in BOOLEAN /\ NodeOf[c] \in Nodes
    BY DEF TypeOK
  <2>2. \A c \in S : clients[NodeOf[c]] = c
    BY DEF Registered, ChannelInv
  <2>3. \A c \in Conns : serve'[c] = serve[c]
    OBVIOUS
  <2>4. ASSUME NEW n \in Nodes PROVE clients'[n] # NoConn => NodeOf[clients'[n]] = n
    BY <1>4 DEF ChannelInv
  <2>5. ASSUME NEW c \in Conns
        PROVE  /\ clients'[NodeOf[c]] = c => serve'[c] = "served"
               /\ serve'[c] # "served" => sendOpen'[c]
    BY <1>0, <1>3, <1>4, <2>1, <2>2, <2>3 DEF ChannelInv
  <2>6. ASSUME NEW c \in Conns
        PROVE  serve'[c] = "served" => (sendOpen'[c] <=> clients'[NodeOf[c]] = c)
    BY <1>0, <1>3, <1>4, <2>1, <2>2, <2>3 DEF ChannelInv, OpenIffRegistered
  <2> QED
    BY <2>4, <2>5, <2>6 DEF ChannelInv, OpenIffRegistered
<1> QED
  BY <1>2, <1>5

\* A step of Run keeps the discipline and closes no channel twice.
LEMMA RunChannels ==
  ASSUME TypeOK, ChannelInv, HubHandler \/ HubSelect
  PROVE  ChannelInv' /\ panicked' = panicked
<1> USE HubAssumption
<1>1. ASSUME NEW c \in Conns, HubRegister(c) PROVE ChannelInv' /\ panicked' = panicked
  <2> DEFINE n == NodeOf[c]
             existing == {clients[n]} \ {NoConn, c}
  <2>1. n \in Nodes /\ existing \in SUBSET Conns /\ serve[c] = "register" /\ CloseSends(existing)
    BY <1>1 DEF HubRegister, TypeOK
  <2>2. \A d \in existing : sendOpen[d] = TRUE
    BY <2>1, ClientsAreOpen
  <2>3. panicked' = panicked
    BY <2>1, <2>2 DEF CloseSends, TypeOK
  <2>4. \A d \in Conns : sendOpen'[d] = (sendOpen[d] /\ d \notin existing)
    BY <2>1 DEF CloseSends
  <2>5. \A m \in Nodes : clients'[m] = IF m = n THEN c ELSE clients[m]
    BY <1>1 DEF HubRegister, TypeOK
  <2>6. \A d \in Conns : serve'[d] = IF d = c THEN "served" ELSE serve[d]
    BY <1>1 DEF HubRegister, TypeOK
  <2>7. \A d \in Conns : sendOpen[d] \in BOOLEAN /\ NodeOf[d] \in Nodes
    BY DEF TypeOK
  <2>8. sendOpen[c] = TRUE /\ clients[n] # c
    BY <2>1, <2>7 DEF ChannelInv
  <2>9. ASSUME NEW d \in Conns PROVE serve'[d] = "served" => (sendOpen'[d] <=> clients'[NodeOf[d]] = d)
    <3>1. CASE d = c
      BY <3>1, <2>1, <2>4, <2>5, <2>8
    <3>2. CASE d # c /\ NodeOf[d] = n
      BY <3>2, <2>1, <2>4, <2>5, <2>6, <2>7 DEF ChannelInv, OpenIffRegistered
    <3>3. CASE NodeOf[d] # n
      <4>1. d \notin existing
        BY <3>3, <2>1 DEF ChannelInv
      <4> QED
        BY <3>3, <4>1, <2>4, <2>5, <2>6, <2>7 DEF ChannelInv, OpenIffRegistered
    <3> QED
      BY <3>1, <3>2, <3>3
  <2>10. ASSUME NEW d \in Conns PROVE serve'[d] # "served" => sendOpen'[d]
    BY <2>1, <2>4, <2>6, <2>7 DEF ChannelInv
  <2>11. ASSUME NEW d \in Conns PROVE clients'[NodeOf[d]] = d => serve'[d] = "served"
    BY <2>5, <2>6, <2>7 DEF ChannelInv
  <2>12. ASSUME NEW m \in Nodes PROVE clients'[m] # NoConn => NodeOf[clients'[m]] = m
    BY <2>5 DEF ChannelInv
  <2> QED
    BY <2>3, <2>9, <2>10, <2>11, <2>12 DEF ChannelInv, OpenIffRegistered
<1>2. CASE HubOnline \/ HubOffline \/ HubExpireClose \/ HubCheckHeartbeats
  BY <1>2, ChannelsUntouched
  DEF HubOnline, HubOffline, HubExpireClose, HubCheckHeartbeats, connVars, pumpVars
<1>3. ASSUME NEW c \in Conns, HubExpire(c) PROVE ChannelInv' /\ panicked' = panicked
  BY <1>3, ChannelsUntouched DEF HubExpire, connVars, pumpVars
<1>4. ASSUME NEW c \in Conns, HubUnregister(c) PROVE ChannelInv' /\ panicked' = panicked
  <2>1. CASE clients[NodeOf[c]] = c
    <3>1. {c} \in SUBSET Registered
      BY <2>1 DEF Registered
    <3>2. CloseSends({c}) /\ UNCHANGED serve
      BY <1>4, <2>1 DEF HubUnregister
    <3>3. clients' = [clients EXCEPT ![NodeOf[c]] = NoConn]
      BY <1>4, <2>1 DEF HubUnregister
    <3>4. clients' = [n \in Nodes |-> IF clients[n] \in {c} THEN NoConn ELSE clients[n]]
      BY <2>1, <3>3 DEF TypeOK, ChannelInv
    <3> QED
      BY <3>1, <3>2, <3>4, RemoveClients
  <2>2. CASE clients[NodeOf[c]] # c
    <3>1. CloseSends({}) /\ UNCHANGED <<serve, clients>>
      BY <1>4, <2>2 DEF HubUnregister
    <3>2. sendOpen' = sendOpen /\ panicked' = panicked
      BY <3>1 DEF CloseSends, TypeOK
    <3> QED
      BY <3>1, <3>2, ChannelsUntouched
  <2> QED
    BY <2>1, <2>2
<1>5. CASE HubBroadcast
  <2> DEFINE slow == {c \in Registered : sendLen[c] = SendCap}
  <2>1. slow \in SUBSET Registered
    OBVIOUS
  <2>2. /\ CloseSends(slow) /\ UNCHANGED serve
        /\ clients' = [n \in Nodes |-> IF clients[n] \in slow THEN NoConn ELSE clients[n]]
    BY <1>5 DEF HubBroadcast, pumpVars
  <2> HIDE DEF slow
  <2> QED
    BY <2>1, <2>2, RemoveClients
<1>6. CASE HubStop
  <2>1. CloseSends(Registered) /\ UNCHANGED serve /\ clients' = [n \in Nodes |-> NoConn]
    BY <1>6 DEF HubStop, pumpVars
  <2>2. clients' = [n \in Nodes |-> IF clients[n] \in Registered THEN NoConn ELSE clients[n]]
    BY <2>1 DEF Registered
  <2> QED
    BY <2>1, <2>2, RemoveClients
<1> QED
  BY <1>1, <1>2, <1>3, <1>4, <1>5, <1>6 DEF HubHandler, HubSelect

\* No step of a connection touches clients or channels.
LEMMA ConnChannels ==
  ASSUME TypeOK, ChannelInv, NEW c \in Conns, Environment(c) \/ ReadPump(c) \/ WritePump(c)
  PROVE  ChannelInv' /\ panicked' = panicked
<1>1. CASE ServeWS(c)
  <2>1. serve[c] = "new" /\ UNCHANGED <<clients, sendOpen, panicked>>
        /\ \A d \in Conns : serve'[d] = IF d = c THEN "register" ELSE serve[d]
    BY <1>1 DEF ServeWS, connVars, TypeOK
  <2> QED
    BY <2>1 DEF ChannelInv, OpenIffRegistered
<1>2. CASE PeerDrop(c) \/ Silence(c) \/ \E kind \in Envelopes : ReadEnvelope(c, kind)
  BY <1>2, ChannelsUntouched DEF PeerDrop, Silence, ReadEnvelope, connVars, pumpVars
<1>3. CASE ReadPump(c) \/ WritePump(c)
  BY <1>3, ChannelsUntouched
  DEF ReadPump, WritePump, LookupNode, UpdateNode, ReadFails, ReaderGivesUp,
      WriteMessage, WriterReturns, connVars, pumpVars
<1> QED
  BY <1>1, <1>2, <1>3 DEF Environment

\* ChannelInv is inductive.
LEMMA NextChannelInv == TypeOK /\ ChannelInv /\ [Next]_vars => ChannelInv'
<1> SUFFICES ASSUME TypeOK, ChannelInv, [Next]_vars PROVE ChannelInv'
  OBVIOUS
<1>1. CASE UNCHANGED vars
  BY <1>1, ChannelsUntouched DEF vars, connVars, pumpVars
<1>2. CASE Cancel \/ \E k \in Callers : SendEnqueue(k) \/ \E n \in Nodes : SendLookup(k, n)
  BY <1>2, ChannelsUntouched DEF Cancel, SendEnqueue, SendLookup, connVars, pumpVars
<1>3. CASE HubHandler \/ HubSelect
  BY <1>3, RunChannels
<1>4. ASSUME NEW c \in Conns, Environment(c) \/ ReadPump(c) \/ WritePump(c) PROVE ChannelInv'
  BY <1>4, ConnChannels
<1> QED
  BY <1>1, <1>2, <1>3, <1>4 DEF Next

LEMMA InitChannelInv == Init => ChannelInv
  BY HubAssumption DEF Init, ChannelInv, OpenIffRegistered

LEMMA AlwaysChannelInv == Spec => []ChannelInv
  BY InitChannelInv, NextChannelInv, HubTypeCorrect, PTL DEF Spec

\* For any nodes, connections and capacities, the send channel of a served
\* connection is open exactly while it is its node's registered client,
\* through replacement, unregistration, slow-client removal and shutdown.
THEOREM OpenExactlyWhileRegistered == Spec => []OpenIffRegistered
<1>1. ChannelInv => OpenIffRegistered
  BY DEF ChannelInv
<1> QED
  BY <1>1, AlwaysChannelInv, PTL

\* Run itself never closes a channel twice: without goroutines that send
\* commands (hubCommandTransport.Send) the hub never panics.  The panic that
\* HubSendRace shows is therefore Send's alone.
THEOREM RunNeverPanics == ASSUME Callers = {} PROVE Spec => []NoPanic
<1>1. Init => NoPanic
  BY DEF Init, NoPanic
<1>2. TypeOK /\ ChannelInv /\ NoPanic /\ [Next]_vars => NoPanic'
  <2> SUFFICES ASSUME TypeOK, ChannelInv, NoPanic, [Next]_vars PROVE NoPanic'
    OBVIOUS
  <2>1. panicked' = panicked
    BY RunChannels, ConnChannels DEF Next, Cancel, vars
  <2> QED
    BY <2>1 DEF NoPanic
<1> QED
  BY <1>1, <1>2, HubTypeCorrect, AlwaysChannelInv, PTL DEF Spec

-----------------------------------------------------------------------------
(* Exits.                                                                  *)

\* Only unregister and the give-up at shutdown end a read pump, and neither
\* touches another connection of the node.
LEMMA StaleExitStep ==
  ASSUME TypeOK, [Next]_vars, NEW c \in Conns, NEW d \in Conns, c # d,
         NodeOf[c] = NodeOf[d], clients[NodeOf[d]] = d,
         reader[c] = "exit", reader'[c] = "done"
  PROVE  clients'[NodeOf[d]] = d
<1> USE HubAssumption
<1>1. CASE UNCHANGED reader
  BY <1>1
<1>2. ASSUME NEW e \in Conns, HubRegister(e) PROVE clients'[NodeOf[d]] = d
  BY <1>2 DEF HubRegister, TypeOK
<1>3. ASSUME NEW e \in Conns, HubUnregister(e) PROVE clients'[NodeOf[d]] = d
  <2>1. e = c
    BY <1>3 DEF HubUnregister, TypeOK
  <2> QED
    BY <1>3, <2>1 DEF HubUnregister
<1>4. CASE HubHandler \/ HubBroadcast \/ HubCheckHeartbeats \/ HubStop \/ Cancel
  BY <1>4, <1>1 DEF HubHandler, HubOnline, HubOffline, HubExpire, HubExpireClose,
     HubBroadcast, HubCheckHeartbeats, HubStop, Cancel, pumpVars
<1>5. ASSUME NEW e \in Conns, Environment(e) \/ ReadPump(e) \/ WritePump(e)
      PROVE  clients'[NodeOf[d]] = d
  <2>1. UNCHANGED clients
    BY <1>5 DEF Environment, ServeWS, PeerDrop, Silence, ReadEnvelope, ReadPump, WritePump,
       LookupNode, UpdateNode, ReadFails, ReaderGivesUp, WriteMessage, WriterReturns, connVars
  <2> QED
    BY <2>1
<1>6. CASE \E k \in Callers : SendEnqueue(k) \/ \E n \in Nodes : SendLookup(k, n)
  BY <1>6, <1>1 DEF SendEnqueue, SendLookup, pumpVars
<1>7. CASE UNCHANGED vars
  BY <1>7, <1>1 DEF vars, pumpVars
<1> QED
  BY <1>2, <1>3, <1>4, <1>5, <1>6, <1>7 DEF Next, HubSelect

\* A connection on its way out never unregisters the one that replaced it.
THEOREM ExitLeavesReplacement == Spec => StaleExitKeepsClient
<1>1. TypeOK /\ [Next]_vars =>
        [\A c, d \in Conns :
           (/\ c # d /\ NodeOf[c] = NodeOf[d] /\ clients[NodeOf[d]] = d
            /\ reader[c] = "exit" /\ reader'[c] = "done")
           => clients'[NodeOf[d]] = d]_vars
  BY StaleExitStep
<1> QED
  BY <1>1, HubTypeCorrect, PTL DEF Spec, StaleExitKeepsClient

-----------------------------------------------------------------------------
(* Status and connections.                                                 *)

\* Agents send only envelopes that leave the registry alone, and its upserts
\* do not fail.  UpdateNode writes back a status it read earlier and a failed
\* upsert leaves the old one: neither agreement below survives them.
OnlyHubSetsStatus == "auth_state" \notin Envelopes /\ DBMayFail = FALSE

\* No read pump is on its way to the registry.
NoUpdates == \A c \in Conns : reader[c] \notin {"lookup", "update"}

\* DisconnectedIsOffline speaks of Run between two cases; inside a case a node
\* may be without a connection and online only if Run is about to mark it, and
\* Run marks a node online only while it has a connection.
OfflineInv ==
  /\ NoUpdates
  /\ hub = "online" => clients[hubNode] # NoConn
  /\ hub # "stopped" =>
       \A n \in Nodes :
         (clients[n] = NoConn /\ ~ (hub = "offline" /\ hubNode = n)) => nodes[n] # "online"

\* ConnectedIsOnline inside a case: a node is marked offline only when it has
\* no connection, or has one that checkHeartbeats goes on to close.
OnlineInv ==
  /\ NoUpdates
  /\ hub = "offline" => clients[hubNode] = NoConn
  /\ hub \in {"timeouts", "expire"} => \A c \in timedOut : clients[NodeOf[c]] = c
  /\ hub = "expire" => clients[hubNode] \in timedOut
  /\ \A n \in Nodes :
       (/\ clients[n] # NoConn /\ sock[clients[n]]
        /\ ~ (hub \in {"online", "expire"} /\ hubNode = n)) => nodes[n] = "online"

\* Without auth_state envelopes no read pump goes to the registry.
LEMMA NextNoUpdates ==
  ASSUME OnlyHubSetsStatus, TypeOK, NoUpdates, [Next]_vars
  PROVE  NoUpdates'
<1> USE DEF NoUpdates
<1>1. ASSUME NEW c \in Conns, HubRegister(c) \/ HubUnregister(c) PROVE NoUpdates'
  BY <1>1 DEF HubRegister, HubUnregister, TypeOK
<1>2. CASE HubHandler \/ HubBroadcast \/ HubCheckHeartbeats \/ HubStop \/ Cancel
  BY <1>2 DEF HubHandler, HubOnline, HubOffline, HubExpire, HubExpireClose,
     HubBroadcast, HubCheckHeartbeats, HubStop, Cancel, pumpVars
<1>3. ASSUME NEW c \in Conns, ReadPump(c) \/ WritePump(c) PROVE NoUpdates'
  BY <1>3 DEF ReadPump, WritePump, LookupNode, UpdateNode, ReadFails, ReaderGivesUp,
     WriteMessage, WriterReturns, pumpVars, TypeOK
<1>4. ASSUME NEW c \in Conns, Environment(c) PROVE NoUpdates'
  BY <1>4 DEF Environment, ServeWS, PeerDrop, Silence, ReadEnvelope, pumpVars, TypeOK,
     OnlyHubSetsStatus
<1>5. CASE \E k \in Callers : SendEnqueue(k) \/ \E n \in Nodes : SendLookup(k, n)
  BY <1>5 DEF SendEnqueue, SendLookup, pumpVars
<1>6. CASE UNCHANGED vars
  BY <1>6 DEF vars, pumpVars
<1> QED
  BY <1>1, <1>2, <1>3, <1>4, <1>5, <1>6 DEF Next, HubSelect

\* A step outside Run leaves Run, the registry and the clients alone, and can
\* only close websockets.
LEMMA OutsideRun ==
  ASSUME TypeOK, NoUpdates,
         \/ UNCHANGED vars
         \/ Cancel
         \/ \E c \in Conns : Environment(c) \/ ReadPump(c) \/ WritePump(c)
         \/ \E k \in Callers : SendEnqueue(k) \/ \E n \in Nodes : SendLookup(k, n)
  PROVE  /\ UNCHANGED <<hub, hubNode, timedOut, clients, nodes>>
         /\ \A c \in Conns : sock'[c] => sock[c]
<1>1. CASE UNCHANGED vars \/ Cancel
  BY <1>1 DEF vars, Cancel, connVars, hubVars
<1>2. ASSUME NEW c \in Conns, Environment(c)
      PROVE  /\ UNCHANGED <<hub, hubNode, timedOut, clients, nodes>>
             /\ \A d \in Conns : sock'[d] => sock[d]
  BY <1>2 DEF Environment, ServeWS, PeerDrop, Silence, ReadEnvelope, CloseSocks,
     connVars, hubVars
<1>3. ASSUME NEW c \in Conns, ReadPump(c) \/ WritePump(c)
      PROVE  /\ UNCHANGED <<hub, hubNode, timedOut, clients, nodes>>
             /\ \A d \in Conns : sock'[d] => sock[d]
  BY <1>3 DEF ReadPump, WritePump, LookupNode, UpdateNode, ReadFails, ReaderGivesUp,
     WriteMessage, WriterReturns, CloseSocks, connVars, hubVars, NoUpdates
<1>4. CASE \E k \in Callers : SendEnqueue(k) \/ \E n \in Nodes : SendLookup(k, n)
  BY <1>4 DEF SendEnqueue, SendLookup, connVars, hubVars
<1> QED
  BY <1>1, <1>2, <1>3, <1>4

LEMMA NextOfflineInv ==
  ASSUME OnlyHubSetsStatus, MaxBroadcasts = 0, TypeOK, OfflineInv, [Next]_vars
  PROVE  OfflineInv'
<1> USE HubAssumption
<1>0. NoUpdates'
  BY NextNoUpdates DEF OfflineInv
<1>1. ASSUME NEW c \in Conns, HubRegister(c) PROVE OfflineInv'
  BY <1>0, <1>1 DEF HubRegister, OfflineInv, TypeOK
<1>2. ASSUME NEW c \in Conns, HubUnregister(c) PROVE OfflineInv'
  BY <1>0, <1>2 DEF HubUnregister, OfflineInv, TypeOK
<1>3. CASE HubOnline
  BY <1>0, <1>3 DEF HubOnline, RegisterNode, OnlyHubSetsStatus, OfflineInv, TypeOK, connVars
<1>4. CASE HubOffline
  BY <1>0, <1>4 DEF HubOffline, MarkOffline, OnlyHubSetsStatus, OfflineInv, TypeOK, connVars
<1>5. ASSUME NEW c \in Conns, HubExpire(c) PROVE OfflineInv'
  BY <1>0, <1>5 DEF HubExpire, MarkOffline, OnlyHubSetsStatus, OfflineInv, TypeOK, connVars
<1>6. CASE HubExpireClose
  BY <1>0, <1>6 DEF HubExpireClose, OfflineInv, TypeOK
<1>7. CASE HubCheckHeartbeats
  BY <1>0, <1>7 DEF HubCheckHeartbeats, OfflineInv, TypeOK, connVars
<1>8. CASE HubStop
  BY <1>0, <1>8 DEF HubStop, OfflineInv
<1>9. ~ HubBroadcast
  BY DEF HubBroadcast, TypeOK
<1>10. CASE ~ (HubHandler \/ HubSelect)
  <2>1. UNCHANGED <<hub, hubNode, timedOut, clients, nodes>>
    BY <1>10, OutsideRun DEF Next, OfflineInv
  <2> QED
    BY <1>0, <2>1 DEF OfflineInv
<1> QED
  BY <1>1, <1>2, <1>3, <1>4, <1>5, <1>6, <1>7, <1>8, <1>9, <1>10 DEF HubHandler, HubSelect

LEMMA NextOnlineInv ==
  ASSUME OnlyHubSetsStatus, TypeOK, ChannelInv, OnlineInv, [Next]_vars
  PROVE  OnlineInv'
<1> USE HubAssumption
<1>0. NoUpdates'
  BY NextNoUpdates DEF OnlineInv
<1>1. ASSUME NEW c \in Conns, HubRegister(c) PROVE OnlineInv'
  BY <1>0, <1>1 DEF HubRegister, CloseSocks, OnlineInv, TypeOK
<1>2. ASSUME NEW c \in Conns, HubUnregister(c) PROVE OnlineInv'
  BY <1>0, <1>2 DEF HubUnregister, CloseSocks, OnlineInv, TypeOK
<1>3. CASE HubOnline
  <2>1. \A n \in Nodes : nodes'[n] = IF n = hubNode THEN "online" ELSE nodes[n]
    BY <1>3 DEF HubOnline, RegisterNode, OnlyHubSetsStatus, TypeOK
  <2>2. hub = "online" /\ hub' = "select" /\ UNCHANGED <<clients, sock, hubNode, timedOut>>
    BY <1>3 DEF HubOnline, connVars
  <2> QED
    BY <1>0, <2>1, <2>2 DEF OnlineInv
<1>4. CASE HubOffline
  BY <1>0, <1>4 DEF HubOffline, MarkOffline, OnlyHubSetsStatus, OnlineInv, TypeOK, connVars
<1>5. ASSUME NEW c \in Conns, HubExpire(c) PROVE OnlineInv'
  BY <1>0, <1>5 DEF HubExpire, MarkOffline, OnlyHubSetsStatus, OnlineInv, TypeOK, connVars
<1>6. CASE HubExpireClose
  <2>1. clients[hubNode] \in timedOut /\ clients[hubNode] # NoConn
    BY <1>6 DEF HubExpireClose, OnlineInv, TypeOK
  <2>2. NodeOf[clients[hubNode]] = hubNode
    BY <2>1 DEF ChannelInv, TypeOK
  <2>3. \A c \in Conns : sock'[c] = (sock[c] /\ ~ (c \in timedOut /\ NodeOf[c] = hubNode))
    BY <1>6 DEF HubExpireClose, CloseSocks
  <2>4. \A n \in Nodes : clients[n] # NoConn => clients[n] \in Conns
    BY DEF TypeOK
  <2>5. /\ UNCHANGED <<clients, nodes, hubNode>> /\ timedOut' \subseteq timedOut
        /\ hub = "expire" /\ hub' \in {"select", "timeouts"}
    BY <1>6 DEF HubExpireClose
  <2> QED
    BY <1>0, <2>1, <2>2, <2>3, <2>4, <2>5 DEF OnlineInv
<1>7. CASE HubCheckHeartbeats
  <2>1. \A c \in timedOut' : clients[NodeOf[c]] = c
    BY <1>7 DEF HubCheckHeartbeats, Registered, ChannelInv
  <2> QED
    BY <1>0, <1>7, <2>1 DEF HubCheckHeartbeats, OnlineInv, TypeOK, connVars
<1>8. CASE HubStop
  BY <1>0, <1>8 DEF HubStop, OnlineInv
<1>9. CASE HubBroadcast
  BY <1>0, <1>9 DEF HubBroadcast, OnlineInv
<1>10. CASE ~ (HubHandler \/ HubSelect)
  <2>1. /\ UNCHANGED <<hub, hubNode, timedOut, clients, nodes>>
        /\ \A c \in Conns : sock'[c] => sock[c]
    BY <1>10, OutsideRun DEF Next, OnlineInv
  <2>2. \A n \in Nodes : clients[n] # NoConn => clients[n] \in Conns
    BY DEF TypeOK
  <2> QED
    BY <1>0, <2>1, <2>2 DEF OnlineInv
<1> QED
  BY <1>1, <1>2, <1>3, <1>4, <1>5, <1>6, <1>7, <1>8, <1>9, <1>10 DEF HubHandler, HubSelect

\* Where only the hub sets a node's status and nothing is broadcast (a client
\* dropped by a broadcast is never reported offline), a node without a
\* connection is not online between two cases of Run: every removal is
\* followed by registerNodeOffline before the next case.
THEOREM DisconnectedNodesOffline ==
  ASSUME OnlyHubSetsStatus, MaxBroadcasts = 0
  PROVE  Spec => []DisconnectedIsOffline
<1>1. Init => OfflineInv
  BY DEF Init, OfflineInv, NoUpdates
<1>2. OfflineInv => DisconnectedIsOffline
  BY DEF OfflineInv, DisconnectedIsOffline
<1>3. TypeOK /\ OfflineInv /\ [Next]_vars => OfflineInv'
  BY NextOfflineInv
<1> QED
  BY <1>1, <1>2, <1>3, HubTypeCorrect, PTL DEF Spec

\* Where only the hub sets a node's status, a node whose connection works is
\* online between two cases of Run, through replacement, late unregistration
\* of the replaced connection, heartbeat timeouts and broadcasts.
THEOREM ConnectedNodesOnline ==
  ASSUME OnlyHubSetsStatus
  PROVE  Spec => []ConnectedIsOnline
<1>1. Init => OnlineInv
  BY HubAssumption DEF Init, OnlineInv, NoUpdates
<1>2. OnlineInv => ConnectedIsOnline
  BY DEF OnlineInv, ConnectedIsOnline
<1>3. TypeOK /\ ChannelInv /\ OnlineInv /\ [Next]_vars => OnlineInv'
  BY NextOnlineInv
<1> QED
  BY <1>1, <1>2, <1>3, HubTypeCorrect, AlwaysChannelInv, PTL DEF Spec
=============================================================================
