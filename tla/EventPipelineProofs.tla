------------------------- MODULE EventPipelineProofs -------------------------
(***************************************************************************)
(* Proofs about EventPipeline, for any set of agents and goroutines and    *)
(* any capacities.                                                         *)
(***************************************************************************)
EXTENDS EventPipeline, WellFoundedInduction, TLAPS

\* FirstMissing is well defined: it is the least number after s that is not
\* buffered, and no buffered number exceeds MaxSeq.
LEMMA FirstMissingIsFirst ==
  ASSUME NEW P \in SUBSET Event, NEW s \in 0..MaxSeq
  PROVE  /\ FirstMissing(P, s) \in (s + 1)..(MaxSeq + 1)
         /\ FirstMissing(P, s) \notin Seqs(P)
         /\ \A j \in (s + 1)..(FirstMissing(P, s) - 1) : j \in Seqs(P)
<1> DEFINE T == {k \in (s + 1)..(MaxSeq + 1) : k \notin Seqs(P)}
           R == OpToRel(<, Nat)
<1> USE PipelineAssumption
<1>1. MaxSeq + 1 \in T
  BY DEF Seqs, Event
<1>2. T \subseteq Nat
  OBVIOUS
<1>3. PICK k \in T : \A y \in T : ~ (<<y, k>> \in R)
  <2>1. T # {}
    BY <1>1
  <2> HIDE DEF T, R
  <2> QED
    BY <1>2, <2>1, WFMin, NatLessThanWellFounded, Zenon DEF R
<1>4. \A y \in T : ~ (y < k)
  BY <1>2, <1>3 DEF OpToRel
<1>5. \A j \in (s + 1)..(k - 1) : j \in Seqs(P)
  BY <1>4
<1>6. \E m \in (s + 1)..(MaxSeq + 1) :
        m \notin Seqs(P) /\ \A j \in (s + 1)..(m - 1) : j \in Seqs(P)
  BY <1>5
<1> QED
  BY <1>6, Zenon DEF FirstMissing

\* The run consumeInOrder hands on: it starts with the event, every element is
\* an event, and the numbers are consecutive.
LEMMA OrderedRunIsConsecutive ==
  ASSUME NEW P \in SUBSET Event, NEW e \in Event
  PROVE  /\ OrderedRun(P, e) \in Seq(Event)
         /\ Len(OrderedRun(P, e)) = FirstMissing(P, e.seq) - e.seq
         /\ \A i \in 1..Len(OrderedRun(P, e)) : OrderedRun(P, e)[i].seq = e.seq + i - 1
<1> USE PipelineAssumption
<1> DEFINE k == FirstMissing(P, e.seq)
<1>1. e.seq \in 0..MaxSeq
  BY DEF Event
<1>2. /\ k \in (e.seq + 1)..(MaxSeq + 1)
      /\ \A j \in (e.seq + 1)..(k - 1) : j \in Seqs(P)
  BY <1>1, FirstMissingIsFirst
<1>3. \A j \in (e.seq + 1)..(k - 1) : EventAt(P, j) \in P /\ EventAt(P, j).seq = j
  <2> TAKE j \in (e.seq + 1)..(k - 1)
  <2>1. \E x \in P : x.seq = j
    BY <1>2 DEF Seqs
  <2> QED
    BY <2>1, Zenon DEF EventAt
<1> HIDE DEF k
<1>4. k - e.seq \in Nat
  BY <1>1, <1>2
<1>5. \A i \in 1..(k - e.seq) : i # 1 => e.seq + i - 1 \in (e.seq + 1)..(k - 1)
  BY <1>1, <1>2
<1>6. OrderedRun(P, e) = [i \in 1..(k - e.seq) |->
                            IF i = 1 THEN e ELSE EventAt(P, e.seq + i - 1)]
  BY DEF OrderedRun, k
<1>7. \A i \in 1..(k - e.seq) :
        (IF i = 1 THEN e ELSE EventAt(P, e.seq + i - 1)) \in Event
  BY <1>3, <1>5
<1>8. OrderedRun(P, e) \in Seq(Event) /\ Len(OrderedRun(P, e)) = k - e.seq
  BY <1>4, <1>6, <1>7
<1>9. \A i \in 1..(k - e.seq) : OrderedRun(P, e)[i].seq = e.seq + i - 1
  <2> TAKE i \in 1..(k - e.seq)
  <2>1. CASE i = 1
    BY <2>1, <1>1, <1>6
  <2>2. CASE i # 1
    BY <2>2, <1>3, <1>5, <1>6
  <2> QED
    BY <2>1, <2>2
<1> QED
  BY <1>8, <1>9 DEF k

-----------------------------------------------------------------------------
\* The pipeline starts empty, in a state of the right shape.
LEMMA InitTypeOK == Init => TypeOK
<1> SUFFICES ASSUME Init PROVE TypeOK
  OBVIOUS
<1> USE PipelineAssumption
<1>1. AgentTypeOK
  BY DEF Init, AgentTypeOK
<1>2. SeqTypeOK
  BY DEF Init, SeqTypeOK
<1>3. \A c \in Conns : NoEvent(c) \in Event
  BY DEF NoEvent, Event
<1>4. ProcTypeOK
  BY <1>3 DEF Init, ProcTypeOK
<1>5. StoreTypeOK
  <2>1. << >> \in Seq(Event) /\ Len(<< >>) <= QueueCap
    OBVIOUS
  <2>2. stopped \in BOOLEAN
    BY DEF Init
  <2>3. queue = << >> /\ db = << >> /\ owed = << >> /\ worker = "run"
    BY DEF Init
  <2> QED
    BY <2>1, <2>2, <2>3 DEF StoreTypeOK
<1> QED
  BY <1>1, <1>2, <1>4, <1>5 DEF TypeOK

\* An action that leaves a group of variables alone leaves its types alone.
LEMMA UnchangedTypes ==
  /\ AgentTypeOK /\ UNCHANGED agentVars => AgentTypeOK'
  /\ SeqTypeOK /\ UNCHANGED seqVars => SeqTypeOK'
  /\ ProcTypeOK /\ UNCHANGED procVars => ProcTypeOK'
  /\ StoreTypeOK /\ UNCHANGED storeVars => StoreTypeOK'
<1>1. AgentTypeOK /\ UNCHANGED agentVars => AgentTypeOK'
  BY DEF AgentTypeOK, agentVars
<1>2. SeqTypeOK /\ UNCHANGED seqVars => SeqTypeOK'
  BY DEF SeqTypeOK, seqVars
<1>3. ProcTypeOK /\ UNCHANGED procVars => ProcTypeOK'
  BY DEF ProcTypeOK, procVars
<1>4. StoreTypeOK /\ UNCHANGED storeVars => StoreTypeOK'
  BY DEF StoreTypeOK, storeVars
<1> QED
  BY <1>1, <1>2, <1>3, <1>4

\* Every action of the agents, the goroutines, the worker and Close keeps the
\* state's shape.
LEMMA NextTypeOK == TypeOK /\ [Next]_vars => TypeOK'
<1> SUFFICES ASSUME TypeOK, [Next]_vars PROVE TypeOK'
  OBVIOUS
<1> USE PipelineAssumption
<1>0. AgentTypeOK /\ SeqTypeOK /\ ProcTypeOK /\ StoreTypeOK
  BY DEF TypeOK
<1>1. ASSUME NEW a \in Agents, Wire(a) PROVE TypeOK'
  <2>1. ASSUME NEW s \in 0..MaxSeq
        PROVE  [agent |-> a, inc |-> inc[a], seq |-> s] \in Event
    BY <1>0 DEF AgentTypeOK, Event
  <2>2. CASE Emit(a)
    <3>1. emitted[a] + 1 \in 0..MaxSeq
      BY <1>0, <2>2 DEF Emit, AgentTypeOK
    <3> QED
      BY <1>0, <2>1, <2>2, <3>1, UnchangedTypes
      DEF AgentTypeOK, TypeOK, Emit, Transmit
  <2>3. ASSUME NEW s \in 0..MaxSeq, Resend(a, s) PROVE TypeOK'
    BY <1>0, <2>1, <2>3, UnchangedTypes DEF AgentTypeOK, TypeOK, Resend, Transmit
  <2>4. ASSUME NEW s \in 0..MaxSeq, AnswerReplay(a, s) PROVE TypeOK'
    BY <1>0, <2>1, <2>4, UnchangedTypes
    DEF AgentTypeOK, TypeOK, AnswerReplay, Transmit
  <2>5. CASE RestartAgent(a)
    BY <1>0, <2>5, UnchangedTypes DEF AgentTypeOK, TypeOK, RestartAgent
  <2> QED
    BY <1>1, <2>2, <2>3, <2>4, <2>5 DEF Wire
<1>2. ASSUME NEW c \in Conns, NEW e \in net[NodeOf[c]], DeduplicateEvent(c, e)
      PROVE TypeOK'
  <2>1. NodeOf[c] \in Agents /\ e \in Event
    BY <1>0 DEF AgentTypeOK
  <2>2. /\ Remember(dedup[NodeOf[c]], e) \in Seq(Event)
        /\ Len(Remember(dedup[NodeOf[c]], e)) <= DedupCap
    BY <1>0, <2>1 DEF SeqTypeOK, Remember
  <2>3. AgentTypeOK'
    BY <1>0, <1>2, <2>1 DEF AgentTypeOK, DeduplicateEvent
  <2>4. SeqTypeOK'
    <3>1. dedup' = dedup \/ dedup' = [dedup EXCEPT ![NodeOf[c]] =
                                        Remember(dedup[NodeOf[c]], e)]
      BY <1>2 DEF DeduplicateEvent
    <3>2. UNCHANGED <<last, pending, consumed>>
      BY <1>2 DEF DeduplicateEvent
    <3>3. dedup' \in [Agents -> Seq(Event)]
      BY <1>0, <2>1, <2>2, <3>1 DEF SeqTypeOK
    <3>4. \A a \in Agents : Len(dedup'[a]) <= DedupCap
      <4> TAKE a \in Agents
      <4>1. dedup'[a] = dedup[a] \/ dedup'[a] = Remember(dedup[NodeOf[c]], e)
        BY <1>0, <3>1 DEF SeqTypeOK
      <4> QED
        BY <1>0, <2>2, <4>1 DEF SeqTypeOK
    <3> QED
      BY <1>0, <3>2, <3>3, <3>4 DEF SeqTypeOK
  <2>5. ProcTypeOK'
    <3>1. \/ UNCHANGED <<pc, ev>>
          \/ /\ pc' = [pc EXCEPT ![c] = "validate"]
             /\ ev' = [ev EXCEPT ![c] = e]
      BY <1>2, Zenon DEF DeduplicateEvent
    <3>2. UNCHANGED <<expected, out, asked>>
      BY <1>2 DEF DeduplicateEvent
    <3>3. pc' \in [Conns -> {"idle", "validate", "gap", "replay", "match", "enqueue"}]
          /\ ev' \in [Conns -> Event]
      BY <1>0, <2>1, <3>1 DEF ProcTypeOK
    <3> QED
      BY <1>0, <3>2, <3>3 DEF ProcTypeOK
  <2> QED
    BY <1>0, <1>2, <2>3, <2>4, <2>5, UnchangedTypes DEF TypeOK, DeduplicateEvent
<1>3. \A c \in Conns : NoEvent(c) \in Event
  BY DEF NoEvent, Event
<1>4. ASSUME NEW c \in Conns, ValidateSequence(c) PROVE TypeOK'
  <2>1. ProcTypeOK'
    BY <1>0, <1>3, <1>4 DEF ProcTypeOK, ValidateSequence, Return
  <2> QED
    BY <1>0, <1>4, <2>1, UnchangedTypes DEF TypeOK, ValidateSequence
<1>5. ASSUME NEW c \in Conns, HandleGap(c) PROVE TypeOK'
  <2>1. ProcTypeOK'
    BY <1>0, <1>5 DEF ProcTypeOK, SeqTypeOK, HandleGap
  <2>2. NodeOf[c] \in Agents /\ ev[c] \in Event
    BY <1>0 DEF ProcTypeOK
  <2>3. {e \in pending[NodeOf[c]] : e.seq # ev[c].seq} \cup {ev[c]} \in SUBSET Event
    BY <1>0, <2>2 DEF SeqTypeOK
  <2>4. pending' \in [Agents -> SUBSET Event]
    BY <1>0, <1>5, <2>2, <2>3 DEF SeqTypeOK, HandleGap
  <2>5. UNCHANGED <<dedup, last, consumed>>
    BY <1>5 DEF HandleGap
  <2>6. SeqTypeOK'
    BY <1>0, <2>4, <2>5 DEF SeqTypeOK
  <2> QED
    BY <1>0, <1>5, <2>1, <2>6, UnchangedTypes DEF TypeOK, HandleGap
<1>6. ASSUME NEW c \in Conns, SendReplayRequest(c) PROVE TypeOK'
  <2>1. ev[c].seq \in 0..MaxSeq /\ NodeOf[c] \in Agents
    BY <1>0 DEF ProcTypeOK, Event
  <2>2. expected[c]..(ev[c].seq - 1) \in SUBSET Int
    OBVIOUS
  <2>3. AgentTypeOK'
    BY <1>0, <1>6, <2>1, <2>2 DEF AgentTypeOK, SendReplayRequest
  <2>4. ProcTypeOK'
    BY <1>0, <1>3, <1>6, <2>1, <2>2 DEF ProcTypeOK, SendReplayRequest, Return
  <2> QED
    BY <1>0, <1>6, <2>3, <2>4, UnchangedTypes DEF TypeOK, SendReplayRequest
<1>7. ASSUME NEW c \in Conns, ConsumeInOrder(c) PROVE TypeOK'
  <2> DEFINE a == NodeOf[c]
             k == FirstMissing(pending[a], ev[c].seq)
             run == OrderedRun(pending[a], ev[c])
  <2>1. a \in Agents /\ pending[a] \in SUBSET Event /\ ev[c] \in Event
    BY <1>0 DEF SeqTypeOK, ProcTypeOK
  <2>2. ev[c].seq \in 0..MaxSeq
    BY <2>1 DEF Event
  <2>3. k \in (ev[c].seq + 1)..(MaxSeq + 1)
    BY <2>1, <2>2, FirstMissingIsFirst
  <2>4. run \in Seq(Event)
    BY <2>1, OrderedRunIsConsecutive
  <2>5. k - 1 \in 0..MaxSeq
    BY <2>2, <2>3
  <2>6. /\ last' = [last EXCEPT ![a] = k - 1]
        /\ pending' = [pending EXCEPT ![a] =
                         {e \in @ : e.seq \notin (ev[c].seq + 1)..(k - 1)}]
        /\ consumed' = [consumed EXCEPT ![a] = @ \o run]
        /\ out' = [out EXCEPT ![c] = run]
        /\ UNCHANGED <<agentVars, dedup, expected, asked, storeVars>>
    BY <1>7 DEF ConsumeInOrder
  <2>7. pc' = [pc EXCEPT ![c] = "enqueue"] /\ ev' = [ev EXCEPT ![c] = NoEvent(c)]
    BY <1>7 DEF ConsumeInOrder
  <2> HIDE DEF a, k, run
  <2>8. SeqTypeOK'
    BY <1>0, <2>1, <2>4, <2>5, <2>6 DEF SeqTypeOK
  <2>9. ProcTypeOK'
    BY <1>0, <1>3, <2>1, <2>4, <2>6, <2>7 DEF ProcTypeOK
  <2> QED
    BY <1>0, <2>6, <2>8, <2>9, UnchangedTypes DEF TypeOK
<1>8. ASSUME NEW c \in Conns, EnqueuePersist(c) PROVE TypeOK'
  <2>1. Head(out[c]) \in Event /\ Tail(out[c]) \in Seq(Event)
    BY <1>0, <1>8 DEF EnqueuePersist, ProcTypeOK
  <2>2. queue' \in Seq(Event) /\ Len(queue') <= QueueCap
    BY <1>0, <1>8, <2>1 DEF EnqueuePersist, StoreTypeOK
  <2>3. ProcTypeOK'
    BY <1>0, <1>8, <2>1 DEF EnqueuePersist, ProcTypeOK
  <2>4. UNCHANGED <<worker, stopped, db, owed>>
    BY <1>8 DEF EnqueuePersist
  <2>5. StoreTypeOK'
    BY <1>0, <2>2, <2>4 DEF StoreTypeOK
  <2> QED
    BY <1>0, <1>8, <2>3, <2>5, UnchangedTypes DEF TypeOK, EnqueuePersist
<1>9. CASE PersistEvent
  <2>1. Head(queue) \in Event /\ queue' \in Seq(Event) /\ Len(queue') <= QueueCap
    BY <1>0, <1>9 DEF PersistEvent, StoreTypeOK
  <2>2. Append(db, Head(queue)) \in Seq(Event) /\ db \in Seq(Event)
    BY <1>0, <2>1 DEF StoreTypeOK
  <2>3. db' = db \/ db' = Append(db, Head(queue))
    BY <1>9, Zenon DEF PersistEvent, InsertRow
  <2>4. UNCHANGED <<worker, stopped>> /\ owed' \in Seq(Event)
    BY <1>0, <1>9 DEF PersistEvent, StoreTypeOK
  <2>5. db' \in Seq(Event)
    BY <2>2, <2>3, Zenon
  <2>6. StoreTypeOK'
    BY <1>0, <2>1, <2>4, <2>5 DEF StoreTypeOK
  <2> QED
    BY <1>0, <1>9, <2>6, UnchangedTypes DEF TypeOK, PersistEvent
<1>10. CASE StopWorker \/ FinishWorker \/ Close
  <2>1. StoreTypeOK'
    BY <1>0, <1>10 DEF StoreTypeOK, StopWorker, FinishWorker, Close
  <2> QED
    BY <1>0, <1>10, <2>1, UnchangedTypes DEF TypeOK, StopWorker, FinishWorker, Close
<1>11. CASE UNCHANGED vars
  BY <1>0, <1>11, UnchangedTypes DEF TypeOK, vars
<1> QED
  BY <1>1, <1>2, <1>4, <1>5, <1>6, <1>7, <1>8, <1>9, <1>10, <1>11
  DEF Next, Step, Persist

\* The pipeline's caches, buffer, queue and table always hold events, and the
\* dedup cache and the persist queue stay within their capacities.
THEOREM TypeCorrect == Spec => []TypeOK
<1>1. Init => TypeOK
  BY InitTypeOK
<1>2. TypeOK /\ [Next]_vars => TypeOK'
  BY NextTypeOK
<1> QED
  BY <1>1, <1>2, PTL DEF Spec

-----------------------------------------------------------------------------
(* Order.  With one reader per agent nobody changes last[a] between the    *)
(* two critical sections of ProcessEvent, so the verdict of                *)
(* validateSequence still holds when it is acted on.                       *)

\* A log numbered 1, 2, ... extended by a run that is numbered onwards.
LEMMA ConcatNumbered ==
  ASSUME NEW s \in Seq(Event), NEW r \in Seq(Event),
         \A i \in 1..Len(s) : s[i].seq = i,
         \A i \in 1..Len(r) : r[i].seq = Len(s) + i
  PROVE  /\ Len(s \o r) = Len(s) + Len(r)
         /\ \A i \in 1..Len(s \o r) : (s \o r)[i].seq = i
<1>1. Len(s \o r) = Len(s) + Len(r) /\ Len(s) \in Nat /\ Len(r) \in Nat
  OBVIOUS
<1>2. \A i \in 1..Len(s \o r) :
        (s \o r)[i] = IF i <= Len(s) THEN s[i] ELSE r[i - Len(s)]
  OBVIOUS
<1>3. \A i \in 1..Len(s \o r) : (s \o r)[i].seq = i
  <2> TAKE i \in 1..Len(s \o r)
  <2>1. CASE i <= Len(s)
    BY <1>1, <1>2, <2>1
  <2>2. CASE i > Len(s)
    <3>1. i - Len(s) \in 1..Len(r)
      BY <1>1, <2>2
    <3>2. r[i - Len(s)].seq = Len(s) + (i - Len(s))
      BY <3>1
    <3> QED
      BY <1>1, <1>2, <2>2, <3>2
  <2> QED
    BY <1>1, <2>1, <2>2
<1> QED
  BY <1>1, <1>3

\* Steps other than handleGap and consumeInOrder leave last, pending and
\* consumed alone and start or end no verdict, except validateSequence.
LEMMA OrderUnchanged ==
  ASSUME SerialInv, UNCHANGED <<last, pending, consumed>>,
         \A c \in Conns : \/ pc'[c] \notin {"match", "gap"}
                          \/ pc'[c] = pc[c] /\ ev'[c] = ev[c]
  PROVE  SerialInv'
BY DEF SerialInv, InOrder, OnlyWaiting, VerdictHolds

\* SerialInv is inductive: with one reading goroutine per agent, no step of
\* ProcessEvent invalidates the verdict another step relies on.
LEMMA NextSerialInv ==
  ASSUME OneReaderPerAgent, TypeOK, SerialInv, [Next]_vars
  PROVE  SerialInv'
<1> USE PipelineAssumption
<1>0. SeqTypeOK /\ ProcTypeOK
  BY DEF TypeOK
<1>1. ASSUME NEW a \in Agents, Wire(a) PROVE SerialInv'
  BY <1>1, OrderUnchanged
  DEF Wire, Emit, Resend, AnswerReplay, RestartAgent, seqVars, procVars
<1>2. ASSUME NEW c \in Conns, NEW e \in net[NodeOf[c]], DeduplicateEvent(c, e)
      PROVE SerialInv'
  BY <1>0, <1>2, OrderUnchanged DEF DeduplicateEvent, ProcTypeOK
<1>3. ASSUME NEW c \in Conns, ValidateSequence(c) PROVE SerialInv'
  <2>1. UNCHANGED <<last, pending, consumed>>
    BY <1>3 DEF ValidateSequence, seqVars
  <2>2. ASSUME NEW d \in Conns, d # c PROVE pc'[d] = pc[d] /\ ev'[d] = ev[d]
    BY <1>0, <1>3, <2>2 DEF ValidateSequence, Return, ProcTypeOK
  <2>3. /\ pc'[c] = "match" => ev'[c].seq = last[NodeOf[c]] + 1
        /\ pc'[c] = "gap" => ev'[c].seq > last[NodeOf[c]] + 1
    BY <1>0, <1>3 DEF ValidateSequence, Return, ProcTypeOK
  <2>4. VerdictHolds'
    BY <2>1, <2>2, <2>3 DEF SerialInv, VerdictHolds
  <2> QED
    BY <2>1, <2>4 DEF SerialInv, InOrder, OnlyWaiting
<1>4. ASSUME NEW c \in Conns, HandleGap(c) PROVE SerialInv'
  <2>1. /\ UNCHANGED <<last, consumed, ev>>
        /\ pc' = [pc EXCEPT ![c] = "replay"]
        /\ pending' = [pending EXCEPT ![NodeOf[c]] =
                         {e \in @ : e.seq # ev[c].seq} \cup {ev[c]}]
        /\ pc[c] = "gap"
    BY <1>4 DEF HandleGap
  <2>2. ev[c].seq > last[NodeOf[c]] + 1
    BY <2>1 DEF SerialInv, VerdictHolds
  <2>3. OnlyWaiting'
    BY <1>0, <2>1, <2>2 DEF SerialInv, OnlyWaiting, SeqTypeOK
  <2>4. VerdictHolds'
    BY <1>0, <2>1 DEF SerialInv, VerdictHolds, ProcTypeOK
  <2> QED
    BY <2>1, <2>3, <2>4 DEF SerialInv, InOrder
<1>5. ASSUME NEW c \in Conns, SendReplayRequest(c) PROVE SerialInv'
  BY <1>0, <1>5, OrderUnchanged DEF SendReplayRequest, Return, ProcTypeOK, seqVars
<1>6. ASSUME NEW c \in Conns, ConsumeInOrder(c) PROVE SerialInv'
  <2> DEFINE a == NodeOf[c]
             k == FirstMissing(pending[a], ev[c].seq)
             run == OrderedRun(pending[a], ev[c])
  <2>1. /\ a \in Agents /\ pending[a] \in SUBSET Event
        /\ ev[c] \in Event /\ ev[c].seq \in 0..MaxSeq
    BY <1>0 DEF SeqTypeOK, ProcTypeOK, Event
  <2>2. /\ k \in (ev[c].seq + 1)..(MaxSeq + 1)
        /\ k \notin Seqs(pending[a])
    BY <2>1, FirstMissingIsFirst
  <2>3. /\ run \in Seq(Event) /\ Len(run) = k - ev[c].seq
        /\ \A i \in 1..Len(run) : run[i].seq = ev[c].seq + i - 1
    BY <2>1, OrderedRunIsConsecutive
  <2>4. /\ pc[c] = "match"
        /\ last' = [last EXCEPT ![a] = k - 1]
        /\ pending' = [pending EXCEPT ![a] =
                         {e \in @ : e.seq \notin (ev[c].seq + 1)..(k - 1)}]
        /\ consumed' = [consumed EXCEPT ![a] = @ \o run]
        /\ pc' = [pc EXCEPT ![c] = "enqueue"] /\ ev' = [ev EXCEPT ![c] = NoEvent(c)]
    BY <1>6 DEF ConsumeInOrder
  <2>5. ev[c].seq = last[a] + 1
    BY <2>4 DEF SerialInv, VerdictHolds
  <2> HIDE DEF k, run
  <2>6. InOrder'
    <3>1. /\ consumed[a] \in Seq(Event) /\ Len(consumed[a]) = last[a]
          /\ last[a] \in Nat
          /\ \A i \in 1..Len(consumed[a]) : consumed[a][i].seq = i
      BY <1>0, <2>1 DEF SeqTypeOK, SerialInv, InOrder
    <3>2. consumed'[a] = consumed[a] \o run /\ last'[a] = k - 1
      BY <1>0, <2>1, <2>4 DEF SeqTypeOK
    <3>3. \A i \in 1..Len(run) : run[i].seq = Len(consumed[a]) + i
      BY <2>3, <2>5, <3>1
    <3>4. /\ Len(consumed'[a]) = last'[a]
          /\ \A i \in 1..Len(consumed'[a]) : consumed'[a][i].seq = i
      <4>1. /\ Len(consumed[a] \o run) = Len(consumed[a]) + Len(run)
            /\ \A i \in 1..Len(consumed[a] \o run) : (consumed[a] \o run)[i].seq = i
        BY <2>3, <3>1, <3>3, ConcatNumbered
      <4>2. Len(consumed[a]) + Len(run) = k - 1
        BY <2>1, <2>2, <2>3, <2>5, <3>1
      <4> QED
        BY <3>2, <4>1, <4>2
    <3>5. \A b \in Agents \ {a} : consumed'[b] = consumed[b] /\ last'[b] = last[b]
      BY <1>0, <2>4 DEF SeqTypeOK
    <3> QED
      BY <3>4, <3>5 DEF SerialInv, InOrder
  <2>7. OnlyWaiting'
    <3>1. \A e \in pending'[a] : e.seq > last'[a] + 1
      <4> TAKE e \in pending'[a]
      <4>1. /\ e \in pending[a] /\ e.seq \notin (ev[c].seq + 1)..(k - 1)
            /\ last'[a] = k - 1
        BY <1>0, <2>1, <2>4 DEF SeqTypeOK
      <4>2. e.seq \in 0..MaxSeq /\ e.seq # k
        BY <2>1, <2>2, <4>1 DEF Seqs, Event
      <4>3. e.seq > last[a] + 1
        BY <2>1, <4>1 DEF SerialInv, OnlyWaiting
      <4> QED
        BY <1>0, <2>1, <2>2, <2>5, <4>1, <4>2, <4>3 DEF SeqTypeOK
    <3>2. \A b \in Agents \ {a} : pending'[b] = pending[b] /\ last'[b] = last[b]
      BY <1>0, <2>4 DEF SeqTypeOK
    <3> QED
      BY <3>1, <3>2 DEF SerialInv, OnlyWaiting
  <2>8. VerdictHolds'
    <3>1. pc'[c] = "enqueue"
      BY <1>0, <2>4 DEF ProcTypeOK
    <3>2. ASSUME NEW d \in Conns, d # c
          PROVE  pc'[d] = pc[d] /\ ev'[d] = ev[d] /\ last'[NodeOf[d]] = last[NodeOf[d]]
      BY <1>0, <2>4, <3>2 DEF ProcTypeOK, SeqTypeOK, OneReaderPerAgent
    <3> QED
      BY <3>1, <3>2 DEF SerialInv, VerdictHolds
  <2> QED
    BY <2>6, <2>7, <2>8 DEF SerialInv
<1>7. ASSUME NEW c \in Conns, EnqueuePersist(c) PROVE SerialInv'
  BY <1>0, <1>7, OrderUnchanged DEF EnqueuePersist, ProcTypeOK, seqVars
<1>8. CASE Persist \/ Close \/ UNCHANGED vars
  BY <1>8, OrderUnchanged
  DEF Persist, PersistEvent, StopWorker, FinishWorker, Close, vars, seqVars, procVars
<1> QED
  BY <1>1, <1>2, <1>3, <1>4, <1>5, <1>6, <1>7, <1>8 DEF Next, Step

\* Every reachable state satisfies the inductive invariant.
LEMMA SerialInvHolds == ASSUME OneReaderPerAgent PROVE Spec => []SerialInv
<1>1. Init => SerialInv
  BY PipelineAssumption DEF Init, SerialInv, InOrder, OnlyWaiting, VerdictHolds
<1>2. TypeOK /\ SerialInv /\ [Next]_vars => SerialInv'
  BY NextSerialInv
<1> QED
  BY <1>1, <1>2, TypeCorrect, PTL DEF Spec

\* While each agent has one reading goroutine, the pipeline hands on every
\* agent's events in order without a gap or a repetition, however the wire
\* loses, reorders and repeats them and whatever the dedup cache forgets.
THEOREM ConsumedInOrder == ASSUME OneReaderPerAgent PROVE Spec => []InOrder
<1>1. SerialInv => InOrder
  BY DEF SerialInv
<1> QED
  BY <1>1, SerialInvHolds, PTL

\* While each agent has one reading goroutine, no event stays in the buffer of
\* handleGap once its predecessor has been handed on.
THEOREM BufferOnlyWaits == ASSUME OneReaderPerAgent PROVE Spec => []OnlyWaiting
<1>1. SerialInv => OnlyWaiting
  BY DEF SerialInv
<1> QED
  BY <1>1, SerialInvHolds, PTL

\* While each agent has one reading goroutine, the verdict of validateSequence
\* still holds when handleGap or consumeInOrder takes the lock again.
THEOREM VerdictStays == ASSUME OneReaderPerAgent PROVE Spec => []VerdictHolds
<1>1. SerialInv => VerdictHolds
  BY DEF SerialInv
<1> QED
  BY <1>1, SerialInvHolds, PTL

-----------------------------------------------------------------------------
(* Close.  What was queued at Close is a prefix of the queue until it is   *)
(* taken off, so it is gone when the drain loop finds the queue empty.     *)

DrainInv ==
  /\ Len(owed) <= Len(queue)
  /\ worker # "run" => stopped
  /\ ~ stopped => owed = << >>
  /\ worker = "done" => owed = << >>

\* DrainInv is inductive.
LEMMA NextDrainInv == TypeOK /\ DrainInv /\ [Next]_vars => DrainInv'
<1> SUFFICES ASSUME TypeOK, DrainInv, [Next]_vars PROVE DrainInv'
  OBVIOUS
<1>Types. queue \in Seq(Event) /\ owed \in Seq(Event)
  BY DEF TypeOK, StoreTypeOK
<1>1. ASSUME UNCHANGED storeVars PROVE DrainInv'
  BY <1>1 DEF storeVars, DrainInv
<1>2. ASSUME NEW c \in Conns, EnqueuePersist(c) PROVE DrainInv'
  <2>1. UNCHANGED <<worker, stopped, owed>>
    BY <1>2 DEF EnqueuePersist
  <2>2. Len(queue') >= Len(queue)
    <3> DEFINE e == Head(out[c])
    <3>1. queue' = queue \/ queue' = Append(queue, e)
      BY <1>2, Zenon DEF EnqueuePersist
    <3>2. Len(Append(queue, e)) = Len(queue) + 1 /\ Len(queue) \in Nat
      BY <1>Types
    <3> QED
      BY <3>1, <3>2
  <2> QED
    BY <2>1, <2>2, <1>Types DEF DrainInv
<1>3. CASE PersistEvent
  BY <1>3, <1>Types DEF PersistEvent, DrainInv
<1>4. CASE StopWorker \/ FinishWorker \/ Close
  BY <1>4, <1>Types DEF StopWorker, FinishWorker, Close, DrainInv
<1>5. ASSUME NEW a \in Agents, Wire(a) PROVE UNCHANGED storeVars
  BY <1>5 DEF Wire, Emit, Resend, AnswerReplay, RestartAgent
<1>6. ASSUME NEW c \in Conns, NEW e \in net[NodeOf[c]], DeduplicateEvent(c, e)
      PROVE  UNCHANGED storeVars
  BY <1>6 DEF DeduplicateEvent
<1>7. ASSUME NEW c \in Conns,
             ValidateSequence(c) \/ HandleGap(c) \/ SendReplayRequest(c) \/ ConsumeInOrder(c)
      PROVE  UNCHANGED storeVars
  BY <1>7 DEF ValidateSequence, HandleGap, SendReplayRequest, ConsumeInOrder
<1>8. ASSUME UNCHANGED vars PROVE UNCHANGED storeVars
  BY <1>8 DEF vars
<1> QED
  BY <1>1, <1>2, <1>3, <1>4, <1>5, <1>6, <1>7, <1>8 DEF Next, Step, Persist

\* Whatever goroutines enqueue meanwhile and however the worker's select falls,
\* the worker returns only when everything queued at Close has been taken off.
THEOREM ClosedIsDrained == Spec => []CloseDrains
<1>1. Init => DrainInv
  BY DEF Init, DrainInv
<1>2. DrainInv => CloseDrains
  BY DEF DrainInv, CloseDrains
<1> QED
  BY <1>1, <1>2, NextDrainInv, TypeCorrect, PTL DEF Spec

-----------------------------------------------------------------------------
(* Refinement.                                                             *)

\* In a state whose log is in order, the abstract log is 1, 2, ..., last[a].
LEMMA AbstractLog ==
  ASSUME InOrder PROVE consumedSeqs = [a \in Agents |-> [i \in 1..last[a] |-> i]]
BY DEF InOrder, consumedSeqs

\* last changes only when consumeInOrder advances it for one agent.
LEMMA LastAdvances ==
  ASSUME TypeOK, SerialInv, [Next]_vars
  PROVE  \/ last' = last
         \/ \E a \in Agents, n \in 1..MaxSeq :
              last[a] + n <= MaxSeq /\ last' = [last EXCEPT ![a] = last[a] + n]
<1> USE PipelineAssumption
<1>1. ASSUME NEW c \in Conns, ConsumeInOrder(c)
      PROVE  \E a \in Agents, n \in 1..MaxSeq :
               last[a] + n <= MaxSeq /\ last' = [last EXCEPT ![a] = last[a] + n]
  <2> DEFINE a == NodeOf[c]
             k == FirstMissing(pending[a], ev[c].seq)
  <2>1. /\ a \in Agents /\ pending[a] \in SUBSET Event
        /\ ev[c] \in Event /\ ev[c].seq \in 0..MaxSeq /\ last[a] \in 0..MaxSeq
    BY DEF TypeOK, SeqTypeOK, ProcTypeOK, Event
  <2>2. k \in (ev[c].seq + 1)..(MaxSeq + 1)
    BY <2>1, FirstMissingIsFirst
  <2>3. ev[c].seq = last[a] + 1 /\ last' = [last EXCEPT ![a] = k - 1]
    BY <1>1 DEF ConsumeInOrder, SerialInv, VerdictHolds
  <2> HIDE DEF a, k
  <2>4. /\ (k - 1) - last[a] \in 1..MaxSeq
        /\ last[a] + ((k - 1) - last[a]) = k - 1 /\ k - 1 <= MaxSeq
    BY <2>1, <2>2, <2>3
  <2>5. /\ last[a] + ((k - 1) - last[a]) <= MaxSeq
        /\ last' = [last EXCEPT ![a] = last[a] + ((k - 1) - last[a])]
    BY <2>3, <2>4
  <2> QED
    BY <2>1, <2>4, <2>5
<1>2. ASSUME NEW a \in Agents, Wire(a) PROVE last' = last
  BY <1>2 DEF Wire, Emit, Resend, AnswerReplay, RestartAgent, seqVars
<1>3. ASSUME NEW c \in Conns, NEW e \in net[NodeOf[c]], DeduplicateEvent(c, e)
      PROVE last' = last
  BY <1>3 DEF DeduplicateEvent
<1>4. ASSUME NEW c \in Conns, Step(c), ~ ConsumeInOrder(c) PROVE last' = last
  BY <1>4 DEF Step, ValidateSequence, HandleGap, SendReplayRequest, EnqueuePersist, seqVars
<1>5. CASE Persist \/ Close \/ UNCHANGED vars
  BY <1>5 DEF Persist, PersistEvent, StopWorker, FinishWorker, Close, vars, seqVars
<1> QED
  BY <1>1, <1>2, <1>3, <1>4, <1>5 DEF Next

\* The detailed pipeline implements OrderedDelivery while each agent has one
\* reading goroutine.
THEOREM PipelineImplements ==
  ASSUME OneReaderPerAgent PROVE Spec => ImplementsOrderedDelivery
<1> USE PipelineAssumption
<1>1. Init => OD!Init
  BY DEF Init, OD!Init, consumedSeqs
<1>2. TypeOK /\ SerialInv /\ SerialInv' /\ [Next]_vars => [OD!Next]_consumedSeqs
  <2> SUFFICES ASSUME TypeOK, SerialInv, SerialInv', [Next]_vars
               PROVE  [OD!Next]_consumedSeqs
    OBVIOUS
  <2>1. /\ consumedSeqs = [a \in Agents |-> [i \in 1..last[a] |-> i]]
        /\ consumedSeqs' = [a \in Agents |-> [i \in 1..last'[a] |-> i]]
    <3>1. consumedSeqs = [a \in Agents |-> [i \in 1..last[a] |-> i]]
      BY AbstractLog DEF SerialInv
    <3>2. consumedSeqs' = [a \in Agents |-> [i \in 1..last'[a] |-> i]]
      BY DEF SerialInv, InOrder, consumedSeqs
    <3> QED
      BY <3>1, <3>2
  <2>2. CASE last' = last
    BY <2>1, <2>2
  <2>3. ASSUME NEW a \in Agents, NEW n \in 1..MaxSeq, last[a] + n <= MaxSeq,
               last' = [last EXCEPT ![a] = last[a] + n]
        PROVE  OD!Next
    <3>1. last \in [Agents -> 0..MaxSeq]
      BY DEF TypeOK, SeqTypeOK
    <3>2. consumedSeqs[a] = [i \in 1..last[a] |-> i] /\ Len(consumedSeqs[a]) = last[a]
      BY <2>1, <3>1
    <3>3. consumedSeqs' = [consumedSeqs EXCEPT ![a] = [i \in 1..last[a] + n |-> i]]
      BY <2>1, <2>3, <3>1
    <3>4. [i \in 1..last[a] + n |-> i] =
            [i \in 1..Len(consumedSeqs[a]) + n |->
               IF i <= Len(consumedSeqs[a]) THEN consumedSeqs[a][i] ELSE i]
      BY <3>1, <3>2
    <3>5. OD!Deliver(a, n)
      BY <2>3, <3>1, <3>2, <3>3, <3>4 DEF OD!Deliver
    <3> QED
      BY <3>5 DEF OD!Next
  <2> QED
    BY <2>2, <2>3, LastAdvances
<1> QED
  BY <1>1, <1>2, TypeCorrect, SerialInvHolds, PTL
  DEF Spec, ImplementsOrderedDelivery, OD!Spec

-----------------------------------------------------------------------------
(* What a step of consumeInOrder does, for the two sections below.         *)

\* Every element of the run is the event itself or comes from the buffer.
LEMMA OrderedRunFrom ==
  ASSUME NEW P \in SUBSET Event, NEW e \in Event,
         NEW i \in 1..Len(OrderedRun(P, e))
  PROVE  OrderedRun(P, e)[i] \in P \cup {e}
<1> USE PipelineAssumption
<1> DEFINE k == FirstMissing(P, e.seq)
<1>1. e.seq \in 0..MaxSeq
  BY DEF Event
<1>2. /\ k \in (e.seq + 1)..(MaxSeq + 1)
      /\ \A j \in (e.seq + 1)..(k - 1) : j \in Seqs(P)
  BY <1>1, FirstMissingIsFirst
<1>3. Len(OrderedRun(P, e)) = k - e.seq
  BY OrderedRunIsConsecutive
<1>4. OrderedRun(P, e) = [j \in 1..(k - e.seq) |->
                            IF j = 1 THEN e ELSE EventAt(P, e.seq + j - 1)]
  BY DEF OrderedRun
<1> HIDE DEF k
<1>5. CASE i = 1
  BY <1>3, <1>4, <1>5
<1>6. CASE i # 1
  <2>1. e.seq + i - 1 \in (e.seq + 1)..(k - 1)
    BY <1>1, <1>2, <1>3, <1>6
  <2>2. \E x \in P : x.seq = e.seq + i - 1
    BY <1>2, <2>1 DEF Seqs
  <2>3. EventAt(P, e.seq + i - 1) \in P
    BY <2>2, Zenon DEF EventAt
  <2> QED
    BY <1>3, <1>4, <1>6, <2>3
<1> QED
  BY <1>5, <1>6

\* consumeInOrder moves its agent's number forward and no other's, takes
\* events out of the buffer and puts none in, and hands on a run whose numbers
\* rise from the old last number to the new one.
LEMMA ConsumeAdvances ==
  ASSUME TypeOK, SerialInv, NEW c \in Conns, ConsumeInOrder(c)
  PROVE  /\ \A b \in Agents : last'[b] >= last[b]
         /\ \A b \in Agents : pending'[b] \subseteq pending[b]
         /\ out'[c] \in Seq(Event)
         /\ \A d \in Conns \ {c} : out'[d] = out[d]
         /\ \A i \in 1..Len(out'[c]) :
              /\ out'[c][i] \in pending[NodeOf[c]] \cup {ev[c]}
              /\ out'[c][i].seq > last[NodeOf[c]] /\ out'[c][i].seq <= last'[NodeOf[c]]
         /\ \A i, j \in 1..Len(out'[c]) : i < j => out'[c][i].seq < out'[c][j].seq
<1> USE PipelineAssumption
<1> DEFINE a == NodeOf[c]
           k == FirstMissing(pending[a], ev[c].seq)
           run == OrderedRun(pending[a], ev[c])
<1>0. SeqTypeOK /\ ProcTypeOK
  BY DEF TypeOK
<1>1. /\ a \in Agents /\ pending[a] \in SUBSET Event /\ last[a] \in Nat
      /\ ev[c] \in Event /\ ev[c].seq \in 0..MaxSeq
  BY <1>0 DEF SeqTypeOK, ProcTypeOK, Event
<1>2. k \in (ev[c].seq + 1)..(MaxSeq + 1)
  BY <1>1, FirstMissingIsFirst
<1>3. /\ run \in Seq(Event) /\ Len(run) = k - ev[c].seq
      /\ \A i \in 1..Len(run) : run[i].seq = ev[c].seq + i - 1
      /\ \A i \in 1..Len(run) : run[i] \in pending[a] \cup {ev[c]}
  BY <1>1, OrderedRunIsConsecutive, OrderedRunFrom
<1>4. /\ pc[c] = "match"
      /\ last' = [last EXCEPT ![a] = k - 1]
      /\ pending' = [pending EXCEPT ![a] =
                       {e \in @ : e.seq \notin (ev[c].seq + 1)..(k - 1)}]
      /\ out' = [out EXCEPT ![c] = run]
  BY DEF ConsumeInOrder
<1>5. ev[c].seq = last[a] + 1
  BY <1>4 DEF SerialInv, VerdictHolds
<1> HIDE DEF k, run
<1>6. out'[c] = run /\ \A d \in Conns \ {c} : out'[d] = out[d]
  BY <1>0, <1>4 DEF ProcTypeOK
<1>7. /\ last'[a] = k - 1
      /\ \A b \in Agents \ {a} : last'[b] = last[b]
      /\ \A b \in Agents : last[b] \in Nat
  BY <1>0, <1>1, <1>4 DEF SeqTypeOK
<1>8. \A b \in Agents : last'[b] >= last[b]
  BY <1>1, <1>2, <1>5, <1>7
<1>9. \A b \in Agents : pending'[b] \subseteq pending[b]
  BY <1>0, <1>1, <1>4 DEF SeqTypeOK
<1>10. \A i \in 1..Len(run) : run[i].seq > last[a] /\ run[i].seq <= last'[a]
  BY <1>1, <1>2, <1>3, <1>5, <1>7
<1>11. \A i, j \in 1..Len(run) : i < j => run[i].seq < run[j].seq
  <2> TAKE i, j \in 1..Len(run)
  <2>1. run[i].seq = ev[c].seq + i - 1 /\ run[j].seq = ev[c].seq + j - 1
    BY <1>3
  <2>2. i \in Int /\ j \in Int /\ ev[c].seq \in Int
    BY <1>1
  <2> QED
    BY <2>1, <2>2
<1> QED
  BY <1>3, <1>6, <1>8, <1>9, <1>10, <1>11

-----------------------------------------------------------------------------
(* Replay requests.  The run that consumeInOrder drains ends anywhere in   *)
(* the gaps of the buffer, so all of them must have been asked for, not    *)
(* only the first.                                                         *)

\* Number j of agent a was asked for, or a goroutine in handleGap is about to.
Requested(a, j) ==
  \/ j \in asked[a]
  \/ \E c \in Conns : NodeOf[c] = a /\ pc[c] = "replay" /\ j \in expected[c]..(ev[c].seq - 1)

\* Every number between the last one handed on and a buffered one is requested.
RequestInv ==
  \A a \in Agents : \A e \in pending[a] : \A j \in (last[a] + 1)..(e.seq - 1) : Requested(a, j)

LEMMA NextRequestInv ==
  ASSUME OneReaderPerAgent, TypeOK, SerialInv, RequestInv, [Next]_vars
  PROVE  RequestInv'
<1> USE PipelineAssumption
<1>0. SeqTypeOK /\ ProcTypeOK
  BY DEF TypeOK
<1>1. ASSUME UNCHANGED <<last, pending>>,
             \A a \in Agents : asked[a] \subseteq asked'[a],
             \A c \in Conns : pc[c] = "replay" =>
               pc'[c] = "replay" /\ ev'[c] = ev[c] /\ expected'[c] = expected[c]
      PROVE  RequestInv'
  BY <1>1 DEF RequestInv, Requested
<1>2. ASSUME NEW a \in Agents, Wire(a) PROVE RequestInv'
  BY <1>1, <1>2 DEF Wire, Emit, Resend, AnswerReplay, RestartAgent, seqVars, procVars
<1>3. ASSUME NEW c \in Conns, NEW e \in net[NodeOf[c]], DeduplicateEvent(c, e)
      PROVE  RequestInv'
  BY <1>0, <1>1, <1>3 DEF DeduplicateEvent, ProcTypeOK
<1>4. ASSUME NEW c \in Conns, ValidateSequence(c) \/ EnqueuePersist(c) PROVE RequestInv'
  BY <1>0, <1>1, <1>4 DEF ValidateSequence, EnqueuePersist, Return, ProcTypeOK, seqVars
<1>5. CASE Persist \/ Close \/ UNCHANGED vars
  BY <1>1, <1>5
  DEF Persist, PersistEvent, StopWorker, FinishWorker, Close, vars, seqVars, procVars
<1>6. ASSUME NEW c \in Conns, HandleGap(c) PROVE RequestInv'
  <2> DEFINE a == NodeOf[c]
  <2>1. /\ a \in Agents /\ pc[c] = "gap" /\ UNCHANGED <<last, ev, asked>>
        /\ pc'[c] = "replay" /\ expected'[c] = last[a] + 1
        /\ \A d \in Conns \ {c} : pc'[d] = pc[d] /\ expected'[d] = expected[d]
        /\ \A e \in pending'[a] : e \in pending[a] \/ e = ev[c]
        /\ \A b \in Agents \ {a} : pending'[b] = pending[b]
    BY <1>0, <1>6 DEF HandleGap, ProcTypeOK, SeqTypeOK
  <2>2. \A b \in Agents : \A j : Requested(b, j) => Requested(b, j)'
    BY <2>1 DEF Requested
  <2>3. \A j \in (last[a] + 1)..(ev[c].seq - 1) : Requested(a, j)'
    BY <2>1 DEF Requested
  <2> QED
    BY <2>1, <2>2, <2>3 DEF RequestInv
<1>7. ASSUME NEW c \in Conns, SendReplayRequest(c) PROVE RequestInv'
  <2> DEFINE a == NodeOf[c]
  <2>1. /\ a \in Agents /\ UNCHANGED <<last, pending>>
        /\ asked'[a] = asked[a] \cup (expected[c]..(ev[c].seq - 1))
        /\ \A b \in Agents \ {a} : asked'[b] = asked[b]
        /\ \A d \in Conns \ {c} :
             pc'[d] = pc[d] /\ expected'[d] = expected[d] /\ ev'[d] = ev[d]
    BY <1>0, <1>7 DEF SendReplayRequest, Return, ProcTypeOK, seqVars
  <2>2. \A b \in Agents : \A j : Requested(b, j) => Requested(b, j)'
    BY <2>1 DEF Requested
  <2> QED
    BY <2>1, <2>2 DEF RequestInv
<1>8. ASSUME NEW c \in Conns, ConsumeInOrder(c) PROVE RequestInv'
  <2>1. /\ \A b \in Agents : last'[b] >= last[b] /\ last[b] \in Nat /\ last'[b] \in Nat
        /\ \A b \in Agents : pending'[b] \subseteq pending[b] /\ pending[b] \subseteq Event
    BY <1>0, <1>8, ConsumeAdvances, NextTypeOK DEF SeqTypeOK, TypeOK
  <2>2. \A b \in Agents : \A j : Requested(b, j) => Requested(b, j)'
    <3>1. UNCHANGED <<asked, expected>> /\ pc[c] # "replay"
          /\ \A d \in Conns \ {c} : pc'[d] = pc[d] /\ ev'[d] = ev[d]
      BY <1>0, <1>8 DEF ConsumeInOrder, ProcTypeOK
    <3> QED
      BY <3>1 DEF Requested
  <2>3. \A b \in Agents : \A e \in pending'[b] : \A j \in (last'[b] + 1)..(e.seq - 1) :
          e \in pending[b] /\ j \in (last[b] + 1)..(e.seq - 1)
    BY <2>1 DEF Event
  <2> QED
    BY <2>2, <2>3 DEF RequestInv
<1> QED
  BY <1>2, <1>3, <1>4, <1>5, <1>6, <1>7, <1>8 DEF Next, Step

\* While each agent has one reading goroutine, buffered events never wait for
\* a number that nobody has asked the agent for, also after consumeInOrder has
\* closed one gap and stopped at the next.
THEOREM GapsAreRequested == ASSUME OneReaderPerAgent PROVE Spec => []HeadRequested
<1>1. Init => RequestInv
  BY DEF Init, RequestInv
<1>2. TypeOK /\ SerialInv /\ RequestInv => HeadRequested
  <2> SUFFICES ASSUME TypeOK, SerialInv, RequestInv, NEW a \in Agents, NEW e \in pending[a],
                      \A c \in Conns : NodeOf[c] = a => pc[c] # "replay"
               PROVE  last[a] + 1 \in asked[a]
    BY DEF HeadRequested
  <2>1. e.seq > last[a] + 1 /\ last[a] \in Nat /\ e.seq \in Nat
    BY PipelineAssumption DEF SerialInv, OnlyWaiting, TypeOK, SeqTypeOK, Event
  <2>2. Requested(a, last[a] + 1)
    BY <2>1 DEF RequestInv
  <2> QED
    BY <2>2 DEF Requested
<1>3. TypeOK /\ SerialInv /\ RequestInv /\ [Next]_vars => RequestInv'
  BY NextRequestInv
<1> QED
  BY <1>1, <1>2, <1>3, TypeCorrect, SerialInvHolds, PTL DEF Spec

-----------------------------------------------------------------------------
(* Storage.  An event passes from out over the queue to the table, and may *)
(* be dropped at each, but none overtakes another: per agent, what is      *)
(* stored is before what is queued, that is before what is consumed, and   *)
(* all of it is at or below the last number.                               *)

\* Within s, an agent's events are in the order of their numbers.
Rising(s) ==
  \A i, j \in 1..Len(s) : (i < j /\ s[i].agent = s[j].agent) => s[i].seq < s[j].seq

\* An agent's events in s have lower numbers than those in t.
Before(s, t) ==
  \A i \in 1..Len(s), j \in 1..Len(t) : s[i].agent = t[j].agent => s[i].seq < t[j].seq

\* No event of s is above the last number of its agent.
UpTo(s, l) == \A i \in 1..Len(s) : s[i].seq <= l[s[i].agent]

\* A goroutine and a buffer have events of their own agent only.
OwnEvents ==
  /\ \A a \in Agents : \A e \in net[a] \cup pending[a] : e.agent = a
  /\ \A c \in Conns : /\ ev[c].agent = NodeOf[c]
                      /\ \A i \in 1..Len(out[c]) : out[c][i].agent = NodeOf[c]

StoreInv ==
  /\ Rising(db) /\ Rising(queue) /\ Before(db, queue)
  /\ \A c \in Conns : Rising(out[c]) /\ Before(db, out[c]) /\ Before(queue, out[c])
  /\ UpTo(db, last) /\ UpTo(queue, last) /\ \A c \in Conns : UpTo(out[c], last)

\* Where the elements of Append(s, Head(t)) and Tail(t) come from.
LEMMA MovedElements ==
  ASSUME NEW s \in Seq(Event), NEW t \in Seq(Event), t # << >>
  PROVE  /\ Head(t) = t[1] /\ 1 \in 1..Len(t) /\ Head(t) \in Event
         /\ Append(s, Head(t)) \in Seq(Event) /\ Tail(t) \in Seq(Event)
         /\ Len(Append(s, Head(t))) = Len(s) + 1 /\ Len(s) \in Nat
         /\ Len(Tail(t)) = Len(t) - 1 /\ Len(t) \in Nat
         /\ \A i \in 1..Len(s) : Append(s, Head(t))[i] = s[i]
         /\ Append(s, Head(t))[Len(s) + 1] = t[1]
         /\ \A i \in 1..Len(Tail(t)) : Tail(t)[i] = t[i + 1] /\ i + 1 \in 1..Len(t)
  OBVIOUS

\* Moving the head of t to the end of s keeps the order within both and
\* between them, and towards a third sequence after both.
LEMMA MoveHead ==
  ASSUME NEW s \in Seq(Event), NEW t \in Seq(Event), t # << >>,
         Rising(s), Rising(t), Before(s, t)
  PROVE  /\ Rising(Append(s, Head(t))) /\ Rising(Tail(t))
         /\ Before(Append(s, Head(t)), Tail(t)) /\ Before(s, Tail(t))
<1> DEFINE A == Append(s, Head(t))
           T == Tail(t)
<1>1. /\ 1 \in 1..Len(t) /\ Len(A) = Len(s) + 1 /\ Len(s) \in Nat
      /\ Len(T) = Len(t) - 1 /\ Len(t) \in Nat
      /\ \A i \in 1..Len(s) : A[i] = s[i]
      /\ A[Len(s) + 1] = t[1]
      /\ \A i \in 1..Len(T) : T[i] = t[i + 1] /\ i + 1 \in 1..Len(t)
  BY MovedElements
<1> HIDE DEF A, T
<1>2. \A i \in 1..Len(A) : i \in 1..Len(s) \/ i = Len(s) + 1
  BY <1>1
<1>3. Rising(A)
  <2> SUFFICES ASSUME NEW i \in 1..Len(A), NEW j \in 1..Len(A), i < j, A[i].agent = A[j].agent
               PROVE  A[i].seq < A[j].seq
    BY DEF Rising
  <2>1. i \in 1..Len(s)
    BY <1>1, <1>2
  <2>2. CASE j \in 1..Len(s)
    BY <1>1, <2>1, <2>2 DEF Rising
  <2>3. CASE j = Len(s) + 1
    BY <1>1, <2>1, <2>3 DEF Before
  <2> QED
    BY <1>2, <2>2, <2>3
<1>4. Rising(T)
  BY <1>1 DEF Rising
<1>5. Before(s, T)
  BY <1>1 DEF Before
<1>6. Before(A, T)
  <2> SUFFICES ASSUME NEW i \in 1..Len(A), NEW j \in 1..Len(T), A[i].agent = T[j].agent
               PROVE  A[i].seq < T[j].seq
    BY DEF Before
  <2>1. CASE i \in 1..Len(s)
    BY <1>1, <1>5, <2>1 DEF Before
  <2>2. CASE i = Len(s) + 1
    <3>1. A[i] = t[1] /\ T[j] = t[j + 1] /\ j + 1 \in 1..Len(t) /\ 1 < j + 1
      BY <1>1, <2>2
    <3> QED
      BY <1>1, <3>1 DEF Rising
  <2> QED
    BY <1>2, <2>1, <2>2
<1> QED
  BY <1>3, <1>4, <1>5, <1>6 DEF A, T

\* The same for a third sequence u after both, and for a number that bounds
\* them.
LEMMA MoveHeadBefore ==
  ASSUME NEW s \in Seq(Event), NEW t \in Seq(Event), t # << >>
  PROVE  /\ \A u \in Seq(Event) : (Before(s, u) /\ Before(t, u)) =>
              Before(Append(s, Head(t)), u) /\ Before(Tail(t), u)
         /\ \A u \in Seq(Event) : (Before(u, s) /\ Before(u, t)) =>
              Before(u, Append(s, Head(t))) /\ Before(u, Tail(t))
         /\ \A l : (UpTo(s, l) /\ UpTo(t, l)) =>
              UpTo(Append(s, Head(t)), l) /\ UpTo(Tail(t), l)
<1> DEFINE A == Append(s, Head(t))
           T == Tail(t)
<1>1. /\ 1 \in 1..Len(t) /\ Len(A) = Len(s) + 1 /\ Len(s) \in Nat
      /\ Len(T) = Len(t) - 1 /\ Len(t) \in Nat
      /\ \A i \in 1..Len(s) : A[i] = s[i]
      /\ A[Len(s) + 1] = t[1]
      /\ \A i \in 1..Len(T) : T[i] = t[i + 1] /\ i + 1 \in 1..Len(t)
  BY MovedElements
<1> HIDE DEF A, T
<1>2. \A i \in 1..Len(A) : (i \in 1..Len(s) /\ A[i] = s[i]) \/ A[i] = t[1]
  BY <1>1
<1>3. ASSUME NEW u \in Seq(Event), Before(s, u), Before(t, u)
      PROVE  Before(A, u) /\ Before(T, u)
  <2>1. ASSUME NEW i \in 1..Len(A), NEW j \in 1..Len(u), A[i].agent = u[j].agent
        PROVE  A[i].seq < u[j].seq
    <3>1. CASE i \in 1..Len(s) /\ A[i] = s[i]
      BY <1>3, <2>1, <3>1 DEF Before
    <3>2. CASE A[i] = t[1]
      BY <1>1, <1>3, <2>1, <3>2 DEF Before
    <3> QED
      BY <1>2, <3>1, <3>2
  <2>2. ASSUME NEW i \in 1..Len(T), NEW j \in 1..Len(u), T[i].agent = u[j].agent
        PROVE  T[i].seq < u[j].seq
    <3>1. T[i] = t[i + 1] /\ i + 1 \in 1..Len(t)
      BY <1>1
    <3> QED
      BY <1>3, <2>2, <3>1 DEF Before
  <2> QED
    BY <2>1, <2>2 DEF Before
<1>4. ASSUME NEW u \in Seq(Event), Before(u, s), Before(u, t)
      PROVE  Before(u, A) /\ Before(u, T)
  <2>1. ASSUME NEW i \in 1..Len(A), NEW j \in 1..Len(u), A[i].agent = u[j].agent
        PROVE  u[j].seq < A[i].seq
    <3>1. CASE i \in 1..Len(s) /\ A[i] = s[i]
      BY <1>4, <2>1, <3>1 DEF Before
    <3>2. CASE A[i] = t[1]
      BY <1>1, <1>4, <2>1, <3>2 DEF Before
    <3> QED
      BY <1>2, <3>1, <3>2
  <2>2. ASSUME NEW i \in 1..Len(T), NEW j \in 1..Len(u), T[i].agent = u[j].agent
        PROVE  u[j].seq < T[i].seq
    <3>1. T[i] = t[i + 1] /\ i + 1 \in 1..Len(t)
      BY <1>1
    <3> QED
      BY <1>4, <2>2, <3>1 DEF Before
  <2> QED
    BY <2>1, <2>2 DEF Before
<1>5. \A l : (UpTo(s, l) /\ UpTo(t, l)) => UpTo(A, l) /\ UpTo(T, l)
  BY <1>1, <1>2 DEF UpTo
<1> QED
  BY <1>3, <1>4, <1>5 DEF A, T

\* Events stay with their agent.
LEMMA NextOwnEvents ==
  ASSUME TypeOK, SerialInv, OwnEvents, [Next]_vars
  PROVE  OwnEvents'
<1> USE PipelineAssumption
<1>0. AgentTypeOK /\ SeqTypeOK /\ ProcTypeOK
  BY DEF TypeOK
<1>1. ASSUME NEW a \in Agents, Wire(a) PROVE OwnEvents'
  <2>1. /\ UNCHANGED <<pending, ev, out>>
        /\ \A b \in Agents : \A e \in net'[b] : e \in net[b] \/ e.agent = b
    BY <1>0, <1>1 DEF Wire, Emit, Resend, AnswerReplay, RestartAgent, Transmit, AgentTypeOK,
       seqVars, procVars
  <2> QED
    BY <2>1 DEF OwnEvents
<1>2. ASSUME NEW c \in Conns, NEW e \in net[NodeOf[c]], DeduplicateEvent(c, e)
      PROVE  OwnEvents'
  <2>1. /\ UNCHANGED <<pending, out>> /\ NodeOf[c] \in Agents
        /\ \A b \in Agents : net'[b] \subseteq net[b]
        /\ \A d \in Conns : ev'[d] = ev[d] \/ (d = c /\ ev'[d] = e)
    BY <1>0, <1>2 DEF DeduplicateEvent, AgentTypeOK, ProcTypeOK
  <2> QED
    BY <2>1 DEF OwnEvents
<1>3. ASSUME NEW c \in Conns, ValidateSequence(c) \/ SendReplayRequest(c) PROVE OwnEvents'
  <2>1. /\ UNCHANGED <<net, pending, out>>
        /\ \A d \in Conns : ev'[d] = ev[d] \/ ev'[d].agent = NodeOf[d]
    BY <1>0, <1>3 DEF ValidateSequence, SendReplayRequest, Return, NoEvent, ProcTypeOK,
       agentVars, seqVars
  <2> QED
    BY <2>1 DEF OwnEvents
<1>4. ASSUME NEW c \in Conns, HandleGap(c) PROVE OwnEvents'
  <2>1. /\ UNCHANGED <<net, ev, out>>
        /\ \A b \in Agents : \A e \in pending'[b] :
             e \in pending[b] \/ (b = NodeOf[c] /\ e = ev[c])
    BY <1>0, <1>4 DEF HandleGap, SeqTypeOK, agentVars
  <2> QED
    BY <2>1 DEF OwnEvents
<1>5. ASSUME NEW c \in Conns, ConsumeInOrder(c) PROVE OwnEvents'
  <2>1. /\ UNCHANGED net
        /\ \A d \in Conns : ev'[d] = ev[d] \/ ev'[d].agent = NodeOf[d]
    BY <1>0, <1>5 DEF ConsumeInOrder, NoEvent, ProcTypeOK, agentVars
  <2>2. /\ \A b \in Agents : pending'[b] \subseteq pending[b]
        /\ \A d \in Conns \ {c} : out'[d] = out[d]
        /\ \A i \in 1..Len(out'[c]) : out'[c][i] \in pending[NodeOf[c]] \cup {ev[c]}
    BY <1>5, ConsumeAdvances
  <2>3. NodeOf[c] \in Agents
    OBVIOUS
  <2> QED
    BY <2>1, <2>2, <2>3 DEF OwnEvents
<1>6. ASSUME NEW c \in Conns, EnqueuePersist(c) PROVE OwnEvents'
  <2>1. /\ UNCHANGED <<net, pending, ev>>
        /\ out[c] \in Seq(Event) /\ out[c] # << >> /\ out'[c] = Tail(out[c])
        /\ \A d \in Conns \ {c} : out'[d] = out[d]
    BY <1>0, <1>6 DEF EnqueuePersist, ProcTypeOK, agentVars, seqVars
  <2>2. \A i \in 1..Len(out'[c]) : out'[c][i] = out[c][i + 1] /\ i + 1 \in 1..Len(out[c])
    BY <2>1, MovedElements
  <2>3. \A i \in 1..Len(out'[c]) : out'[c][i].agent = NodeOf[c]
    BY <2>2 DEF OwnEvents
  <2>4. \A d \in Conns : \A i \in 1..Len(out'[d]) : out'[d][i].agent = NodeOf[d]
    BY <2>1, <2>3 DEF OwnEvents
  <2> QED
    BY <2>1, <2>4 DEF OwnEvents
<1>7. CASE Persist \/ Close \/ UNCHANGED vars
  BY <1>7 DEF Persist, PersistEvent, StopWorker, FinishWorker, Close, vars, agentVars,
     seqVars, procVars, OwnEvents
<1> QED
  BY <1>1, <1>2, <1>3, <1>4, <1>5, <1>6, <1>7 DEF Next, Step

\* StoreInv is inductive with one reader per agent: nobody else enqueues events
\* of an agent between two that its reader enqueues.
LEMMA NextStoreInv ==
  ASSUME OneReaderPerAgent, TypeOK, SerialInv, OwnEvents, StoreInv, [Next]_vars
  PROVE  StoreInv'
<1> USE PipelineAssumption
<1>0. SeqTypeOK /\ ProcTypeOK /\ StoreTypeOK
  BY DEF TypeOK
<1>Types. db \in Seq(Event) /\ queue \in Seq(Event) /\ \A c \in Conns : out[c] \in Seq(Event)
  BY <1>0 DEF ProcTypeOK, StoreTypeOK
<1>1. ASSUME UNCHANGED <<db, queue, out, last>> PROVE StoreInv'
  BY <1>1 DEF StoreInv
<1>2. ASSUME NEW a \in Agents, Wire(a) PROVE UNCHANGED <<db, queue, out, last>>
  BY <1>2 DEF Wire, Emit, Resend, AnswerReplay, RestartAgent, seqVars, procVars, storeVars
<1>3. ASSUME NEW c \in Conns, NEW e \in net[NodeOf[c]], DeduplicateEvent(c, e)
      PROVE  UNCHANGED <<db, queue, out, last>>
  BY <1>3 DEF DeduplicateEvent, storeVars
<1>4. ASSUME NEW c \in Conns, ValidateSequence(c) \/ HandleGap(c) \/ SendReplayRequest(c)
      PROVE  UNCHANGED <<db, queue, out, last>>
  BY <1>4 DEF ValidateSequence, HandleGap, SendReplayRequest, seqVars, storeVars
<1>5. CASE StopWorker \/ FinishWorker \/ Close \/ UNCHANGED vars
  BY <1>1, <1>5 DEF StopWorker, FinishWorker, Close, vars, seqVars, procVars, storeVars
<1>6. CASE PersistEvent
  <2>1. /\ queue # << >> /\ queue' = Tail(queue) /\ UNCHANGED <<out, last>>
        /\ db' = db \/ db' = Append(db, Head(queue))
    BY <1>6 DEF PersistEvent, InsertRow, seqVars, procVars
  <2>2. Rising(db') /\ Rising(queue') /\ Before(db', queue')
    BY <2>1, <1>Types, MoveHead DEF StoreInv
  <2>3. \A c \in Conns : Before(db', out[c]) /\ Before(queue', out[c])
    BY <2>1, <1>Types, MoveHeadBefore DEF StoreInv
  <2>4. UpTo(db', last) /\ UpTo(queue', last)
    BY <2>1, <1>Types, MoveHeadBefore DEF StoreInv
  <2> QED
    BY <2>1, <2>2, <2>3, <2>4 DEF StoreInv
<1>7. ASSUME NEW c \in Conns, EnqueuePersist(c) PROVE StoreInv'
  <2>1. /\ out[c] # << >> /\ UNCHANGED <<db, last>> /\ out'[c] = Tail(out[c])
        /\ \A d \in Conns \ {c} : out'[d] = out[d]
        /\ queue' = queue \/ queue' = Append(queue, Head(out[c]))
    BY <1>0, <1>7 DEF EnqueuePersist, ProcTypeOK, seqVars
  <2>2. Rising(queue') /\ Rising(out'[c]) /\ Before(queue', out'[c])
    BY <2>1, <1>Types, MoveHead DEF StoreInv
  <2>3. Before(db, queue') /\ Before(db, out'[c])
    BY <2>1, <1>Types, MoveHeadBefore DEF StoreInv
  <2>4. UpTo(queue', last) /\ UpTo(out'[c], last)
    BY <2>1, <1>Types, MoveHeadBefore DEF StoreInv
  <2>5. ASSUME NEW d \in Conns \ {c} PROVE Before(queue', out[d])
    <3>1. NodeOf[d] # NodeOf[c]
      BY DEF OneReaderPerAgent
    <3>2. Before(out[c], out[d])
      BY <3>1 DEF OwnEvents, Before
    <3> QED
      BY <2>1, <3>2, <1>Types, MoveHeadBefore DEF StoreInv
  <2> QED
    BY <2>1, <2>2, <2>3, <2>4, <2>5 DEF StoreInv
<1>8. ASSUME NEW c \in Conns, ConsumeInOrder(c) PROVE StoreInv'
  <2> DEFINE a == NodeOf[c]
  <2>1. /\ UNCHANGED <<db, queue>> /\ a \in Agents
        /\ \A b \in Agents : last'[b] >= last[b] /\ last[b] \in Nat /\ last'[b] \in Nat
        /\ \A d \in Conns \ {c} : out'[d] = out[d]
    <3>1. UNCHANGED <<db, queue>> /\ a \in Agents
      BY <1>8 DEF ConsumeInOrder, storeVars
    <3>2. last \in [Agents -> 0..MaxSeq] /\ last' \in [Agents -> 0..MaxSeq]
      BY NextTypeOK DEF TypeOK, SeqTypeOK
    <3>3. /\ \A b \in Agents : last'[b] >= last[b]
          /\ \A d \in Conns \ {c} : out'[d] = out[d]
      BY <1>8, ConsumeAdvances
    <3> QED
      BY <3>1, <3>2, <3>3
  <2>2. /\ \A i \in 1..Len(out'[c]) :
             /\ out'[c][i].agent = a
             /\ out'[c][i].seq > last[a] /\ out'[c][i].seq <= last'[a]
        /\ \A i, j \in 1..Len(out'[c]) : i < j => out'[c][i].seq < out'[c][j].seq
    <3>1. \A i \in 1..Len(out'[c]) : out'[c][i] \in pending[a] \cup {ev[c]}
      BY <1>8, ConsumeAdvances
    <3>2. \A i \in 1..Len(out'[c]) : out'[c][i].agent = a
      BY <2>1, <3>1 DEF OwnEvents
    <3> QED
      BY <1>8, <3>2, ConsumeAdvances
  <2>3. Rising(out'[c]) /\ UpTo(out'[c], last')
    BY <2>2 DEF Rising, UpTo
  <2>4. ASSUME NEW s \in Seq(Event), UpTo(s, last) PROVE Before(s, out'[c]) /\ UpTo(s, last')
    <3>1. \A i \in 1..Len(s) : s[i].agent \in Agents /\ s[i].seq \in Nat
      <4>1. \A i \in 1..Len(s) : s[i] \in Event
        BY <2>4
      <4> QED
        BY <4>1 DEF Event
    <3>2. out'[c] \in Seq(Event)
      BY <1>8, ConsumeAdvances
    <3>3. \A i \in 1..Len(out'[c]) : out'[c][i].seq \in Nat
      <4>1. \A i \in 1..Len(out'[c]) : out'[c][i] \in Event
        BY <3>2
      <4> QED
        BY <4>1 DEF Event
    <3>4. Before(s, out'[c])
      <4> SUFFICES ASSUME NEW i \in 1..Len(s), NEW j \in 1..Len(out'[c]),
                          s[i].agent = out'[c][j].agent
                   PROVE  s[i].seq < out'[c][j].seq
        BY DEF Before
      <4>1. s[i].agent = a /\ out'[c][j].seq > last[a]
        BY <2>2
      <4>2. s[i].seq <= last[a]
        BY <2>4, <4>1 DEF UpTo
      <4> QED
        BY <2>1, <3>1, <3>3, <4>1, <4>2
    <3>5. UpTo(s, last')
      BY <2>1, <2>4, <3>1 DEF UpTo
    <3> QED
      BY <3>4, <3>5
  <2>5. /\ Before(db, out'[c]) /\ Before(queue, out'[c])
        /\ UpTo(db, last') /\ UpTo(queue, last')
        /\ \A d \in Conns \ {c} : UpTo(out[d], last')
    BY <2>4, <1>Types DEF StoreInv
  <2> QED
    BY <2>1, <2>3, <2>5 DEF StoreInv
<1> QED
  BY <1>1, <1>2, <1>3, <1>4, <1>5, <1>6, <1>7, <1>8 DEF Next, Step, Persist

\* While each agent has one reading goroutine, the events table holds every
\* agent's events in the order of their numbers and none twice, whatever the
\* queue drops, whichever INSERTs fail and however agents' events mix in it.
THEOREM StoredInOrder == ASSUME OneReaderPerAgent PROVE Spec => []PersistedInOrder
<1>1. Init => OwnEvents /\ StoreInv
  BY DEF Init, OwnEvents, NoEvent, StoreInv, Rising, Before, UpTo
<1>2. StoreInv => PersistedInOrder
  BY DEF StoreInv, Rising, PersistedInOrder
<1>3. TypeOK /\ SerialInv /\ OwnEvents /\ StoreInv /\ [Next]_vars => OwnEvents' /\ StoreInv'
  BY NextOwnEvents, NextStoreInv
<1> QED
  BY <1>1, <1>2, <1>3, TypeCorrect, SerialInvHolds, PTL DEF Spec
=============================================================================
