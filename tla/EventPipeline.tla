---------------------------- MODULE EventPipeline ----------------------------
(***************************************************************************)
(* The supervisor's event pipeline (internal/supervisor/event_pipeline.go  *)
(* and event_dedup.go).  ProcessEvent is called by the read goroutine of   *)
(* each agent connection; it takes p.mu twice (validateSequence, then      *)
(* handleGap or consumeInOrder), so two goroutines that serve one agent    *)
(* interleave between those critical sections.  Events that are in order   *)
(* are put, outside the lock, on a bounded queue that one goroutine writes *)
(* to the events table.                                                    *)
(*                                                                         *)
(* The agent and the wire are modelled by what the pipeline is exposed to: *)
(* events are emitted in order, may be lost, reordered or sent again after *)
(* a reconnect; a restarted agent numbers its events from 1 again; replay  *)
(* requests are answered from what this incarnation has emitted.           *)
(***************************************************************************)
EXTENDS Integers, Sequences, FiniteSets

CONSTANTS Agents,       \* node ids
          Conns,        \* goroutines that call ProcessEvent, one per connection
          NodeOf,       \* NodeOf[c]: the agent whose events goroutine c reads
          MaxSeq,       \* bound: events one incarnation of an agent emits
          MaxInc,       \* bound: incarnations of an agent
          WireCap,      \* bound: events of one agent on the wire at a time
          DedupCap,     \* dedupCacheSizePerAgent
          QueueCap,     \* persistQueueSize
          SendMayFail   \* may sendReplayRequest or an INSERT return an error?

ASSUME PipelineAssumption ==
  /\ NodeOf \in [Conns -> Agents]
  /\ MaxSeq \in Nat /\ MaxInc \in Nat \ {0} /\ WireCap \in Nat
  /\ DedupCap \in Nat \ {0}
  /\ QueueCap \in Nat \ {0}
  /\ SendMayFail \in BOOLEAN

\* An event; its id is unique to the agent, the incarnation and the number,
\* so equal events have equal ids.  Seq 0 is an event without a number.
Event == [agent : Agents, inc : 1..MaxInc, seq : 0..MaxSeq]

VARIABLES
  emitted,      \* emitted[a]: how many events this incarnation of a emitted
  inc,          \* inc[a]: the incarnation of agent a
  net,          \* net[a]: events of a on the wire
  replay,       \* replay[a]: sequence numbers a was asked to send again
  dedup,        \* dedup[a]: ids in a's dedup cache, oldest first
  last,         \* agentSequences
  pending,      \* pendingEvents: out-of-order events, at most one per number
  pc, ev,       \* where goroutine c is in ProcessEvent, and its event
  expected,     \* the local variable of handleGap
  out,          \* events goroutine c has consumed and not yet enqueued
  queue,        \* persistQueue
  worker,       \* persistWorker: "run", "drain" after stopCh, "done"
  stopped,      \* stopCh is closed
  db,           \* the events table, in insertion order
  consumed,     \* history: events handed on by consumeInOrder, per agent
  asked,        \* history: numbers some replay request covered, per agent
  owed          \* history: what was queued at Close and is not yet taken off

agentVars == <<emitted, inc, net, replay>>
seqVars   == <<dedup, last, pending, consumed>>
procVars  == <<pc, ev, expected, out, asked>>
storeVars == <<queue, worker, stopped, db, owed>>
vars == <<agentVars, seqVars, procVars, storeVars>>

-----------------------------------------------------------------------------
(* Operators on the pipeline's data.                                       *)

Seqs(P) == {e.seq : e \in P}

\* The first number after s that is not buffered in P.
FirstMissing(P, s) ==
  CHOOSE k \in (s + 1)..(MaxSeq + 1) :
    k \notin Seqs(P) /\ \A j \in (s + 1)..(k - 1) : j \in Seqs(P)

\* The buffered event numbered k.
EventAt(P, k) == CHOOSE e \in P : e.seq = k

\* The run consumeInOrder returns: `first' and the buffered events that follow.
OrderedRun(P, first) ==
  [i \in 1..(FirstMissing(P, first.seq) - first.seq) |->
     IF i = 1 THEN first ELSE EventAt(P, first.seq + i - 1)]

\* Mutant of Remember: the cache is never trimmed.
RememberAll(cache, e) == Append(cache, e)

\* What a dedup cache holds once it has seen event e: at its capacity the
\* oldest entry goes (Contains does not refresh an entry's age).
Remember(cache, e) ==
  Append(IF Len(cache) = DedupCap THEN Tail(cache) ELSE cache, e)

InCache(cache, e) == \E i \in 1..Len(cache) : cache[i] = e

-----------------------------------------------------------------------------
(* The agent and the wire.                                                 *)

\* The event numbered s of a's present incarnation goes on the wire.
Transmit(a, s) ==
  /\ Cardinality(net[a]) < WireCap
  /\ net' = [net EXCEPT ![a] = @ \cup
               {[agent |-> a, inc |-> inc[a], seq |-> s]}]

\* The agent emits its next event, which reaches the wire or is lost.
Emit(a) ==
  /\ emitted[a] < MaxSeq
  /\ emitted' = [emitted EXCEPT ![a] = @ + 1]
  /\ Transmit(a, emitted[a] + 1) \/ net' = net
  /\ UNCHANGED <<inc, replay, seqVars, procVars, storeVars>>

\* The agent sends again an event it has emitted, as it does with the
\* unacknowledged ones after a reconnect, or sends one without a number.
Resend(a, s) ==
  /\ s <= emitted[a]
  /\ Transmit(a, s)
  /\ UNCHANGED <<emitted, inc, replay, seqVars, procVars, storeVars>>

\* The agent answers a replay request for number s.
AnswerReplay(a, s) ==
  /\ s \in replay[a] /\ s <= emitted[a]
  /\ replay' = [replay EXCEPT ![a] = @ \ {s}]
  /\ Transmit(a, s)
  /\ UNCHANGED <<emitted, inc, seqVars, procVars, storeVars>>

\* The agent process restarts and numbers its events from 1 again.
RestartAgent(a) ==
  /\ inc[a] < MaxInc
  /\ inc' = [inc EXCEPT ![a] = @ + 1]
  /\ emitted' = [emitted EXCEPT ![a] = 0]
  /\ UNCHANGED <<net, replay, seqVars, procVars, storeVars>>

-----------------------------------------------------------------------------
(* ProcessEvent.                                                           *)

\* The value of a goroutine's event variable outside ProcessEvent.
NoEvent(c) == [agent |-> NodeOf[c], inc |-> 1, seq |-> 0]

\* ProcessEvent returns: its local variables are gone.
Return(c) ==
  /\ pc' = [pc EXCEPT ![c] = "idle"]
  /\ ev' = [ev EXCEPT ![c] = NoEvent(c)]

\* Read an event from the connection and look it up in the dedup cache.
DeduplicateEvent(c, e) ==
  LET a == NodeOf[c] IN
  /\ pc[c] = "idle" /\ e \in net[a]
  /\ net' = [net EXCEPT ![a] = @ \ {e}]
  /\ \/ /\ InCache(dedup[a], e)
        /\ UNCHANGED <<dedup, pc, ev>>
     \/ /\ ~ InCache(dedup[a], e)
        /\ dedup' = [dedup EXCEPT ![a] = Remember(@, e)]
        /\ pc' = [pc EXCEPT ![c] = "validate"]
        /\ ev' = [ev EXCEPT ![c] = e]
  /\ UNCHANGED <<emitted, inc, replay, last, pending, consumed,
                 expected, out, asked, storeVars>>

\* Mutants of ValidateSequence: the last number is taken for the next one; an
\* event after a gap is taken for the next one.
ValidateSequenceOffByOne(c) ==
  LET seq == ev[c].seq
      next == last[NodeOf[c]] + 1 IN
  /\ pc[c] = "validate"
  /\ \/ (seq = 0 \/ seq < next - 1) /\ Return(c)
     \/ seq > next /\ pc' = [pc EXCEPT ![c] = "gap"] /\ UNCHANGED ev
     \/ seq \in {next - 1, next} \ {0} /\ pc' = [pc EXCEPT ![c] = "match"] /\ UNCHANGED ev
  /\ UNCHANGED <<agentVars, seqVars, expected, out, asked, storeVars>>

ValidateSequenceLax(c) ==
  LET seq == ev[c].seq
      next == last[NodeOf[c]] + 1 IN
  /\ pc[c] = "validate"
  /\ \/ (seq = 0 \/ seq < next) /\ Return(c)
     \/ seq >= next /\ pc' = [pc EXCEPT ![c] = "match"] /\ UNCHANGED ev
  /\ UNCHANGED <<agentVars, seqVars, expected, out, asked, storeVars>>

\* Compare the event's number with the one expected; the lock is released.
ValidateSequence(c) ==
  LET seq == ev[c].seq
      next == last[NodeOf[c]] + 1
      GoTo(label) == /\ pc' = [pc EXCEPT ![c] = label]
                     /\ UNCHANGED ev IN
  /\ pc[c] = "validate"
  /\ \/ (seq = 0 \/ seq < next) /\ Return(c)
     \/ seq > next /\ GoTo("gap")
     \/ seq = next /\ GoTo("match")
  /\ UNCHANGED <<agentVars, seqVars, expected, out, asked, storeVars>>

\* Mutant of HandleGap: the range starts after the first missing number.
HandleGapLate(c) ==
  LET a == NodeOf[c] IN
  /\ pc[c] = "gap"
  /\ expected' = [expected EXCEPT ![c] = last[a] + 2]
  /\ pending' = [pending EXCEPT ![a] = {e \in @ : e.seq # ev[c].seq} \cup {ev[c]}]
  /\ pc' = [pc EXCEPT ![c] = "replay"]
  /\ UNCHANGED <<agentVars, dedup, last, consumed, ev, out, asked, storeVars>>

\* The locked part of handleGap: buffer the event under its number.
HandleGap(c) ==
  LET a == NodeOf[c] IN
  /\ pc[c] = "gap"
  /\ expected' = [expected EXCEPT ![c] = last[a] + 1]
  /\ pending' = [pending EXCEPT ![a] = {e \in @ : e.seq # ev[c].seq} \cup {ev[c]}]
  /\ pc' = [pc EXCEPT ![c] = "replay"]
  /\ UNCHANGED <<agentVars, dedup, last, consumed, ev, out, asked, storeVars>>

\* Mutant of SendReplayRequest: the first number of the range is left out.
SendReplayRequestShort(c) ==
  LET a == NodeOf[c]
      range == (expected[c] + 1)..(ev[c].seq - 1) IN
  /\ pc[c] = "replay"
  /\ asked' = [asked EXCEPT ![a] = @ \cup range]
  /\ replay' = [replay EXCEPT ![a] = @ \cup range]
  /\ expected' = [expected EXCEPT ![c] = 0]
  /\ Return(c)
  /\ UNCHANGED <<emitted, inc, net, seqVars, out, storeVars>>

\* The rest of handleGap: ask the agent for expected .. Seq-1; an error of
\* the sender is logged and the request is not repeated.
SendReplayRequest(c) ==
  LET a == NodeOf[c]
      range == expected[c]..(ev[c].seq - 1) IN
  /\ pc[c] = "replay"
  /\ asked' = [asked EXCEPT ![a] = @ \cup range]
  /\ \/ replay' = [replay EXCEPT ![a] = @ \cup range]
     \/ SendMayFail /\ replay' = replay
  /\ expected' = [expected EXCEPT ![c] = 0]
  /\ Return(c)
  /\ UNCHANGED <<emitted, inc, net, seqVars, out, storeVars>>

\* Mutant of ConsumeInOrder: drained events stay in the buffer.
ConsumeKeepsBuffer(c) ==
  LET a == NodeOf[c]
      run == OrderedRun(pending[a], ev[c]) IN
  /\ pc[c] = "match"
  /\ last' = [last EXCEPT ![a] = FirstMissing(pending[a], ev[c].seq) - 1]
  /\ consumed' = [consumed EXCEPT ![a] = @ \o run]
  /\ out' = [out EXCEPT ![c] = run]
  /\ pc' = [pc EXCEPT ![c] = "enqueue"]
  /\ ev' = [ev EXCEPT ![c] = NoEvent(c)]
  /\ UNCHANGED <<agentVars, dedup, pending, expected, asked, storeVars>>

\* consumeInOrder, one critical section: it sets agentSequences to the
\* event's number without looking at it again, then drains the buffer.
ConsumeInOrder(c) ==
  LET a == NodeOf[c]
      run == OrderedRun(pending[a], ev[c])
      newLast == FirstMissing(pending[a], ev[c].seq) - 1 IN
  /\ pc[c] = "match"
  /\ last' = [last EXCEPT ![a] = newLast]
  /\ pending' = [pending EXCEPT ![a] =
                   {e \in @ : e.seq \notin (ev[c].seq + 1)..newLast}]
  /\ consumed' = [consumed EXCEPT ![a] = @ \o run]
  /\ out' = [out EXCEPT ![c] = run]
  /\ pc' = [pc EXCEPT ![c] = "enqueue"]
  /\ ev' = [ev EXCEPT ![c] = NoEvent(c)]
  /\ UNCHANGED <<agentVars, dedup, expected, asked, storeVars>>

\* Mutant of EnqueuePersist: the consumed events are taken from the end.
EnqueueBackwards(c) ==
  /\ pc[c] = "enqueue"
  /\ out[c] # << >>
  /\ queue' = IF Len(queue) < QueueCap THEN Append(queue, out[c][Len(out[c])]) ELSE queue
  /\ out' = [out EXCEPT ![c] = SubSeq(@, 1, Len(@) - 1)]
  /\ pc' = [pc EXCEPT ![c] = IF Len(out[c]) = 1 THEN "idle" ELSE @]
  /\ UNCHANGED <<agentVars, seqVars, ev, expected, asked, worker, stopped, db, owed>>

\* enqueuePersist of the next consumed event: a full queue drops it.
EnqueuePersist(c) ==
  /\ pc[c] = "enqueue"
  /\ out[c] # << >>
  /\ queue' = IF Len(queue) < QueueCap THEN Append(queue, Head(out[c])) ELSE queue
  /\ out' = [out EXCEPT ![c] = Tail(@)]
  /\ pc' = [pc EXCEPT ![c] = IF Len(out[c]) = 1 THEN "idle" ELSE @]
  /\ UNCHANGED <<agentVars, seqVars, ev, expected, asked, worker, stopped, db, owed>>

-----------------------------------------------------------------------------
(* persistWorker and Close.                                                *)

\* persistEvent: INSERT fails on a duplicate id (and on an I/O error).
InsertRow(e) ==
  \/ db' = IF InCache(db, e) THEN db ELSE Append(db, e)
  \/ SendMayFail /\ db' = db

\* Take one event off the queue and write it.
PersistEvent ==
  /\ worker \in {"run", "drain"}
  /\ queue # << >>
  /\ InsertRow(Head(queue))
  /\ queue' = Tail(queue)
  /\ owed' = IF owed = << >> THEN owed ELSE Tail(owed)
  /\ UNCHANGED <<agentVars, seqVars, procVars, worker, stopped>>

\* The worker sees the closed stop channel (select may pick it at any time).
StopWorker ==
  /\ worker = "run" /\ stopped
  /\ worker' = "drain"
  /\ UNCHANGED <<agentVars, seqVars, procVars, queue, stopped, db, owed>>

\* Mutant of FinishWorker: the worker returns without draining the queue.
FinishAtOnce ==
  /\ worker = "drain"
  /\ worker' = "done"
  /\ UNCHANGED <<agentVars, seqVars, procVars, queue, stopped, db, owed>>

\* The drain loop's default case: the queue is empty, the worker returns.
FinishWorker ==
  /\ worker = "drain" /\ queue = << >>
  /\ worker' = "done"
  /\ UNCHANGED <<agentVars, seqVars, procVars, queue, stopped, db, owed>>

\* Close closes stopCh (and then waits for the worker).
Close ==
  /\ ~ stopped
  /\ stopped' = TRUE
  /\ owed' = queue
  /\ UNCHANGED <<agentVars, seqVars, procVars, queue, worker, db>>

-----------------------------------------------------------------------------
Init ==
  /\ emitted = [a \in Agents |-> 0] /\ inc = [a \in Agents |-> 1]
  /\ net = [a \in Agents |-> {}] /\ replay = [a \in Agents |-> {}]
  /\ dedup = [a \in Agents |-> << >>] /\ last = [a \in Agents |-> 0]
  /\ pending = [a \in Agents |-> {}] /\ consumed = [a \in Agents |-> << >>]
  /\ asked = [a \in Agents |-> {}]
  /\ pc = [c \in Conns |-> "idle"] /\ expected = [c \in Conns |-> 0]
  /\ ev = [c \in Conns |-> NoEvent(c)]
  /\ out = [c \in Conns |-> << >>]
  /\ queue = << >> /\ worker = "run" /\ stopped = FALSE
  /\ db = << >> /\ owed = << >>

Wire(a) ==
  \/ Emit(a) \/ RestartAgent(a)
  \/ \E s \in 0..MaxSeq : Resend(a, s) \/ AnswerReplay(a, s)

Step(c) ==
  \/ ValidateSequence(c) \/ HandleGap(c) \/ SendReplayRequest(c)
  \/ ConsumeInOrder(c) \/ EnqueuePersist(c)

Persist == PersistEvent \/ StopWorker \/ FinishWorker

Next ==
  \/ \E a \in Agents : Wire(a)
  \/ \E c \in Conns : Step(c) \/ \E e \in net[NodeOf[c]] : DeduplicateEvent(c, e)
  \/ Persist
  \/ Close

Spec == Init /\ [][Next]_vars

\* Each agent's events are processed by one goroutine at a time, as they are
\* as long as no two connections of an agent overlap.
OneReaderPerAgent == \A c, d \in Conns : NodeOf[c] = NodeOf[d] => c = d

\* Goroutines keep running, TCP delivers what is on the wire, and the agent
\* answers replay requests.
Fairness ==
  /\ \A c \in Conns :
       /\ WF_vars(Step(c))
       /\ \A i \in 1..MaxInc, s \in 0..MaxSeq :
            SF_vars(DeduplicateEvent(c, [agent |-> NodeOf[c], inc |-> i, seq |-> s]))
  /\ \A a \in Agents, s \in 1..MaxSeq : SF_vars(AnswerReplay(a, s))
  /\ WF_vars(Persist)

FairSpec == Spec /\ Fairness

-----------------------------------------------------------------------------
(* Properties.                                                             *)

AgentTypeOK ==
  /\ emitted \in [Agents -> 0..MaxSeq] /\ inc \in [Agents -> 1..MaxInc]
  /\ net \in [Agents -> SUBSET Event] /\ replay \in [Agents -> SUBSET Int]

SeqTypeOK ==
  /\ dedup \in [Agents -> Seq(Event)]
  /\ \A a \in Agents : Len(dedup[a]) <= DedupCap
  /\ last \in [Agents -> 0..MaxSeq] /\ pending \in [Agents -> SUBSET Event]
  /\ consumed \in [Agents -> Seq(Event)]

ProcTypeOK ==
  /\ pc \in [Conns -> {"idle", "validate", "gap", "replay", "match", "enqueue"}]
  /\ ev \in [Conns -> Event] /\ expected \in [Conns -> 0..(MaxSeq + 1)]
  /\ out \in [Conns -> Seq(Event)] /\ asked \in [Agents -> SUBSET Int]

StoreTypeOK ==
  /\ queue \in Seq(Event) /\ Len(queue) <= QueueCap
  /\ worker \in {"run", "drain", "done"} /\ stopped \in BOOLEAN
  /\ db \in Seq(Event) /\ owed \in Seq(Event)

\* The state has the shape the Go types give it, and the dedup caches and the
\* persist queue never exceed their capacities.
TypeOK == AgentTypeOK /\ SeqTypeOK /\ ProcTypeOK /\ StoreTypeOK

\* consumeInOrder hands on each agent's events numbered 1, 2, 3, ... with no
\* number missing or repeated, and agentSequences is the number of the last one.
InOrder ==
  \A a \in Agents :
    /\ Len(consumed[a]) = last[a]
    /\ \A i \in 1..Len(consumed[a]) : consumed[a][i].seq = i

\* The buffer of handleGap only holds events that still wait for an earlier
\* one: consumeInOrder leaves no event behind that it could have handed on.
OnlyWaiting ==
  \A a \in Agents : \A e \in pending[a] : e.seq > last[a] + 1

\* The verdict of validateSequence, reached in one critical section, is still
\* right in the next one, where handleGap or consumeInOrder acts on it.
VerdictHolds ==
  \A c \in Conns :
    /\ pc[c] = "match" => ev[c].seq = last[NodeOf[c]] + 1
    /\ pc[c] = "gap" => ev[c].seq > last[NodeOf[c]] + 1

\* The inductive invariant behind the order of consumption.
SerialInv == InOrder /\ OnlyWaiting /\ VerdictHolds

\* When an agent's events are buffered, the number they wait for has been
\* covered by a replay request (or a goroutine is about to send it).
HeadRequested ==
  \A a \in Agents :
    (pending[a] # {} /\ \A c \in Conns : NodeOf[c] = a => pc[c] # "replay")
      => last[a] + 1 \in asked[a]

\* An agent's rows are inserted in the order of their numbers, each once,
\* although the events pass through out, a lossy queue and the worker.
PersistedInOrder ==
  \A i, j \in 1..Len(db) :
    (i < j /\ db[i].agent = db[j].agent) => db[i].seq < db[j].seq

\* Close loses nothing it accepted: when the worker has returned, every event
\* that was queued at the time of Close has been taken off and written (or its
\* INSERT has failed).
CloseDrains == worker = "done" => owed = << >>

\* The numbers of the events handed on, per agent.
consumedSeqs ==
  [a \in Agents |-> [i \in 1..Len(consumed[a]) |-> consumed[a][i].seq]]

OD == INSTANCE OrderedDelivery WITH log <- consumedSeqs

\* The numbers of the events consumeInOrder hands on behave as OrderedDelivery
\* promises: each step extends an agent's log by the numbers that follow.
ImplementsOrderedDelivery == OD!Spec

\* A gap is eventually closed: once the missing events are replayed, every
\* buffered event is handed on and the buffer is empty again.
GapsClose == \A a \in Agents : pending[a] # {} ~> pending[a] = {}
=============================================================================
