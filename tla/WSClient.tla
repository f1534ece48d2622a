------------------------------ MODULE WSClient ------------------------------
(***************************************************************************)
(* The agent's connection to the supervisor (internal/agent/wsclient.go):  *)
(* the connect loop, the snapshot and the resend of unacknowledged events  *)
(* on every connect, SendEvent from other goroutines, acknowledgements and *)
(* Close.                                                                  *)
(*                                                                         *)
(* A step is a critical section of connMu, seqMu or pendingMu, a blocking  *)
(* call, or a test of the context.  Sockets are numbered in the order in   *)
(* which they are dialled.  A socket is "broken" from the moment the       *)
(* network or the peer loses what is written to it: its reads fail, its    *)
(* writes may fail or seem to succeed.  What is written to a socket that   *)
(* is "up" arrives.  Envelopes other than events are left out: a command   *)
(* or another message from the supervisor keeps the loop busy for a while. *)
(* The buffer of events is the set of their numbers: the code resends in   *)
(* the order of the appends, which two senders do not make in the order of *)
(* their numbers, and here in any order.                                   *)
(***************************************************************************)
EXTENDS Integers

CONSTANTS Senders,   \* goroutines that call SendEvent
          MaxSeq,    \* bound on events
          MaxConns   \* bound on connections dialled

ASSUME ClientAssumption == MaxSeq \in Nat /\ MaxConns \in Nat

Numbers == 1..MaxSeq
Sockets == 1..MaxConns

VARIABLES
  ctxDone,    \* the context of the connect loop is cancelled
  loop,       \* where connectLoop is
  dialled,    \* sockets dialled so far; the last one is the loop's
  sock,       \* sock[k]: "none", "up", "broken" or "closed"
  conn,       \* c.conn, 0 for nil
  toResend,   \* events resendPendingEvents has copied and not yet sent
  nextSeq,    \* c.nextSeq
  pending,    \* c.pendingEvents, by number
  lastAcked,  \* c.lastAckedSeq
  sender,     \* sender[s]: "idle", "append" or "send"
  seq,        \* seq[s]: the number SendEvent of s has taken
  closer,     \* Close: "idle", "cancelled", "waiting" or "returned"
  arrived     \* arrived[k]: numbers of the events that arrived on socket k

connVars == <<dialled, sock, conn, arrived>>
loopVars == <<ctxDone, loop, toResend, closer>>
eventVars == <<nextSeq, pending, lastAcked, sender, seq>>
vars == <<connVars, loopVars, eventVars>>

-----------------------------------------------------------------------------
\* closeConn: c.conn is closed and forgotten.
CloseConn ==
  /\ sock' = IF conn = 0 THEN sock ELSE [sock EXCEPT ![conn] = "closed"]
  /\ conn' = 0
  /\ UNCHANGED <<dialled, arrived>>

\* SendEnvelope of event q succeeds: it arrives if the socket works.
SendSucceeds(q) ==
  /\ conn # 0
  /\ arrived' = IF sock[conn] = "up" THEN [arrived EXCEPT ![conn] = @ \cup {q}] ELSE arrived
  /\ UNCHANGED <<dialled, sock, conn>>

\* SendEnvelope fails: there is no connection or the socket is broken.
SendFails == IF conn = 0 THEN TRUE ELSE sock[conn] = "broken"

\* Numbers that have arrived on some connection.
Arrived == UNION {arrived[k] : k \in Sockets}

-----------------------------------------------------------------------------
(* connectLoop and dialAndServe.                                           *)

\* DialContext returns a connection; a cancelled context makes it fail.
DialSucceeds ==
  /\ loop = "dial" /\ ~ ctxDone /\ dialled < MaxConns
  /\ dialled' = dialled + 1
  /\ sock' = [sock EXCEPT ![dialled'] = "up"]
  /\ loop' = "dialled"
  /\ UNCHANGED <<conn, arrived, ctxDone, toResend, closer, eventVars>>

\* dialAndServe returns to connectLoop, which ends when the context is
\* cancelled and waits otherwise.
Leave == loop' = IF ctxDone THEN "done" ELSE "wait"

DialFails ==
  /\ loop = "dial" /\ Leave
  /\ UNCHANGED <<connVars, ctxDone, toResend, closer, eventVars>>

\* c.conn = conn.  A former connection is not closed.
StoreConn ==
  /\ loop = "dialled"
  /\ conn' = dialled
  /\ loop' = "snapshot"
  /\ UNCHANGED <<dialled, sock, arrived, ctxDone, toResend, closer, eventVars>>

\* sendSnapshot and runOnConnectHooks: envelopes that are not events, or
\* nothing when no provider and no hook is set.
SendSetup(from, to) ==
  /\ loop = from /\ loop' = to
  /\ UNCHANGED <<connVars, ctxDone, toResend, closer, eventVars>>

SendSnapshot == SendSetup("snapshot", "copy")
RunOnConnectHooks == SendSetup("hooks", "check")

\* Mutant of CopyPending: the last event is left out.
CopyAllButLast ==
  /\ loop = "copy" /\ loop' = "resend"
  /\ toResend' = {n \in pending : \E m \in pending : n < m}
  /\ UNCHANGED <<connVars, ctxDone, closer, eventVars>>

\* resendPendingEvents copies the buffer under pendingMu ...
CopyPending ==
  /\ loop = "copy" /\ loop' = "resend"
  /\ toResend' = pending
  /\ UNCHANGED <<connVars, ctxDone, closer, eventVars>>

\* ... and sends the copy, one SendEnvelope after the other.
ResendNext(n) ==
  /\ loop = "resend" /\ n \in toResend
  /\ SendSucceeds(n)
  /\ toResend' = toResend \ {n}
  /\ UNCHANGED <<ctxDone, loop, closer, eventVars>>

ResendDone ==
  /\ loop = "resend" /\ toResend = {} /\ loop' = "hooks"
  /\ UNCHANGED <<connVars, ctxDone, toResend, closer, eventVars>>

\* The snapshot, a resend or a hook fails: the connection is closed.
SetupFails ==
  /\ loop \in {"snapshot", "hooks"} \/ (loop = "resend" /\ toResend # {})
  /\ SendFails
  /\ CloseConn /\ Leave /\ toResend' = {}
  /\ UNCHANGED <<ctxDone, closer, eventVars>>

\* Mutant of CheckContext: the context is not tested.
CheckNothing ==
  /\ loop = "check" /\ loop' = "fetch"
  /\ UNCHANGED <<connVars, ctxDone, toResend, closer, eventVars>>

\* readLoop tests the context ...
CheckContext ==
  /\ loop = "check"
  /\ loop' = IF ctxDone THEN "done" ELSE "fetch"
  /\ UNCHANGED <<connVars, ctxDone, toResend, closer, eventVars>>

\* ... and reads c.conn.
FetchConn ==
  /\ loop = "fetch"
  /\ IF conn = 0 THEN Leave ELSE loop' = "read"
  /\ UNCHANGED <<connVars, ctxDone, toResend, closer, eventVars>>

\* ReadMessage returns an envelope, which keeps handleCommand or the message
\* handler busy; the latter may acknowledge events.
ReadMessage ==
  /\ loop = "read" /\ sock[dialled] = "up"
  /\ loop' = "handle"
  /\ UNCHANGED <<connVars, ctxDone, toResend, closer, eventVars>>

HandlerReturns ==
  /\ loop = "handle" /\ loop' = "check"
  /\ UNCHANGED <<connVars, ctxDone, toResend, closer, eventVars>>

\* ReadMessage fails: dialAndServe returns and leaves c.conn as it is.
ReadFails ==
  /\ loop = "read" /\ sock[dialled] # "up" /\ Leave
  /\ UNCHANGED <<connVars, ctxDone, toResend, closer, eventVars>>

\* select: the wait of the backoff is over, or the context is cancelled.
WaitOver ==
  /\ loop = "wait" /\ loop' = "dial"
  /\ UNCHANGED <<connVars, ctxDone, toResend, closer, eventVars>>

WaitCancelled ==
  /\ loop = "wait" /\ ctxDone /\ loop' = "done"
  /\ UNCHANGED <<connVars, ctxDone, toResend, closer, eventVars>>

-----------------------------------------------------------------------------
(* SendEvent, and AcknowledgeSeq as a message handler would call it.       *)

\* SendEvent takes the next number ...
TakeSeq(s) ==
  /\ sender[s] = "idle" /\ nextSeq <= MaxSeq
  /\ seq' = [seq EXCEPT ![s] = nextSeq]
  /\ nextSeq' = nextSeq + 1
  /\ sender' = [sender EXCEPT ![s] = "append"]
  /\ UNCHANGED <<connVars, loopVars, pending, lastAcked>>

\* Mutant of AppendPending: only an event sent without a connection is kept.
AppendIfDisconnected(s) ==
  /\ sender[s] = "append"
  /\ pending' = IF conn = 0 THEN pending \cup {seq[s]} ELSE pending
  /\ sender' = [sender EXCEPT ![s] = "send"]
  /\ UNCHANGED <<connVars, loopVars, nextSeq, lastAcked, seq>>

\* ... buffers the event ...
AppendPending(s) ==
  /\ sender[s] = "append"
  /\ pending' = pending \cup {seq[s]}
  /\ sender' = [sender EXCEPT ![s] = "send"]
  /\ UNCHANGED <<connVars, loopVars, nextSeq, lastAcked, seq>>

\* ... and sends it.  An error is returned to the caller; the event stays
\* buffered.
SendEvent(s) ==
  /\ sender[s] = "send"
  /\ SendSucceeds(seq[s]) \/ (SendFails /\ UNCHANGED connVars)
  /\ sender' = [sender EXCEPT ![s] = "idle"]
  /\ UNCHANGED <<loopVars, nextSeq, pending, lastAcked, seq>>

\* Mutant of AcknowledgeSeq: one event too many is dropped.
AcknowledgeNext(q) ==
  /\ loop = "handle"
  /\ 1..q \subseteq Arrived
  /\ lastAcked' = q
  /\ pending' = {n \in pending : n > q + 1}
  /\ UNCHANGED <<connVars, loopVars, nextSeq, sender, seq>>

\* The supervisor acknowledges q, having received all events up to it.
AcknowledgeSeq(q) ==
  /\ loop = "handle"
  /\ 1..q \subseteq Arrived
  /\ lastAcked' = q
  /\ pending' = {n \in pending : n > q}
  /\ UNCHANGED <<connVars, loopVars, nextSeq, sender, seq>>

-----------------------------------------------------------------------------
(* Close.                                                                  *)

\* Close cancels the context ...
Cancel ==
  /\ closer = "idle" /\ closer' = "cancelled"
  /\ ctxDone' = TRUE
  /\ UNCHANGED <<connVars, loop, toResend, eventVars>>

\* ... closes the connection there is ...
CloseActive ==
  /\ closer = "cancelled" /\ closer' = "waiting"
  /\ CloseConn
  /\ UNCHANGED <<ctxDone, loop, toResend, eventVars>>

\* ... and waits for connectLoop to end.
CloseReturns ==
  /\ closer = "waiting" /\ loop = "done" /\ closer' = "returned"
  /\ UNCHANGED <<connVars, ctxDone, loop, toResend, eventVars>>

\* The network or the supervisor drops a connection.  The last one of the
\* instance lasts.
Break(k) ==
  /\ sock[k] = "up" /\ k < MaxConns
  /\ sock' = [sock EXCEPT ![k] = "broken"]
  /\ UNCHANGED <<dialled, conn, arrived, loopVars, eventVars>>

-----------------------------------------------------------------------------
Init ==
  /\ ctxDone = FALSE /\ loop = "dial" /\ toResend = {} /\ closer = "idle"
  /\ dialled = 0 /\ conn = 0
  /\ sock = [k \in Sockets |-> "none"] /\ arrived = [k \in Sockets |-> {}]
  /\ nextSeq = 1 /\ pending = {} /\ lastAcked = 0
  /\ sender = [s \in Senders |-> "idle"] /\ seq = [s \in Senders |-> 0]

Setup ==
  \/ StoreConn \/ SendSnapshot \/ CopyPending \/ ResendDone
  \/ RunOnConnectHooks \/ SetupFails \/ \E n \in Numbers : ResendNext(n)

Serve == CheckContext \/ FetchConn \/ HandlerReturns \/ ReadFails

Reconnect == DialFails \/ WaitOver \/ WaitCancelled

Closing == CloseActive \/ CloseReturns

Sending(s) == AppendPending(s) \/ SendEvent(s)

Next ==
  \/ DialSucceeds \/ Reconnect \/ Setup \/ Serve \/ ReadMessage
  \/ \E s \in Senders : TakeSeq(s) \/ Sending(s)
  \/ \E q \in Numbers : AcknowledgeSeq(q)
  \/ Cancel \/ Closing
  \/ \E k \in Sockets : Break(k)

Spec == Init /\ [][Next]_vars

\* The goroutines run; a dial that may succeed again and again does; the
\* network, the supervisor and the decision to close are not obliged to
\* anything.
Fairness ==
  /\ WF_vars(Reconnect \/ Setup \/ Serve) /\ SF_vars(DialSucceeds)
  /\ WF_vars(Closing)
  /\ \A s \in Senders : WF_vars(Sending(s))

FairSpec == Spec /\ Fairness

-----------------------------------------------------------------------------
(* Properties.                                                             *)

\* The state has the shape the Go types give it; numbers start at 1, SendEvent
\* holds one that was given out, and c.conn is a socket that was dialled.
TypeOK ==
  /\ ctxDone \in BOOLEAN
  /\ loop \in {"dial", "dialled", "snapshot", "copy", "resend", "hooks", "check",
               "fetch", "read", "handle", "wait", "done"}
  /\ dialled \in 0..MaxConns /\ conn \in 0..dialled
  /\ sock \in [Sockets -> {"none", "up", "broken", "closed"}]
  /\ arrived \in [Sockets -> SUBSET Numbers]
  /\ toResend \in SUBSET Numbers /\ pending \in SUBSET Numbers
  /\ nextSeq \in 1..(MaxSeq + 1) /\ lastAcked \in 0..MaxSeq
  /\ sender \in [Senders -> {"idle", "append", "send"}]
  /\ seq \in [Senders -> 0..MaxSeq]
  /\ \A s \in Senders : sender[s] # "idle" => seq[s] \in 1..(nextSeq - 1)
  /\ closer \in {"idle", "cancelled", "waiting", "returned"}

\* While readLoop serves a connection that works, every buffered event has
\* arrived on this very connection or is about to be sent on it by SendEvent:
\* no event falls between the copy of resendPendingEvents and the connection
\* SendEvent finds, however reconnects and senders interleave.
PendingOnConnection ==
  (loop \in {"hooks", "check", "fetch", "read", "handle"} /\ conn # 0 /\ sock[conn] = "up") =>
    \A n \in pending :
      \/ n \in arrived[conn]
      \/ \E s \in Senders : sender[s] = "send" /\ seq[s] = n

\* Every number that SendEvent has given out is still to be buffered, is
\* buffered, or has arrived at the supervisor: lost connections and
\* acknowledgements that come late or twice lose no event.
NoEventForgotten ==
  \A n \in 1..(nextSeq - 1) :
    \/ n \in Arrived \/ n \in pending
    \/ \E s \in Senders : sender[s] = "append" /\ seq[s] = n

\* An event that SendEvent has accepted arrives in the end, unless the client
\* is closed.
EventArrives ==
  \A n \in Numbers : (nextSeq > n) ~> (n \in Arrived \/ ctxDone)

\* Close comes back: wherever the connect loop is when the context is
\* cancelled, it ends.
CloseEnds == (closer # "idle") ~> (closer = "returned")
=============================================================================
