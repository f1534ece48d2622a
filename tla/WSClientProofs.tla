--------------------------- MODULE WSClientProofs ---------------------------
(* Theorems about WSClient: types, and that no event is lost between        *)
(* senders, resends, reconnects and acknowledgements.                       *)
EXTENDS WSClient, TLAPS

-----------------------------------------------------------------------------
(* Types.                                                                  *)

LEMMA InitTypeOK == Init => TypeOK
<1> SUFFICES ASSUME Init PROVE TypeOK
  OBVIOUS
<1>1. /\ dialled \in 0..MaxConns /\ conn \in 0..dialled
      /\ nextSeq \in 1..(MaxSeq + 1) /\ lastAcked \in 0..MaxSeq
      /\ seq \in [Senders -> 0..MaxSeq]
  BY ClientAssumption DEF Init
<1>2. /\ ctxDone \in BOOLEAN
      /\ loop \in {"dial", "dialled", "snapshot", "copy", "resend", "hooks", "check",
                   "fetch", "read", "handle", "wait", "done"}
      /\ sock \in [Sockets -> {"none", "up", "broken", "closed"}]
      /\ arrived \in [Sockets -> SUBSET Numbers]
      /\ toResend \in SUBSET Numbers /\ pending \in SUBSET Numbers
      /\ sender \in [Senders -> {"idle", "append", "send"}]
      /\ closer \in {"idle", "cancelled", "waiting", "returned"}
  BY Zenon DEF Init
<1>3. \A s \in Senders : sender[s] = "idle"
  BY DEF Init
<1> QED
  BY <1>1, <1>2, <1>3 DEF TypeOK

\* closeConn and a successful SendEnvelope keep the types of what they change.
LEMMA CloseConnType ==
  ASSUME TypeOK, CloseConn
  PROVE  /\ sock' \in [Sockets -> {"none", "up", "broken", "closed"}]
         /\ conn' = 0 /\ dialled' = dialled /\ arrived' = arrived
  BY DEF TypeOK, CloseConn

LEMMA SendType ==
  ASSUME TypeOK, NEW n \in Numbers, SendSucceeds(n)
  PROVE  /\ arrived' \in [Sockets -> SUBSET Numbers]
         /\ UNCHANGED <<dialled, sock, conn>>
  BY DEF TypeOK, SendSucceeds

\* TypeOK is inductive.
LEMMA NextTypeOK == TypeOK /\ [Next]_vars => TypeOK'
<1> SUFFICES ASSUME TypeOK, [Next]_vars PROVE TypeOK'
  OBVIOUS
<1> USE ClientAssumption
<1>1. CASE DialSucceeds
  <2>1. dialled' \in Sockets /\ dialled' \in 0..MaxConns /\ conn \in 0..dialled'
    BY <1>1 DEF DialSucceeds, TypeOK, Sockets
  <2> QED
    BY <1>1, <2>1 DEF DialSucceeds, TypeOK, eventVars
<1>2. CASE Reconnect
  BY <1>2 DEF Reconnect, DialFails, WaitOver, WaitCancelled, Leave, TypeOK, connVars, eventVars
<1>3. CASE StoreConn
  BY <1>3 DEF StoreConn, TypeOK, eventVars
<1>4. CASE SendSnapshot \/ CopyPending \/ ResendDone \/ RunOnConnectHooks
  BY <1>4 DEF SendSnapshot, RunOnConnectHooks, SendSetup, CopyPending, ResendDone, TypeOK,
     connVars, eventVars
<1>5. ASSUME NEW n \in Numbers, ResendNext(n) PROVE TypeOK'
  BY <1>5, SendType DEF ResendNext, TypeOK, eventVars
<1>6. CASE SetupFails
  BY <1>6, CloseConnType DEF SetupFails, Leave, TypeOK, eventVars
<1>7. CASE Serve \/ ReadMessage
  BY <1>7 DEF Serve, CheckContext, FetchConn, HandlerReturns, ReadFails, ReadMessage, Leave,
     TypeOK, connVars, eventVars
<1>8. ASSUME NEW s \in Senders, TakeSeq(s) PROVE TypeOK'
  BY <1>8 DEF TakeSeq, TypeOK, connVars, loopVars
<1>9. ASSUME NEW s \in Senders, AppendPending(s) PROVE TypeOK'
  <2>1. seq[s] \in Numbers
    BY <1>9 DEF AppendPending, TypeOK, Numbers
  <2> QED
    BY <1>9, <2>1 DEF AppendPending, TypeOK, connVars, loopVars
<1>10. ASSUME NEW s \in Senders, SendEvent(s) PROVE TypeOK'
  <2>1. seq[s] \in Numbers
    BY <1>10 DEF SendEvent, TypeOK, Numbers
  <2>2. arrived' \in [Sockets -> SUBSET Numbers] /\ UNCHANGED <<dialled, sock, conn>>
    BY <1>10, <2>1, SendType DEF SendEvent, connVars, TypeOK
  <2> QED
    BY <1>10, <2>2 DEF SendEvent, TypeOK, loopVars
<1>11. ASSUME NEW q \in Numbers, AcknowledgeSeq(q) PROVE TypeOK'
  <2>1. pending' \in SUBSET Numbers
    BY <1>11 DEF AcknowledgeSeq, TypeOK
  <2>2. q \in 0..MaxSeq
    BY DEF Numbers
  <2> QED
    BY <1>11, <2>1, <2>2 DEF AcknowledgeSeq, TypeOK, connVars, loopVars
<1>12. CASE Cancel \/ CloseReturns
  BY <1>12 DEF Cancel, CloseReturns, TypeOK, connVars, eventVars
<1>13. CASE CloseActive
  BY <1>13, CloseConnType DEF CloseActive, TypeOK, eventVars
<1>14. ASSUME NEW k \in Sockets, Break(k) PROVE TypeOK'
  BY <1>14 DEF Break, TypeOK, loopVars, eventVars
<1>15. CASE UNCHANGED vars
  BY <1>15 DEF vars, connVars, loopVars, eventVars, TypeOK
<1> QED
  BY <1>1, <1>2, <1>3, <1>4, <1>5, <1>6, <1>7, <1>8, <1>9, <1>10, <1>11, <1>12, <1>13,
     <1>14, <1>15 DEF Next, Setup, Sending, Closing

\* Every reachable state of the client is well typed: numbers start at 1, a
\* goroutine in SendEvent holds a number that was given out, and c.conn is nil
\* or a socket that was dialled.
THEOREM ClientTypeCorrect == Spec => []TypeOK
  BY InitTypeOK, NextTypeOK, PTL DEF Spec

-----------------------------------------------------------------------------
(* No event is forgotten.                                                  *)

\* What has arrived stays arrived.
LEMMA ArrivedGrows ==
  ASSUME TypeOK, [Next]_vars, NEW k \in Sockets
  PROVE  arrived[k] \subseteq arrived'[k]
<1>1. CASE UNCHANGED arrived
  BY <1>1
<1>2. ASSUME NEW n, SendSucceeds(n) PROVE arrived[k] \subseteq arrived'[k]
  BY <1>2 DEF SendSucceeds, TypeOK
<1>3. CASE DialSucceeds \/ Reconnect \/ StoreConn \/ SendSnapshot \/ CopyPending \/ ResendDone
           \/ RunOnConnectHooks \/ SetupFails \/ Serve \/ ReadMessage
  BY <1>3, <1>1 DEF DialSucceeds, Reconnect, DialFails, WaitOver, WaitCancelled, StoreConn,
     SendSnapshot, RunOnConnectHooks, SendSetup, CopyPending, ResendDone, SetupFails, CloseConn,
     Serve, CheckContext, FetchConn, HandlerReturns, ReadFails, ReadMessage, connVars
<1>4. CASE \E n \in Numbers : ResendNext(n) \/ AcknowledgeSeq(n)
  BY <1>4, <1>1, <1>2 DEF ResendNext, AcknowledgeSeq, connVars
<1>5. CASE \E s \in Senders : TakeSeq(s) \/ Sending(s)
  BY <1>5, <1>1, <1>2 DEF TakeSeq, Sending, AppendPending, SendEvent, connVars
<1>6. CASE Cancel \/ Closing \/ \E j \in Sockets : Break(j)
  BY <1>6, <1>1 DEF Cancel, Closing, CloseActive, CloseReturns, CloseConn, Break, connVars
<1>7. CASE UNCHANGED vars
  BY <1>7, <1>1 DEF vars, connVars
<1> QED
  BY <1>3, <1>4, <1>5, <1>6, <1>7 DEF Next, Setup

\* NoEventForgotten is inductive: only SendEvent gives out and buffers numbers,
\* and only an acknowledgement of what has arrived drops them.
LEMMA NextForgotten == TypeOK /\ NoEventForgotten /\ [Next]_vars => NoEventForgotten'
<1> SUFFICES ASSUME TypeOK, NoEventForgotten, [Next]_vars, NEW n \in 1..(nextSeq' - 1)
             PROVE  \/ n \in Arrived' \/ n \in pending'
                    \/ \E s \in Senders : sender'[s] = "append" /\ seq'[s] = n
  BY DEF NoEventForgotten
<1>0. Arrived \subseteq Arrived'
  BY ArrivedGrows DEF Arrived
<1>1. ASSUME UNCHANGED <<nextSeq, pending, sender, seq>>
      PROVE  \/ n \in Arrived' \/ n \in pending'
             \/ \E s \in Senders : sender'[s] = "append" /\ seq'[s] = n
  BY <1>0, <1>1 DEF NoEventForgotten
<1>2. CASE DialSucceeds \/ Reconnect \/ Setup \/ Serve \/ ReadMessage
  BY <1>2, <1>1 DEF DialSucceeds, Reconnect, DialFails, WaitOver, WaitCancelled, Setup, StoreConn,
     SendSnapshot, RunOnConnectHooks, SendSetup, CopyPending, ResendNext, ResendDone, SetupFails,
     Serve, CheckContext, FetchConn, HandlerReturns, ReadFails, ReadMessage, eventVars
<1>3. ASSUME NEW t \in Senders, TakeSeq(t)
      PROVE  \/ n \in Arrived' \/ n \in pending'
             \/ \E s \in Senders : sender'[s] = "append" /\ seq'[s] = n
  <2>1. CASE n = nextSeq
    BY <1>3, <2>1 DEF TakeSeq, TypeOK
  <2>2. CASE n # nextSeq
    <3>1. n \in 1..(nextSeq - 1)
      BY <1>3, <2>2 DEF TakeSeq, TypeOK
    <3>2. \A s \in Senders : sender[s] = "append" => sender'[s] = "append" /\ seq'[s] = seq[s]
      BY <1>3 DEF TakeSeq, TypeOK
    <3> QED
      BY <1>0, <1>3, <3>1, <3>2 DEF NoEventForgotten, TakeSeq
  <2> QED
    BY <2>1, <2>2
<1>4. ASSUME NEW t \in Senders, AppendPending(t)
      PROVE  \/ n \in Arrived' \/ n \in pending'
             \/ \E s \in Senders : sender'[s] = "append" /\ seq'[s] = n
  <2>1. /\ pending' = pending \cup {seq[t]} /\ nextSeq' = nextSeq
        /\ \A s \in Senders : s # t => sender'[s] = sender[s] /\ seq'[s] = seq[s]
    BY <1>4 DEF AppendPending, TypeOK
  <2> QED
    BY <1>0, <2>1 DEF NoEventForgotten
<1>5. ASSUME NEW t \in Senders, SendEvent(t)
      PROVE  \/ n \in Arrived' \/ n \in pending'
             \/ \E s \in Senders : sender'[s] = "append" /\ seq'[s] = n
  <2>1. /\ UNCHANGED <<pending, nextSeq>>
        /\ \A s \in Senders : sender[s] = "append" => sender'[s] = "append" /\ seq'[s] = seq[s]
    BY <1>5 DEF SendEvent, TypeOK
  <2> QED
    BY <1>0, <2>1 DEF NoEventForgotten
<1>6. ASSUME NEW q \in Numbers, AcknowledgeSeq(q)
      PROVE  \/ n \in Arrived' \/ n \in pending'
             \/ \E s \in Senders : sender'[s] = "append" /\ seq'[s] = n
  <2>1. UNCHANGED <<nextSeq, sender, seq>> /\ pending' = {m \in pending : m > q}
        /\ 1..q \subseteq Arrived /\ q \in Int /\ n \in Int
    BY <1>6 DEF AcknowledgeSeq, Numbers
  <2>2. n > q \/ n \in 1..q
    BY <2>1
  <2> QED
    BY <1>0, <2>1, <2>2 DEF NoEventForgotten
<1>7. CASE Cancel \/ Closing \/ \E k \in Sockets : Break(k)
  BY <1>7, <1>1 DEF Cancel, Closing, CloseActive, CloseReturns, Break, eventVars
<1>8. CASE UNCHANGED vars
  BY <1>8, <1>1 DEF vars, eventVars
<1> QED
  BY <1>2, <1>3, <1>4, <1>5, <1>6, <1>7, <1>8 DEF Next, Sending

\* For any number of senders, events and reconnects, every number SendEvent has
\* given out is about to be buffered, is buffered, or has arrived.
THEOREM NothingForgotten == Spec => []NoEventForgotten
<1>1. Init => NoEventForgotten
  BY DEF Init, NoEventForgotten
<1> QED
  BY <1>1, NextForgotten, ClientTypeCorrect, PTL DEF Spec

-----------------------------------------------------------------------------
(* Buffered events reach the connection that is served.                    *)

\* Event n has arrived on c.conn, or a goroutine is about to send it.
Reaches(n) ==
  n \in arrived[conn] \/ \E s \in Senders : sender[s] = "send" /\ seq[s] = n

\* PendingOnConnection is not inductive: it becomes true while the copy is
\* resent, as what is not resent yet shrinks to nothing.
ResendInv ==
  (loop \in {"resend", "hooks", "check", "fetch", "read", "handle"} /\ conn # 0 /\ sock[conn] = "up")
    => \A n \in pending : Reaches(n) \/ (loop = "resend" /\ n \in toResend)

\* A step that changes neither buffers, senders nor c.conn, brings no socket up
\* and does not enter or leave the stages of a served connection.
LEMMA ResendUntouched ==
  ASSUME TypeOK, ResendInv, [Next]_vars,
         UNCHANGED <<pending, sender, seq, conn, toResend>>,
         conn # 0 /\ sock'[conn] = "up" => sock[conn] = "up",
         loop' \in {"resend", "hooks", "check", "fetch", "read", "handle"} =>
           loop \in {"resend", "hooks", "check", "fetch", "read", "handle"},
         loop = "resend" => loop' \notin {"hooks", "check", "fetch", "read", "handle"}
  PROVE  ResendInv'
<1>1. conn # 0 => conn \in Sockets
  BY ClientAssumption DEF TypeOK, Sockets
<1>2. conn # 0 => arrived[conn] \subseteq arrived'[conn]
  BY <1>1, ArrivedGrows
<1>3. conn # 0 => \A n \in pending : Reaches(n) => Reaches(n)'
  BY <1>2 DEF Reaches
<1> QED
  BY <1>3 DEF ResendInv

LEMMA NextResendInv == TypeOK /\ ResendInv /\ [Next]_vars => ResendInv'
<1> SUFFICES ASSUME TypeOK, ResendInv, [Next]_vars PROVE ResendInv'
  OBVIOUS
<1> USE ClientAssumption
<1>0. /\ conn # 0 => conn \in Sockets /\ conn <= dialled
      /\ \A k \in Sockets : arrived[k] \subseteq arrived'[k]
  BY ArrivedGrows DEF TypeOK, Sockets
<1>1. CASE DialSucceeds
  BY <1>1, <1>0, ResendUntouched DEF DialSucceeds, TypeOK, Sockets, eventVars
<1>2. CASE Reconnect \/ StoreConn \/ SendSnapshot
  BY <1>2 DEF Reconnect, DialFails, WaitOver, WaitCancelled, Leave, StoreConn, SendSnapshot,
     SendSetup, ResendInv
<1>3. CASE CopyPending
  BY <1>3 DEF CopyPending, ResendInv, eventVars
<1>4. ASSUME NEW n \in Numbers, ResendNext(n) PROVE ResendInv'
  <2>1. /\ UNCHANGED <<pending, sender, seq, conn, sock, loop>> /\ loop = "resend" /\ conn # 0
        /\ toResend' = toResend \ {n}
    BY <1>4 DEF ResendNext, SendSucceeds, eventVars
  <2>2. sock[conn] = "up" => n \in arrived'[conn]
    BY <1>4, <1>0, <2>1 DEF ResendNext, SendSucceeds, TypeOK
  <2> QED
    BY <1>0, <2>1, <2>2 DEF ResendInv, Reaches
<1>5. CASE ResendDone
  BY <1>5 DEF ResendDone, ResendInv, Reaches, connVars, eventVars
<1>6. CASE SetupFails
  BY <1>6 DEF SetupFails, CloseConn, ResendInv
<1>7. CASE RunOnConnectHooks \/ Serve \/ ReadMessage
  BY <1>7, ResendUntouched DEF RunOnConnectHooks, SendSetup, Serve, CheckContext, FetchConn, Leave,
     HandlerReturns, ReadFails, ReadMessage, connVars, eventVars
<1>8. ASSUME NEW t \in Senders, TakeSeq(t) PROVE ResendInv'
  <2>1. /\ UNCHANGED <<pending, conn, sock, loop, toResend, arrived>>
        /\ \A s \in Senders : sender[s] = "send" => sender'[s] = "send" /\ seq'[s] = seq[s]
    BY <1>8 DEF TakeSeq, TypeOK, connVars, loopVars
  <2> QED
    BY <2>1 DEF ResendInv, Reaches
<1>9. ASSUME NEW t \in Senders, AppendPending(t) PROVE ResendInv'
  <2>1. /\ UNCHANGED <<conn, sock, loop, toResend, arrived, seq>>
        /\ pending' = pending \cup {seq[t]} /\ sender'[t] = "send"
        /\ \A s \in Senders : sender[s] = "send" => sender'[s] = "send"
    BY <1>9 DEF AppendPending, TypeOK, connVars, loopVars
  <2> QED
    BY <2>1 DEF ResendInv, Reaches
<1>10. ASSUME NEW t \in Senders, SendEvent(t) PROVE ResendInv'
  <2>1. /\ UNCHANGED <<conn, sock, loop, toResend, pending, seq>>
        /\ \A s \in Senders : s # t => sender'[s] = sender[s]
    BY <1>10 DEF SendEvent, SendSucceeds, TypeOK, connVars, loopVars
  <2>2. conn # 0 /\ sock[conn] = "up" => seq[t] \in arrived'[conn]
    BY <1>10, <1>0 DEF SendEvent, SendSucceeds, SendFails, TypeOK
  <2> QED
    BY <1>0, <2>1, <2>2 DEF ResendInv, Reaches
<1>11. ASSUME NEW q \in Numbers, AcknowledgeSeq(q) PROVE ResendInv'
  BY <1>11 DEF AcknowledgeSeq, ResendInv, Reaches, connVars, loopVars
<1>12. CASE Cancel \/ CloseReturns
  BY <1>12, ResendUntouched DEF Cancel, CloseReturns, connVars, eventVars
<1>13. CASE CloseActive
  BY <1>13 DEF CloseActive, CloseConn, ResendInv
<1>14. ASSUME NEW k \in Sockets, Break(k) PROVE ResendInv'
  BY <1>14, <1>0, ResendUntouched DEF Break, TypeOK, loopVars, eventVars
<1>15. CASE UNCHANGED vars
  BY <1>15, ResendUntouched DEF vars, connVars, loopVars, eventVars
<1> QED
  BY <1>1, <1>2, <1>3, <1>4, <1>5, <1>6, <1>7, <1>8, <1>9, <1>10, <1>11, <1>12, <1>13,
     <1>14, <1>15 DEF Next, Setup, Sending, Closing

\* For any number of senders, events and reconnects, a served connection that
\* works gets every buffered event: from the resend or from SendEvent.
THEOREM PendingReachesConnection == Spec => []PendingOnConnection
<1>1. Init => ResendInv
  BY DEF Init, ResendInv
<1>2. ResendInv => PendingOnConnection
  BY DEF ResendInv, PendingOnConnection, Reaches
<1> QED
  BY <1>1, <1>2, NextResendInv, ClientTypeCorrect, PTL DEF Spec
=============================================================================
