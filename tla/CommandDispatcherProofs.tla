----------------------- MODULE CommandDispatcherProofs -----------------------
(* Proofs about CommandDispatcher, for any number of calls, ids and keys.  *)
EXTENDS CommandDispatcher, TLAPS

(***************************************************************************)
(* Types.  TypeOK alone is not inductive: what Receive, Forget and         *)
(* CacheResult store is typed only because a call that waits has a         *)
(* channel, a call that has waited has a result, and only calls with a key *)
(* come to the table.                                                      *)
(***************************************************************************)
Known ==
  \A c \in Calls :
    /\ pc[c] = "wait" => chan[c] \in Chans
    /\ pc[c] \in {"forget", "cache"} => res[c] \in Results
    /\ pc[c] \in {"purge", "cache"} => KeyOf[c] \in Keys

TypeInv == TypeOK /\ Known

\* The dispatcher starts with empty maps and nothing begun.
LEMMA InitTypeInv == Init => TypeInv
BY DispatcherAssumption
   DEF Init, TypeInv, TypeOK, CallTypeOK, ResultTypeOK, TableTypeOK, Known

\* A step that leaves a group of variables alone leaves its types alone.
LEMMA UnchangedGroups ==
  /\ CallTypeOK /\ UNCHANGED callVars => CallTypeOK'
  /\ ResultTypeOK /\ UNCHANGED resultVars => ResultTypeOK'
  /\ TableTypeOK /\ UNCHANGED tableVars => TableTypeOK'
BY DEF CallTypeOK, ResultTypeOK, TableTypeOK, callVars, resultVars, tableVars

\* Every step of a call, an agent, a read pump or the environment keeps the
\* types and what a call must know where it is.
LEMMA NextTypeInv == TypeInv /\ [Next]_vars => TypeInv'
<1> SUFFICES ASSUME TypeInv, [Next]_vars PROVE TypeInv'
  OBVIOUS
<1>Types. CallTypeOK /\ ResultTypeOK /\ TableTypeOK /\ restarts \in 0..MaxRestarts /\ Known
  BY DEF TypeInv, TypeOK
<1>1. ASSUME NEW c \in Calls, CheckIdempotency(c) PROVE TypeInv'
  <2>1. UNCHANGED <<resultVars, chan, row, settled, expiries, restarts>>
    BY <1>1 DEF CheckIdempotency
  <2>2. ResultTypeOK' /\ (restarts \in 0..MaxRestarts)'
    BY <2>1, <1>Types, UnchangedGroups
  <2>3. TableTypeOK'
    BY <2>1, <1>1, <1>Types DEF CheckIdempotency, TableTypeOK
  <2>4. CallTypeOK' /\ Known'
    BY <2>1, <1>1, <1>Types, DispatcherAssumption
       DEF CheckIdempotency, Goto, CallTypeOK, TableTypeOK, Known
  <2> QED
    BY <2>2, <2>3, <2>4 DEF TypeInv, TypeOK
<1>2. ASSUME NEW c \in Calls, PurgeExpired(c) PROVE TypeInv'
  <2>1. ResultTypeOK' /\ (restarts \in 0..MaxRestarts)'
    BY <1>2, <1>Types, UnchangedGroups DEF PurgeExpired
  <2>2. TableTypeOK'
    BY <1>2, <1>Types DEF PurgeExpired, TableTypeOK
  <2>3. CallTypeOK' /\ Known'
    BY <1>2, <1>Types DEF PurgeExpired, Goto, CallTypeOK, Known
  <2> QED
    BY <2>1, <2>2, <2>3 DEF TypeInv, TypeOK
<1>3. ASSUME NEW c \in Calls, ResolveTarget(c) PROVE TypeInv'
  <2>1. ResultTypeOK' /\ TableTypeOK' /\ (restarts \in 0..MaxRestarts)'
    BY <1>3, <1>Types, UnchangedGroups DEF ResolveTarget
  <2>2. [by |-> c, from |-> "unresolved"] \in Results
    BY DEF Results
  <2>3. CallTypeOK' /\ Known'
    BY <1>3, <1>Types, <2>2, DispatcherAssumption
       DEF ResolveTarget, Finish, Goto, CallTypeOK, Known
  <2> QED
    BY <2>1, <2>3 DEF TypeInv, TypeOK
<1>4. ASSUME NEW c \in Calls, CreatePending(c) PROVE TypeInv'
  <2>1. TableTypeOK' /\ (restarts \in 0..MaxRestarts)'
    BY <1>4, <1>Types, UnchangedGroups DEF CreatePending
  <2>2. PendingChan(IdOf[c], <<c, "send">>) \in Chans
    BY <1>Types, DispatcherAssumption DEF PendingChan, Chans, ResultTypeOK
  <2>3. ResultTypeOK'
    BY <1>4, <1>Types, <2>2 DEF CreatePending, ResultTypeOK
  <2>4. CallTypeOK' /\ Known'
    BY <1>4, <1>Types DEF CreatePending, Goto, CallTypeOK, Known
  <2> QED
    BY <2>1, <2>3, <2>4 DEF TypeInv, TypeOK
<1>5. ASSUME NEW c \in Calls, SendOK(c) \/ SendFails(c) PROVE TypeInv'
  <2>1. TableTypeOK' /\ (restarts \in 0..MaxRestarts)'
    BY <1>5, <1>Types, UnchangedGroups DEF SendOK, SendFails
  <2>2. ResultTypeOK'
    BY <1>5, <1>Types DEF SendOK, SendFails, ResultTypeOK
  <2>3. CallTypeOK' /\ Known'
    BY <1>5, <1>Types DEF SendOK, SendFails, Goto, CallTypeOK, Known
  <2> QED
    BY <2>1, <2>2, <2>3 DEF TypeInv, TypeOK
<1>6. ASSUME NEW c \in Calls, WaitLookup(c) PROVE TypeInv'
  <2>1. TableTypeOK' /\ (restarts \in 0..MaxRestarts)'
    BY <1>6, <1>Types, UnchangedGroups DEF WaitLookup
  <2>2. PendingChan(IdOf[c], <<c, "wait">>) \in Chans
    BY <1>Types, DispatcherAssumption DEF PendingChan, Chans, ResultTypeOK
  <2>3. ResultTypeOK'
    BY <1>6, <1>Types, <2>2 DEF WaitLookup, ResultTypeOK
  <2>4. CallTypeOK' /\ Known'
    BY <1>6, <1>Types, <2>2 DEF WaitLookup, Goto, CallTypeOK, Known
  <2> QED
    BY <2>1, <2>3, <2>4 DEF TypeInv, TypeOK
<1>7. ASSUME NEW c \in Calls, Receive(c) PROVE TypeInv'
  <2>1. TableTypeOK' /\ (restarts \in 0..MaxRestarts)'
    BY <1>7, <1>Types, UnchangedGroups DEF Receive
  <2>2. content[chan[c]] \in Results
    BY <1>7, <1>Types DEF Receive, Known, ResultTypeOK
  <2>3. ResultTypeOK'
    BY <1>7, <1>Types DEF Receive, ResultTypeOK
  <2>4. CallTypeOK' /\ Known'
    BY <1>7, <1>Types, <2>2 DEF Receive, Goto, CallTypeOK, Known
  <2> QED
    BY <2>1, <2>3, <2>4 DEF TypeInv, TypeOK
<1>8. ASSUME NEW c \in Calls, Timeout(c) PROVE TypeInv'
  <2>1. TableTypeOK' /\ ResultTypeOK' /\ (restarts \in 0..MaxRestarts)'
    BY <1>8, <1>Types, UnchangedGroups DEF Timeout
  <2>2. [by |-> c, from |-> "timeout"] \in Results
    BY DEF Results
  <2>3. CallTypeOK' /\ Known'
    BY <1>8, <1>Types, <2>2 DEF Timeout, Goto, CallTypeOK, Known
  <2> QED
    BY <2>1, <2>3 DEF TypeInv, TypeOK
<1>9. ASSUME NEW c \in Calls, Forget(c) PROVE TypeInv'
  <2>1. TableTypeOK' /\ (restarts \in 0..MaxRestarts)'
    BY <1>9, <1>Types, UnchangedGroups DEF Forget
  <2>2. ResultTypeOK'
    BY <1>9, <1>Types DEF Forget, ResultTypeOK
  <2>3. CallTypeOK' /\ Known'
    BY <1>9, <1>Types, DispatcherAssumption DEF Forget, Finish, Goto, CallTypeOK, Known
  <2> QED
    BY <2>1, <2>2, <2>3 DEF TypeInv, TypeOK
<1>10. ASSUME NEW c \in Calls, CacheResult(c) PROVE TypeInv'
  <2>1. ResultTypeOK' /\ (restarts \in 0..MaxRestarts)'
    BY <1>10, <1>Types, UnchangedGroups DEF CacheResult
  <2>2. [res |-> res[c], live |-> TRUE] \in [res : Results, live : BOOLEAN]
    BY <1>10, <1>Types DEF CacheResult, Known
  <2>3. TableTypeOK'
    <3>1. KeyOf[c] \in Keys /\ UNCHANGED <<late, expiries>>
      BY <1>10, <1>Types DEF CacheResult, Known
    <3>2. CASE /\ row' = [row EXCEPT ![KeyOf[c]] = [res |-> res[c], live |-> TRUE]]
               /\ settled' = settled \cup {KeyOf[c]}
      <4> DEFINE stored == [res |-> res[c], live |-> TRUE]
      <4>1. stored \in [res : Results, live : BOOLEAN]
        BY <2>2
      <4>2. row' = [row EXCEPT ![KeyOf[c]] = stored]
        BY <3>2
      <4> HIDE DEF stored
      <4> QED
        BY <3>1, <3>2, <4>1, <4>2, <1>Types DEF TableTypeOK
    <3>3. CASE UNCHANGED <<row, settled>>
      BY <3>1, <3>3, <1>Types DEF TableTypeOK
    <3> QED
      BY <1>10, <3>2, <3>3 DEF CacheResult
  <2>4. CallTypeOK' /\ Known'
    BY <1>10, <1>Types DEF CacheResult, Goto, CallTypeOK, Known
  <2> QED
    BY <2>1, <2>3, <2>4 DEF TypeInv, TypeOK
<1>11. ASSUME NEW c \in Calls, Execute(c) \/ HandleLookup(c) PROVE TypeInv'
  <2>1. CallTypeOK' /\ TableTypeOK' /\ (restarts \in 0..MaxRestarts)'
    BY <1>11, <1>Types, UnchangedGroups DEF Execute, HandleLookup
  <2>2. ResultTypeOK'
    BY <1>11, <1>Types, DispatcherAssumption DEF Execute, HandleLookup, ResultTypeOK
  <2>3. Known'
    BY <1>11, <1>Types DEF Execute, HandleLookup, callVars, Known
  <2> QED
    BY <2>1, <2>2, <2>3 DEF TypeInv, TypeOK
<1>12. ASSUME NEW c \in Calls, HandleOffer(c) PROVE TypeInv'
  <2>1. CallTypeOK' /\ TableTypeOK' /\ (restarts \in 0..MaxRestarts)'
    BY <1>12, <1>Types, UnchangedGroups DEF HandleOffer
  <2>2. [by |-> c, from |-> "agent"] \in Results
    BY DEF Results
  <2>3. ResultTypeOK'
    BY <1>12, <1>Types, <2>2 DEF HandleOffer, ResultTypeOK
  <2>4. Known'
    BY <1>12, <1>Types DEF HandleOffer, callVars, Known
  <2> QED
    BY <2>1, <2>3, <2>4 DEF TypeInv, TypeOK
<1>13. ASSUME NEW k \in Keys, Expire(k) PROVE TypeInv'
  <2>1. CallTypeOK' /\ ResultTypeOK' /\ (restarts \in 0..MaxRestarts)'
    BY <1>13, <1>Types, UnchangedGroups DEF Expire
  <2>2. [row[k] EXCEPT !.live = FALSE] \in [res : Results, live : BOOLEAN]
    BY <1>13, <1>Types DEF Expire, TableTypeOK
  <2>3. TableTypeOK'
    BY <1>13, <1>Types, <2>2, DispatcherAssumption DEF Expire, TableTypeOK
  <2>4. Known'
    BY <1>13, <1>Types DEF Expire, callVars, Known
  <2> QED
    BY <2>1, <2>3, <2>4 DEF TypeInv, TypeOK
<1>14. ASSUME Restart PROVE TypeInv'
  <2>1. TableTypeOK'
    BY <1>14, <1>Types, UnchangedGroups DEF Restart
  <2>2. (restarts \in 0..MaxRestarts)'
    BY <1>14, <1>Types, DispatcherAssumption DEF Restart
  <2>3. ResultTypeOK'
    BY <1>14, <1>Types DEF Restart, ResultTypeOK
  <2>4. CallTypeOK' /\ Known'
    BY <1>14, <1>Types DEF Restart, Begun, Returned, CallTypeOK, Known
  <2> QED
    BY <2>1, <2>2, <2>3, <2>4 DEF TypeInv, TypeOK
<1>15. ASSUME UNCHANGED vars PROVE TypeInv'
  BY <1>15, <1>Types, UnchangedGroups DEF vars, callVars, Known, TypeInv, TypeOK
<1> QED
  BY <1>1, <1>2, <1>3, <1>4, <1>5, <1>6, <1>7, <1>8, <1>9, <1>10, <1>11, <1>12, <1>13,
     <1>14, <1>15 DEF Next, Proceed, HandleCommandResult

\* Calls, channels and the table always hold what their types say; only
\* results, never errors, reach command_idempotency.
THEOREM DispatcherTypeCorrect == Spec => []TypeOK
<1>1. TypeInv => TypeOK
  BY DEF TypeInv
<1> QED
  BY InitTypeInv, NextTypeInv, <1>1, PTL DEF Spec

-----------------------------------------------------------------------------
(* The pending map.  NoLeakedWaiter is inductive as it stands: the call    *)
(* that keeps an entry alive leaves {send, lookup, wait, forget} only by   *)
(* deleting the entry, and a restart empties the map.                      *)

\* A step that changes neither d.pending nor where the waiting calls are keeps
\* NoLeakedWaiter.
LEMMA WaitersStay ==
  ASSUME NoLeakedWaiter, UNCHANGED pending,
         \A c \in Calls : Waiting(c) => Waiting(c)'
  PROVE  NoLeakedWaiter'
BY DEF NoLeakedWaiter

\* Every step keeps an owner for each entry of d.pending.
LEMMA NextNoLeakedWaiter ==
  TypeOK /\ NoLeakedWaiter /\ [Next]_vars => NoLeakedWaiter'
<1> SUFFICES ASSUME TypeOK, NoLeakedWaiter, [Next]_vars PROVE NoLeakedWaiter'
  OBVIOUS
<1> USE DEF Goto, Finish, Waiting
<1>Types. CallTypeOK /\ ResultTypeOK
  BY DEF TypeOK
<1>1. ASSUME NEW c \in Calls,
             CheckIdempotency(c) \/ PurgeExpired(c) \/ ResolveTarget(c) \/ SendOK(c)
               \/ Receive(c) \/ Timeout(c) \/ CacheResult(c)
      PROVE  NoLeakedWaiter'
  <2>1. UNCHANGED pending
    BY <1>1 DEF CheckIdempotency, PurgeExpired, ResolveTarget, SendOK, Receive, Timeout,
                CacheResult, resultVars
  <2>2. \A d \in Calls : Waiting(d) => Waiting(d)'
    BY <1>1, <1>Types DEF CheckIdempotency, PurgeExpired, ResolveTarget, SendOK, Receive,
                          Timeout, CacheResult, CallTypeOK
  <2> QED
    BY <2>1, <2>2, WaitersStay
<1>2. ASSUME NEW c \in Calls, CreatePending(c) \/ WaitLookup(c) PROVE NoLeakedWaiter'
  <2>1. /\ \A d \in Calls : Waiting(d) => Waiting(d)'
        /\ Waiting(c)'
    BY <1>2, <1>Types DEF CreatePending, WaitLookup, CallTypeOK
  <2>2. \A i \in Ids \ {IdOf[c]} : pending'[i] = pending[i]
    BY <1>2, <1>Types DEF CreatePending, WaitLookup, ResultTypeOK
  <2> QED
    BY <2>1, <2>2 DEF NoLeakedWaiter
<1>3. ASSUME NEW c \in Calls, SendFails(c) \/ Forget(c) PROVE NoLeakedWaiter'
  <2>1. \A d \in Calls \ {c} : Waiting(d) => Waiting(d)'
    BY <1>3, <1>Types DEF SendFails, Forget, CallTypeOK
  <2>2. \A i \in Ids : pending'[i] = IF i = IdOf[c] THEN NoChan ELSE pending[i]
    BY <1>3, <1>Types DEF SendFails, Forget, ResultTypeOK
  <2> QED
    BY <2>1, <2>2 DEF NoLeakedWaiter
<1>4. ASSUME NEW c \in Calls, Execute(c) \/ HandleLookup(c) \/ HandleOffer(c)
      PROVE  NoLeakedWaiter'
  BY <1>4, WaitersStay DEF Execute, HandleLookup, HandleOffer, callVars
<1>5. ASSUME NEW k \in Keys, Expire(k) PROVE NoLeakedWaiter'
  BY <1>5, WaitersStay DEF Expire, callVars, resultVars
<1>6. ASSUME Restart PROVE NoLeakedWaiter'
  BY <1>6 DEF Restart, NoLeakedWaiter
<1>7. ASSUME UNCHANGED vars PROVE NoLeakedWaiter'
  BY <1>7, WaitersStay DEF vars, callVars, resultVars
<1> QED
  BY <1>1, <1>2, <1>3, <1>4, <1>5, <1>6, <1>7 DEF Next, Proceed, HandleCommandResult

\* However calls with equal or different ids interleave, fail, time out or are
\* cut off by a restart, d.pending never holds an entry nobody will delete.
THEOREM NoWaiterLeaks == Spec => []NoLeakedWaiter
<1>1. Init => NoLeakedWaiter
  BY DEF Init, NoLeakedWaiter
<1> QED
  BY <1>1, NextNoLeakedWaiter, DispatcherTypeCorrect, PTL DEF Spec

-----------------------------------------------------------------------------
(* Correlation.  With an id for every call, the entry of an id, the        *)
(* channel a result is about to be sent on and the result a channel holds  *)
(* all belong to the same call.  So the entry is still there when the      *)
(* result comes in, and the channel is empty when it is sent.              *)

\* Where a call is, its entry, its channel and the stage of its command agree.
Placed ==
  \A c \in Calls :
    /\ pc[c] \in {"send", "lookup", "wait"} => pending[IdOf[c]] # NoChan
    /\ pc[c] = "wait" => chan[c] = pending[IdOf[c]]
    /\ stage[c] # "none" => pc[c] \in {"lookup", "wait", "forget", "cache", "done"}

\* Channels and what they hold belong to the call they were made by.
Owned ==
  /\ \A c \in Calls :
       /\ pending[IdOf[c]] # NoChan => pending[IdOf[c]][1] = c
       /\ stage[c] = "held" => held[c] \in Chans /\ held[c][1] = c
  /\ \A ch \in Chans :
       content[ch] # None => /\ content[ch] = [by |-> ch[1], from |-> "agent"]
                             /\ stage[ch[1]] = "delivered"

CorrelationInv == Placed /\ Owned /\ ResultReachesWaiter

\* CorrelationInv is inductive when no two calls share an id.
LEMMA NextCorrelationInv ==
  ASSUME OwnIdPerCall
  PROVE  TypeInv /\ CorrelationInv /\ [Next]_vars => CorrelationInv'
<1> SUFFICES ASSUME TypeInv, CorrelationInv, [Next]_vars PROVE CorrelationInv'
  OBVIOUS
<1>Types. CallTypeOK /\ ResultTypeOK /\ Known
  BY DEF TypeInv, TypeOK
<1>Ids. \A c, d \in Calls : IdOf[c] \in Ids /\ (IdOf[c] = IdOf[d] => c = d)
  BY DispatcherAssumption DEF OwnIdPerCall
<1>Chans. /\ NoChan \notin Chans
          /\ \A c \in Calls : <<c, "send">> \in Chans /\ <<c, "wait">> \in Chans
          /\ \A ch \in Chans : ch[1] \in Calls
  BY DispatcherAssumption DEF Chans
<1> USE DEF CorrelationInv, Goto
<1>1. ASSUME NEW c \in Calls, CheckIdempotency(c) PROVE CorrelationInv'
  <2>1. Placed'
    BY <1>1, <1>Types, <1>Ids, <1>Chans
       DEF CheckIdempotency, Placed, Owned, CallTypeOK, ResultTypeOK, resultVars, callVars
  <2>2. Owned'
    BY <1>1, <1>Types, <1>Ids, <1>Chans
       DEF CheckIdempotency, Placed, Owned, CallTypeOK, ResultTypeOK, Known, resultVars, callVars
  <2>3. ResultReachesWaiter'
    BY <1>1, <1>Types, <1>Ids, <1>Chans
       DEF CheckIdempotency, Placed, Owned, ResultReachesWaiter, CallTypeOK, ResultTypeOK,
           resultVars, callVars
  <2> QED
    BY <2>1, <2>2, <2>3
<1>2. ASSUME NEW c \in Calls, PurgeExpired(c) PROVE CorrelationInv'
  <2>1. Placed'
    BY <1>2, <1>Types, <1>Ids, <1>Chans
       DEF PurgeExpired, Placed, Owned, CallTypeOK, ResultTypeOK, resultVars, callVars
  <2>2. Owned'
    BY <1>2, <1>Types, <1>Ids, <1>Chans
       DEF PurgeExpired, Placed, Owned, CallTypeOK, ResultTypeOK, Known, resultVars, callVars
  <2>3. ResultReachesWaiter'
    BY <1>2, <1>Types, <1>Ids, <1>Chans
       DEF PurgeExpired, Placed, Owned, ResultReachesWaiter, CallTypeOK, ResultTypeOK,
           resultVars, callVars
  <2> QED
    BY <2>1, <2>2, <2>3
<1>3. ASSUME NEW c \in Calls, ResolveTarget(c) PROVE CorrelationInv'
  <2>1. Placed'
    BY <1>3, <1>Types, <1>Ids, <1>Chans
       DEF ResolveTarget, Finish, Placed, Owned, CallTypeOK, ResultTypeOK, resultVars, callVars
  <2>2. Owned'
    BY <1>3, <1>Types, <1>Ids, <1>Chans
       DEF ResolveTarget, Finish, Placed, Owned, CallTypeOK, ResultTypeOK, Known, resultVars, callVars
  <2>3. ResultReachesWaiter'
    BY <1>3, <1>Types, <1>Ids, <1>Chans
       DEF ResolveTarget, Finish, Placed, Owned, ResultReachesWaiter, CallTypeOK, ResultTypeOK,
           resultVars, callVars
  <2> QED
    BY <2>1, <2>2, <2>3
<1>4. ASSUME NEW c \in Calls, CreatePending(c) PROVE CorrelationInv'
  <2>1. Placed'
    <3>1. pending'[IdOf[c]] # NoChan
      BY <1>4, <1>Types, <1>Ids, <1>Chans DEF CreatePending, PendingChan, ResultTypeOK
    <3>2. \A d \in Calls \ {c} : pending'[IdOf[d]] = pending[IdOf[d]]
      BY <1>4, <1>Types, <1>Ids DEF CreatePending, ResultTypeOK
    <3>3. pc' = [pc EXCEPT ![c] = "send"] /\ pc[c] = "pend" /\ UNCHANGED <<chan, stage>>
      BY <1>4 DEF CreatePending
    <3> QED
      BY <3>1, <3>2, <3>3, <1>Types DEF Placed, CallTypeOK
  <2>2. Owned'
    BY <1>4, <1>Types, <1>Ids, <1>Chans
       DEF CreatePending, PendingChan, Placed, Owned, CallTypeOK, ResultTypeOK, Known, resultVars, callVars
  <2>3. ResultReachesWaiter'
    BY <1>4, <1>Types, <1>Ids, <1>Chans
       DEF CreatePending, PendingChan, Placed, Owned, ResultReachesWaiter, CallTypeOK, ResultTypeOK,
           resultVars, callVars
  <2> QED
    BY <2>1, <2>2, <2>3
<1>5. ASSUME NEW c \in Calls, SendOK(c) PROVE CorrelationInv'
  <2>1. Placed'
    BY <1>5, <1>Types, <1>Ids, <1>Chans
       DEF SendOK, Placed, Owned, CallTypeOK, ResultTypeOK, resultVars, callVars
  <2>2. Owned'
    BY <1>5, <1>Types, <1>Ids, <1>Chans
       DEF SendOK, Placed, Owned, CallTypeOK, ResultTypeOK, Known, resultVars, callVars
  <2>3. ResultReachesWaiter'
    BY <1>5, <1>Types, <1>Ids, <1>Chans
       DEF SendOK, Placed, Owned, ResultReachesWaiter, CallTypeOK, ResultTypeOK,
           resultVars, callVars
  <2> QED
    BY <2>1, <2>2, <2>3
<1>6. ASSUME NEW c \in Calls, SendFails(c) PROVE CorrelationInv'
  <2>1. Placed'
    BY <1>6, <1>Types, <1>Ids, <1>Chans
       DEF SendFails, Placed, Owned, CallTypeOK, ResultTypeOK, resultVars, callVars
  <2>2. Owned'
    BY <1>6, <1>Types, <1>Ids, <1>Chans
       DEF SendFails, Placed, Owned, CallTypeOK, ResultTypeOK, Known, resultVars, callVars
  <2>3. ResultReachesWaiter'
    BY <1>6, <1>Types, <1>Ids, <1>Chans
       DEF SendFails, Placed, Owned, ResultReachesWaiter, CallTypeOK, ResultTypeOK,
           resultVars, callVars
  <2> QED
    BY <2>1, <2>2, <2>3
<1>7. ASSUME NEW c \in Calls, WaitLookup(c) PROVE CorrelationInv'
  <2>1. Placed'
    BY <1>7, <1>Types, <1>Ids, <1>Chans
       DEF WaitLookup, PendingChan, Placed, Owned, CallTypeOK, ResultTypeOK, resultVars, callVars
  <2>2. Owned'
    BY <1>7, <1>Types, <1>Ids, <1>Chans
       DEF WaitLookup, PendingChan, Placed, Owned, CallTypeOK, ResultTypeOK, Known, resultVars, callVars
  <2>3. ResultReachesWaiter'
    BY <1>7, <1>Types, <1>Ids, <1>Chans
       DEF WaitLookup, PendingChan, Placed, Owned, ResultReachesWaiter, CallTypeOK, ResultTypeOK,
           resultVars, callVars
  <2> QED
    BY <2>1, <2>2, <2>3
<1>8. ASSUME NEW c \in Calls, Receive(c) PROVE CorrelationInv'
  <2>1. Placed'
    BY <1>8, <1>Types, <1>Ids, <1>Chans
       DEF Receive, Placed, Owned, CallTypeOK, ResultTypeOK, resultVars, callVars
  <2>2. Owned'
    BY <1>8, <1>Types, <1>Ids, <1>Chans
       DEF Receive, Placed, Owned, CallTypeOK, ResultTypeOK, Known, resultVars, callVars
  <2>3. ResultReachesWaiter'
    BY <1>8, <1>Types, <1>Ids, <1>Chans
       DEF Receive, Placed, Owned, ResultReachesWaiter, CallTypeOK, ResultTypeOK,
           resultVars, callVars
  <2> QED
    BY <2>1, <2>2, <2>3
<1>9. ASSUME NEW c \in Calls, Timeout(c) PROVE CorrelationInv'
  <2>1. Placed'
    BY <1>9, <1>Types, <1>Ids, <1>Chans
       DEF Timeout, Placed, Owned, CallTypeOK, ResultTypeOK, resultVars, callVars
  <2>2. Owned'
    BY <1>9, <1>Types, <1>Ids, <1>Chans
       DEF Timeout, Placed, Owned, CallTypeOK, ResultTypeOK, Known, resultVars, callVars
  <2>3. ResultReachesWaiter'
    BY <1>9, <1>Types, <1>Ids, <1>Chans
       DEF Timeout, Placed, Owned, ResultReachesWaiter, CallTypeOK, ResultTypeOK,
           resultVars, callVars
  <2> QED
    BY <2>1, <2>2, <2>3
<1>10. ASSUME NEW c \in Calls, Forget(c) PROVE CorrelationInv'
  <2>1. Placed'
    BY <1>10, <1>Types, <1>Ids, <1>Chans
       DEF Forget, Finish, Placed, Owned, CallTypeOK, ResultTypeOK, resultVars, callVars
  <2>2. Owned'
    BY <1>10, <1>Types, <1>Ids, <1>Chans
       DEF Forget, Finish, Placed, Owned, CallTypeOK, ResultTypeOK, Known, resultVars, callVars
  <2>3. ResultReachesWaiter'
    BY <1>10, <1>Types, <1>Ids, <1>Chans
       DEF Forget, Finish, Placed, Owned, ResultReachesWaiter, CallTypeOK, ResultTypeOK,
           resultVars, callVars
  <2> QED
    BY <2>1, <2>2, <2>3
<1>11. ASSUME NEW c \in Calls, CacheResult(c) PROVE CorrelationInv'
  <2>1. Placed'
    BY <1>11, <1>Types, <1>Ids, <1>Chans
       DEF CacheResult, Placed, Owned, CallTypeOK, ResultTypeOK, resultVars, callVars
  <2>2. Owned'
    BY <1>11, <1>Types, <1>Ids, <1>Chans
       DEF CacheResult, Placed, Owned, CallTypeOK, ResultTypeOK, Known, resultVars, callVars
  <2>3. ResultReachesWaiter'
    BY <1>11, <1>Types, <1>Ids, <1>Chans
       DEF CacheResult, Placed, Owned, ResultReachesWaiter, CallTypeOK, ResultTypeOK,
           resultVars, callVars
  <2> QED
    BY <2>1, <2>2, <2>3
<1>12. ASSUME NEW c \in Calls, Execute(c) PROVE CorrelationInv'
  <2>1. Placed'
    BY <1>12, <1>Types, <1>Ids, <1>Chans
       DEF Execute, Placed, Owned, CallTypeOK, ResultTypeOK, resultVars, callVars
  <2>2. Owned'
    BY <1>12, <1>Types, <1>Ids, <1>Chans
       DEF Execute, Placed, Owned, CallTypeOK, ResultTypeOK, Known, resultVars, callVars
  <2>3. ResultReachesWaiter'
    BY <1>12, <1>Types, <1>Ids, <1>Chans
       DEF Execute, Placed, Owned, ResultReachesWaiter, CallTypeOK, ResultTypeOK,
           resultVars, callVars
  <2> QED
    BY <2>1, <2>2, <2>3
<1>13. ASSUME NEW c \in Calls, HandleLookup(c) PROVE CorrelationInv'
  <2>1. Placed'
    BY <1>13, <1>Types, <1>Ids, <1>Chans
       DEF HandleLookup, Placed, Owned, CallTypeOK, ResultTypeOK, resultVars, callVars
  <2>2. Owned'
    BY <1>13, <1>Types, <1>Ids, <1>Chans
       DEF HandleLookup, Placed, Owned, CallTypeOK, ResultTypeOK, Known, resultVars, callVars
  <2>3. ResultReachesWaiter'
    BY <1>13, <1>Types, <1>Ids, <1>Chans
       DEF HandleLookup, Placed, Owned, ResultReachesWaiter, CallTypeOK, ResultTypeOK,
           resultVars, callVars
  <2> QED
    BY <2>1, <2>2, <2>3
<1>14. ASSUME NEW c \in Calls, HandleOffer(c) PROVE CorrelationInv'
  <2>1. Placed'
    BY <1>14, <1>Types, <1>Ids, <1>Chans
       DEF HandleOffer, Placed, Owned, CallTypeOK, ResultTypeOK, resultVars, callVars
  <2>2. Owned'
    BY <1>14, <1>Types, <1>Ids, <1>Chans
       DEF HandleOffer, Placed, Owned, CallTypeOK, ResultTypeOK, Known, resultVars, callVars
  <2>3. ResultReachesWaiter'
    BY <1>14, <1>Types, <1>Ids, <1>Chans
       DEF HandleOffer, Placed, Owned, ResultReachesWaiter, CallTypeOK, ResultTypeOK,
           resultVars, callVars
  <2> QED
    BY <2>1, <2>2, <2>3
<1>15. ASSUME NEW k \in Keys, Expire(k) PROVE CorrelationInv'
  BY <1>15 DEF Expire, Placed, Owned, ResultReachesWaiter, callVars, resultVars
<1>16. ASSUME Restart PROVE CorrelationInv'
  <2>1. /\ \A c \in Calls : pc'[c] \in {pc[c], "done"} /\ pc'[c] \in {"check", "done"}
        /\ \A c \in Calls : pending'[IdOf[c]] = NoChan /\ stage'[c] # "held"
        /\ \A c \in Calls : stage'[c] # "none" => stage[c] # "none"
        /\ \A ch \in Chans : content'[ch] = None
    BY <1>16, <1>Types, <1>Ids DEF Restart, Begun, Returned, CallTypeOK, ResultTypeOK
  <2>2. \A c \in Calls : stage'[c] # "none" => pc'[c] = "done"
    BY <2>1 DEF Placed
  <2>3. Placed'
    BY <2>1, <2>2 DEF Placed
  <2>4. Owned'
    BY <2>1 DEF Owned
  <2>5. ResultReachesWaiter'
    BY <2>1 DEF ResultReachesWaiter
  <2> QED
    BY <2>3, <2>4, <2>5
<1>17. ASSUME UNCHANGED vars PROVE CorrelationInv'
  BY <1>17 DEF vars, Placed, Owned, ResultReachesWaiter, callVars, resultVars
<1> QED
  BY <1>1, <1>2, <1>3, <1>4, <1>5, <1>6, <1>7, <1>8, <1>9, <1>10, <1>11, <1>12, <1>13,
     <1>14, <1>15, <1>16, <1>17 DEF Next, Proceed, HandleCommandResult

\* The type invariant and the correlation invariant hold throughout.
LEMMA CorrelationHolds ==
  ASSUME OwnIdPerCall PROVE Spec => [](TypeInv /\ CorrelationInv)
<1>1. Init => CorrelationInv
  BY DispatcherAssumption DEF Init, CorrelationInv, Placed, Owned, ResultReachesWaiter
<1> QED
  BY <1>1, InitTypeInv, NextTypeInv, NextCorrelationInv, PTL DEF Spec

\* When every call has its own command id, HandleCommandResult never drops the
\* result of a call that has sent its command and not timed out: not when the
\* agent answers before waitForResult is reached, nor because a channel is full.
THEOREM ResultsReachWaiters ==
  ASSUME OwnIdPerCall PROVE Spec => []ResultReachesWaiter
<1>1. TypeInv /\ CorrelationInv => ResultReachesWaiter
  BY DEF CorrelationInv
<1> QED
  BY <1>1, CorrelationHolds, PTL

-----------------------------------------------------------------------------
(* Whose result a call returns.                                            *)

\* A result said to be an agent's was delivered by HandleCommandResult.
Genuine(st, r) == r.from = "agent" => st[r.by] = "delivered"

\* What a call is about to return is its own command's result, and what the
\* table holds for a key is the result of a command with that key.
AnswerInv ==
  /\ \A c \in Calls :
       pc[c] \in {"forget", "cache"} => res[c].by = c /\ Genuine(stage, res[c])
  /\ \A k \in Keys :
       row[k] # None => KeyOf[row[k].res.by] = k /\ Genuine(stage, row[k].res)
  /\ OwnAnswer

\* A delivered result stays delivered.
LEMMA DeliveredStays ==
  ASSUME TypeInv, Placed, [Next]_vars, NEW c \in Calls, stage[c] = "delivered"
  PROVE  stage'[c] = "delivered"
<1>1. stage \in [Calls -> {"none", "sent", "answered", "silent", "held", "delivered",
                          "dropped"}]
  BY DEF TypeInv, TypeOK, ResultTypeOK
<1>2. CASE Restart
  BY <1>1, <1>2 DEF Restart
<1>3. ASSUME NEW d \in Calls, SendOK(d) \/ Execute(d) \/ HandleLookup(d) \/ HandleOffer(d)
      PROVE  stage'[c] = "delivered"
  BY <1>1, <1>3 DEF SendOK, Execute, HandleLookup, HandleOffer, Placed
<1>4. ASSUME NEW d \in Calls,
             \/ CheckIdempotency(d) \/ PurgeExpired(d) \/ ResolveTarget(d)
             \/ CreatePending(d) \/ SendFails(d) \/ WaitLookup(d) \/ Receive(d)
             \/ Timeout(d) \/ Forget(d) \/ CacheResult(d)
      PROVE  UNCHANGED stage
  BY <1>4 DEF CheckIdempotency, PurgeExpired, ResolveTarget, CreatePending, SendFails,
              WaitLookup, Receive, Timeout, Forget, CacheResult, resultVars
<1>5. ASSUME (\E k \in Keys : Expire(k)) \/ UNCHANGED vars PROVE UNCHANGED stage
  BY <1>5 DEF Expire, vars, resultVars
<1> QED
  BY <1>2, <1>3, <1>4, <1>5 DEF Next, Proceed, HandleCommandResult

\* AnswerInv is inductive relative to the correlation of results.
LEMMA NextAnswerInv ==
  TypeInv /\ CorrelationInv /\ AnswerInv /\ [Next]_vars => AnswerInv'
<1> SUFFICES ASSUME TypeInv, CorrelationInv, AnswerInv, [Next]_vars PROVE AnswerInv'
  OBVIOUS
<1>Types. CallTypeOK /\ TableTypeOK /\ Known
  BY DEF TypeInv, TypeOK
<1>Corr. Placed /\ Owned
  BY DEF CorrelationInv
<1>By. \A r \in Results : r.by \in Calls
  BY DEF Results
<1>Genuine. \A r \in Results : Genuine(stage, r) => Genuine(stage', r)
  BY <1>By, <1>Corr, DeliveredStays DEF Genuine
<1>Table. \A k \in Keys : row[k] # None => row[k].res \in Results
  BY <1>Types DEF TableTypeOK
<1>Answers. /\ \A c \in Calls : pc[c] \in {"forget", "cache"} =>
                 res[c] \in Results /\ res[c].by = c /\ Genuine(stage, res[c])
            /\ \A k \in Keys : row[k] # None =>
                 KeyOf[row[k].res.by] = k /\ Genuine(stage, row[k].res)
            /\ \A c \in Calls : (pc[c] = "done" /\ res[c] \in Results) =>
                 /\ res[c].by = c \/ (KeyOf[c] # NoKey /\ KeyOf[res[c].by] = KeyOf[c])
                 /\ Genuine(stage, res[c])
  BY <1>Types DEF AnswerInv, Known, OwnAnswer, Returned, Genuine
<1>Goal. ASSUME
       \A c \in Calls : pc'[c] \in {"forget", "cache"} =>
         res'[c].by = c /\ Genuine(stage', res'[c]),
       \A k \in Keys : row'[k] # None =>
         KeyOf[row'[k].res.by] = k /\ Genuine(stage', row'[k].res),
       \A c \in Calls : (pc'[c] = "done" /\ res'[c] \in Results) =>
         /\ res'[c].by = c \/ (KeyOf[c] # NoKey /\ KeyOf[res'[c].by] = KeyOf[c])
         /\ Genuine(stage', res'[c])
     PROVE AnswerInv'
  BY <1>Goal DEF AnswerInv, OwnAnswer, Returned, Genuine
<1>1. ASSUME NEW c \in Calls, CheckIdempotency(c) PROVE AnswerInv'
  <2>1. /\ UNCHANGED row
        /\ \A d \in Calls \ {c} : pc'[d] = pc[d] /\ res'[d] = res[d]
        /\ \/ pc'[c] \in {"resolve", "purge"}
           \/ /\ KeyOf[c] \in Keys /\ row[KeyOf[c]] # None
              /\ pc'[c] = "done" /\ res'[c] = row[KeyOf[c]].res
    BY <1>1, <1>Types, DispatcherAssumption DEF CheckIdempotency, Goto, CallTypeOK
  <2> QED
    BY <2>1, <1>Answers, <1>Genuine, <1>Table, <1>Goal, DispatcherAssumption
<1>2. ASSUME NEW c \in Calls, PurgeExpired(c) PROVE AnswerInv'
  <2>1. /\ \A k \in Keys : row'[k] \in {None, row[k]}
        /\ \A d \in Calls : pc'[d] = pc[d] \/ pc'[d] = "resolve"
        /\ UNCHANGED res
    BY <1>2, <1>Types DEF PurgeExpired, Goto, CallTypeOK, TableTypeOK
  <2> QED
    BY <2>1, <1>Answers, <1>Genuine, <1>Table, <1>Goal
<1>3. ASSUME NEW c \in Calls, NEW r \in Results, r.by = c, Genuine(stage', r),
             \A d \in Calls \ {c} : pc'[d] = pc[d] /\ res'[d] = res[d],
             res'[c] = r, UNCHANGED row
      PROVE  AnswerInv'
  BY <1>3, <1>Answers, <1>Genuine, <1>Table, <1>Goal
<1>4. ASSUME NEW c \in Calls, UNCHANGED <<res, row>>, pc'[c] \notin {"forget", "cache", "done"},
             \A d \in Calls \ {c} : pc'[d] = pc[d]
      PROVE  AnswerInv'
  BY <1>4, <1>Answers, <1>Genuine, <1>Table, <1>Goal
<1>5. ASSUME NEW c \in Calls, ResolveTarget(c) PROVE AnswerInv'
  <2> DEFINE r == [by |-> c, from |-> "unresolved"]
  <2>1. r \in Results /\ r.by = c /\ Genuine(stage', r)
    BY DEF Results, Genuine
  <2>2. /\ UNCHANGED row
        /\ \A d \in Calls \ {c} : pc'[d] = pc[d] /\ res'[d] = res[d]
        /\ (pc'[c] = "pend" /\ UNCHANGED res) \/ res'[c] = r
    BY <1>5, <1>Types DEF ResolveTarget, Finish, Goto, CallTypeOK, tableVars
  <2> HIDE DEF r
  <2> QED
    BY <2>1, <2>2, <1>3, <1>4
<1>6. ASSUME NEW c \in Calls, CreatePending(c) \/ SendOK(c) \/ WaitLookup(c) PROVE AnswerInv'
  BY <1>6, <1>4, <1>Types
     DEF CreatePending, SendOK, WaitLookup, Goto, CallTypeOK, tableVars
<1>7. ASSUME NEW c \in Calls, SendFails(c) PROVE AnswerInv'
  <2>1. /\ UNCHANGED row /\ res'[c] \notin Results /\ pc'[c] = "done"
        /\ \A d \in Calls \ {c} : pc'[d] = pc[d] /\ res'[d] = res[d]
    BY <1>7, <1>Types, DispatcherAssumption DEF SendFails, Goto, CallTypeOK, tableVars
  <2> QED
    BY <2>1, <1>Answers, <1>Genuine, <1>Table, <1>Goal
<1>8. ASSUME NEW c \in Calls, Receive(c) PROVE AnswerInv'
  <2> DEFINE r == content[chan[c]]
  <2>1. chan[c] \in Chans /\ chan[c][1] = c
    BY <1>8, <1>Types, <1>Corr, DispatcherAssumption DEF Receive, Known, Placed, Owned
  <2>2. r = [by |-> c, from |-> "agent"] /\ stage[c] = "delivered"
    BY <1>8, <2>1, <1>Corr DEF Receive, Owned
  <2>3. r \in Results /\ r.by = c /\ Genuine(stage', r)
    BY <2>2, <1>Corr, DeliveredStays DEF Results, Genuine
  <2>4. /\ UNCHANGED row /\ res'[c] = r
        /\ \A d \in Calls \ {c} : pc'[d] = pc[d] /\ res'[d] = res[d]
    BY <1>8, <1>Types DEF Receive, Goto, CallTypeOK, tableVars
  <2> HIDE DEF r
  <2> QED
    BY <2>3, <2>4, <1>3
<1>9. ASSUME NEW c \in Calls, Timeout(c) PROVE AnswerInv'
  <2> DEFINE r == [by |-> c, from |-> "timeout"]
  <2>1. r \in Results /\ r.by = c /\ Genuine(stage', r)
    BY DEF Results, Genuine
  <2>2. /\ UNCHANGED row /\ res'[c] = r
        /\ \A d \in Calls \ {c} : pc'[d] = pc[d] /\ res'[d] = res[d]
    BY <1>9, <1>Types DEF Timeout, Goto, CallTypeOK, tableVars
  <2> HIDE DEF r
  <2> QED
    BY <2>1, <2>2, <1>3
<1>10. ASSUME NEW c \in Calls, Forget(c) PROVE AnswerInv'
  <2>1. res[c] \in Results /\ res[c].by = c /\ Genuine(stage', res[c])
    BY <1>10, <1>Answers, <1>Genuine DEF Forget
  <2>2. /\ UNCHANGED row /\ res'[c] = res[c]
        /\ \A d \in Calls \ {c} : pc'[d] = pc[d] /\ res'[d] = res[d]
    BY <1>10, <1>Types DEF Forget, Finish, Goto, CallTypeOK, tableVars
  <2> QED
    BY <2>1, <2>2, <1>3
<1>11. ASSUME NEW c \in Calls, CacheResult(c) PROVE AnswerInv'
  <2>1. /\ KeyOf[c] \in Keys
        /\ res[c] \in Results /\ res[c].by = c /\ Genuine(stage', res[c])
    BY <1>11, <1>Types, <1>Answers, <1>Genuine DEF CacheResult, Known
  <2>2. /\ \A d \in Calls \ {c} : pc'[d] = pc[d] /\ res'[d] = res[d]
        /\ pc'[c] = "done"
        /\ res'[c] = res[c] \/ res'[c] \notin Results
    BY <1>11, <1>Types, DispatcherAssumption DEF CacheResult, Goto, CallTypeOK
  <2>3. \A k \in Keys : \/ row'[k] = row[k]
                        \/ k = KeyOf[c] /\ row'[k].res = res[c]
    BY <1>11, <1>Types, <2>1 DEF CacheResult, TableTypeOK
  <2> QED
    BY <2>1, <2>2, <2>3, <1>Answers, <1>Genuine, <1>Table, <1>Goal
<1>12. ASSUME UNCHANGED <<pc, res, row>> PROVE AnswerInv'
  BY <1>12, <1>Answers, <1>Genuine, <1>Table, <1>Goal
<1>13. ASSUME NEW c \in Calls, Execute(c) \/ HandleLookup(c) \/ HandleOffer(c)
       PROVE  AnswerInv'
  BY <1>13, <1>12 DEF Execute, HandleLookup, HandleOffer, callVars, tableVars
<1>14. ASSUME NEW k \in Keys, Expire(k) PROVE AnswerInv'
  <2>1. /\ UNCHANGED <<pc, res>>
        /\ \A j \in Keys : row'[j] = row[j] \/ (row[j] # None /\ row'[j].res = row[j].res)
    BY <1>14, <1>Types, DispatcherAssumption DEF Expire, callVars, TableTypeOK
  <2> QED
    BY <2>1, <1>Answers, <1>Genuine, <1>Table, <1>Goal
<1>15. ASSUME Restart PROVE AnswerInv'
  <2>1. /\ UNCHANGED row
        /\ \A c \in Calls : \/ pc'[c] = "done" /\ res'[c] \notin Results
                            \/ pc'[c] = pc[c] /\ res'[c] = res[c]
    BY <1>15, DispatcherAssumption DEF Restart, tableVars
  <2> QED
    BY <2>1, <1>Answers, <1>Genuine, <1>Table, <1>Goal
<1>16. CASE UNCHANGED vars
  BY <1>12, <1>16 DEF vars, callVars, tableVars
<1> QED
  BY <1>1, <1>2, <1>5, <1>6, <1>7, <1>8, <1>9, <1>10, <1>11, <1>13, <1>14, <1>15, <1>16
     DEF Next, Proceed, HandleCommandResult

\* When every call has its own command id, a call returns the result of its own
\* command or of one with the same idempotency key, never another's.
THEOREM AnswersAreOwn == ASSUME OwnIdPerCall PROVE Spec => []OwnAnswer
<1>1. Init => AnswerInv
  BY DEF Init, AnswerInv, OwnAnswer, Returned
<1>2. AnswerInv => OwnAnswer
  BY DEF AnswerInv
<1> QED
  BY <1>1, <1>2, NextAnswerInv, CorrelationHolds, PTL DEF Spec

-----------------------------------------------------------------------------
(* Idempotency.  A late call is answered from the table: what it finds     *)
(* there was returned by a call that is over, and the row is live.  The    *)
(* second part has an exception.  checkIdempotency deletes an expired row  *)
(* by its hash alone, in a statement of its own, and may thereby delete    *)
(* the fresh row of a call that was faster.  That takes a call that wrote  *)
(* the expired row, one that is slow to delete it, one that replaces it    *)
(* meanwhile, and a fourth that then comes and finds nothing.              *)

\* No row expires, or no four calls have one key.
NoFourthCall ==
  \/ MaxExpiries = 0
  \/ \A c, d, e, f \in Calls :
       (KeyOf[c] \in Keys /\ KeyOf[d] = KeyOf[c] /\ KeyOf[e] = KeyOf[c] /\ KeyOf[f] = KeyOf[c])
         => c = d \/ c = e \/ c = f \/ d = e \/ d = f \/ e = f

\* Call d has key k and has returned.
Over(d, k) == KeyOf[d] = k /\ pc[d] = "done"

\* What the table holds was returned by a call that is over.
RowsReturned ==
  \A k \in Keys : row[k] # None => \E d \in Calls : Over(d, k) /\ res[d] = row[k].res

\* A call that is about to delete an expired row is not the only one of its
\* key; if a fresh row has been stored meanwhile, two others are over.
Purges ==
  /\ \A k \in Keys : (MaxExpiries = 0 /\ row[k] # None) => row[k].live
  /\ \A c \in Calls : pc[c] = "purge" =>
       MaxExpiries # 0 /\ \E d \in Calls \ {c} : Over(d, KeyOf[c])
  /\ \A c \in Calls : (pc[c] = "purge" /\ KeyOf[c] \in settled) =>
       \E d, e \in Calls \ {c} : d # e /\ Over(d, KeyOf[c]) /\ Over(e, KeyOf[c])

\* The row of a settled key is live, or no call of the key is still to come.
SettledIsLive ==
  \A k \in settled :
    \/ row[k] # None /\ row[k].live
    \/ \A c \in Calls : KeyOf[c] = k => pc[c] # "check"

\* A late call is over, and returned what a call before it returned.
LateIsAnswered ==
  \A c \in late :
    /\ pc[c] = "done" /\ stage[c] = "none"
    /\ \E d \in Calls \ {c} : Over(d, KeyOf[c]) /\ res[d] = res[c]

\* Nothing was sent for a call that has not begun.
NothingSent == \A c \in Calls : pc[c] = "check" => stage[c] = "none"

IdempotencyInv == RowsReturned /\ Purges /\ SettledIsLive /\ LateIsAnswered /\ NothingSent

\* A call that is over stays over, with the result it returned and, if it sent
\* nothing, with nothing sent.  No call begins again.
LEMMA OverStays ==
  ASSUME TypeInv, [Next]_vars, NEW d \in Calls
  PROVE  /\ pc[d] = "done" => pc'[d] = "done" /\ res'[d] = res[d]
         /\ pc[d] # "check" => pc'[d] # "check"
         /\ (pc[d] # "send" /\ stage[d] = "none") => stage'[d] = "none"
<1>Types. CallTypeOK /\ ResultTypeOK
  BY DEF TypeInv, TypeOK
<1>1. ASSUME NEW c \in Calls,
             \/ CheckIdempotency(c) \/ PurgeExpired(c) \/ ResolveTarget(c) \/ CreatePending(c)
             \/ SendOK(c) \/ SendFails(c)
      PROVE  /\ pc[d] = "done" => pc'[d] = "done" /\ res'[d] = res[d]
             /\ pc[d] # "check" => pc'[d] # "check"
             /\ (pc[d] # "send" /\ stage[d] = "none") => stage'[d] = "none"
  BY <1>1, <1>Types DEF CheckIdempotency, PurgeExpired, ResolveTarget, CreatePending, SendOK,
     SendFails, Finish, Goto, CallTypeOK, ResultTypeOK, resultVars
<1>2. ASSUME NEW c \in Calls,
             WaitLookup(c) \/ Receive(c) \/ Timeout(c) \/ Forget(c) \/ CacheResult(c)
      PROVE  /\ pc[d] = "done" => pc'[d] = "done" /\ res'[d] = res[d]
             /\ pc[d] # "check" => pc'[d] # "check"
             /\ (pc[d] # "send" /\ stage[d] = "none") => stage'[d] = "none"
  BY <1>2, <1>Types DEF WaitLookup, Receive, Timeout, Forget, CacheResult, Finish, Goto,
     CallTypeOK, ResultTypeOK, resultVars
<1>3. ASSUME NEW c \in Calls, Execute(c) \/ HandleLookup(c) \/ HandleOffer(c)
      PROVE  UNCHANGED <<pc, res>> /\ (stage[d] = "none" => stage'[d] = "none")
  BY <1>3, <1>Types DEF Execute, HandleLookup, HandleOffer, callVars, ResultTypeOK
<1>4. ASSUME Restart
      PROVE  /\ pc[d] = "done" => pc'[d] = "done" /\ res'[d] = res[d]
             /\ pc[d] # "check" => pc'[d] # "check"
             /\ stage[d] = "none" => stage'[d] = "none"
  BY <1>4 DEF Restart, Begun, Returned
<1>5. ASSUME (\E k \in Keys : Expire(k)) \/ UNCHANGED vars PROVE UNCHANGED <<pc, res, stage>>
  BY <1>5 DEF Expire, vars, callVars, resultVars
<1> QED
  BY <1>1, <1>2, <1>3, <1>4, <1>5 DEF Next, Proceed, HandleCommandResult

\* A step that begins no call, sends nobody to delete a row and does not touch
\* the table keeps IdempotencyInv.
LEMMA TableUntouched ==
  ASSUME TypeInv, IdempotencyInv, [Next]_vars, UNCHANGED <<row, settled, late>>,
         \A c \in Calls : pc'[c] \in {"check", "purge"} => pc'[c] = pc[c]
  PROVE  IdempotencyInv'
<1>1. \A c \in Calls : /\ pc[c] = "done" => pc'[c] = "done" /\ res'[c] = res[c]
                       /\ pc[c] # "check" => pc'[c] # "check"
                       /\ (pc[c] # "send" /\ stage[c] = "none") => stage'[c] = "none"
  BY OverStays
<1>2. late \subseteq Calls /\ settled \subseteq Keys
  BY DEF TypeInv, TypeOK, TableTypeOK
<1>3. RowsReturned'
  BY <1>1 DEF IdempotencyInv, RowsReturned, Over
<1>4. Purges'
  BY <1>1 DEF IdempotencyInv, Purges, Over
<1>5. SettledIsLive'
  BY <1>1 DEF IdempotencyInv, SettledIsLive
<1>6. LateIsAnswered'
  BY <1>1, <1>2 DEF IdempotencyInv, LateIsAnswered, Over
<1>7. NothingSent'
  BY <1>1 DEF IdempotencyInv, NothingSent
<1> QED
  BY <1>3, <1>4, <1>5, <1>6, <1>7 DEF IdempotencyInv

LEMMA NextIdempotencyInv ==
  ASSUME DBMayFail = FALSE, NoFourthCall, TypeInv, IdempotencyInv, [Next]_vars
  PROVE  IdempotencyInv'
<1> USE DispatcherAssumption
<1>Types. CallTypeOK /\ ResultTypeOK /\ TableTypeOK /\ Known
  BY DEF TypeInv, TypeOK
<1>Inv. RowsReturned /\ Purges /\ SettledIsLive /\ LateIsAnswered /\ NothingSent
  BY DEF IdempotencyInv
<1>Over. \A c \in Calls : /\ pc[c] = "done" => pc'[c] = "done" /\ res'[c] = res[c]
                          /\ pc[c] # "check" => pc'[c] # "check"
                          /\ (pc[c] # "send" /\ stage[c] = "none") => stage'[c] = "none"
  BY OverStays
<1>Sets. late \subseteq Calls /\ settled \subseteq Keys
  BY <1>Types DEF TableTypeOK
<1>Sent. NothingSent'
  BY <1>Over, <1>Inv DEF NothingSent
<1>1. ASSUME NEW c \in Calls, CheckIdempotency(c) PROVE IdempotencyInv'
  <2> DEFINE k == KeyOf[c]
  <2>1. /\ pc[c] = "check" /\ UNCHANGED <<row, settled, stage>>
        /\ late' = IF k \in settled THEN late \cup {c} ELSE late
        /\ \A d \in Calls \ {c} : pc'[d] = pc[d] /\ res'[d] = res[d]
    BY <1>1, <1>Types DEF CheckIdempotency, Goto, CallTypeOK, resultVars
  <2>2. /\ pc'[c] = "purge" => k \in Keys /\ row[k] # None /\ ~ row[k].live
        /\ (k \in Keys /\ row[k] # None /\ row[k].live) =>
             pc'[c] = "done" /\ res'[c] = row[k].res
    BY <1>1, <1>Types DEF CheckIdempotency, Goto, CallTypeOK
  <2>3. k \in settled => k \in Keys /\ row[k] # None /\ row[k].live
    BY <2>1, <1>Inv, <1>Sets DEF SettledIsLive
  <2>4. (k \in Keys /\ row[k] # None) =>
          \E d \in Calls \ {c} : KeyOf[d] = k /\ pc[d] = "done" /\ res[d] = row[k].res
    BY <2>1, <1>Inv DEF RowsReturned, Over
  <2>5. RowsReturned'
    BY <2>1, <1>Over, <1>Inv DEF RowsReturned, Over
  <2>6. Purges'
    <3>1. ASSUME pc'[c] = "purge"
          PROVE  /\ MaxExpiries # 0 /\ k \notin settled
                 /\ \E d \in Calls \ {c} : KeyOf[d] = k /\ pc'[d] = "done"
      BY <3>1, <2>2, <2>3, <2>4, <1>Over, <1>Inv DEF Purges
    <3> QED
      BY <3>1, <2>1, <1>Over, <1>Inv DEF Purges, Over
  <2>7. SettledIsLive'
    BY <2>1, <1>Over, <1>Inv DEF SettledIsLive
  <2>8. LateIsAnswered'
    <3>1. ASSUME c \in late'
          PROVE  /\ pc'[c] = "done" /\ stage'[c] = "none"
                 /\ \E d \in Calls \ {c} : KeyOf[d] = k /\ pc'[d] = "done" /\ res'[d] = res'[c]
      <4>1. k \in settled
        BY <3>1, <2>1, <1>Inv DEF LateIsAnswered
      <4>2. pc'[c] = "done" /\ res'[c] = row[k].res
        BY <4>1, <2>2, <2>3
      <4>3. stage'[c] = "none"
        BY <2>1, <1>Inv DEF NothingSent
      <4> QED
        BY <4>1, <4>2, <4>3, <2>1, <2>3, <2>4
    <3>2. ASSUME NEW d \in late', d # c
          PROVE  /\ pc'[d] = "done" /\ stage'[d] = "none"
                 /\ \E e \in Calls \ {d} :
                      KeyOf[e] = KeyOf[d] /\ pc'[e] = "done" /\ res'[e] = res'[d]
      <4>1. d \in late /\ d \in Calls
        BY <3>2, <2>1, <1>Sets
      <4> QED
        BY <4>1, <1>Over, <1>Inv DEF LateIsAnswered, Over
    <3> QED
      BY <3>1, <3>2 DEF LateIsAnswered, Over
  <2> QED
    BY <2>5, <2>6, <2>7, <2>8, <1>Sent DEF IdempotencyInv
<1>2. ASSUME NEW c \in Calls, PurgeExpired(c) PROVE IdempotencyInv'
  <2> DEFINE k == KeyOf[c]
  <2>1. /\ pc[c] = "purge" /\ pc'[c] = "resolve" /\ k \in Keys
        /\ UNCHANGED <<settled, late>>
        /\ \A j \in Keys : row'[j] = IF j = k THEN None ELSE row[j]
        /\ \A d \in Calls \ {c} : pc'[d] = pc[d]
    BY <1>2, <1>Types DEF PurgeExpired, Goto, CallTypeOK, TableTypeOK, Known
  <2>2. k \in settled => \A d \in Calls : KeyOf[d] = k => pc[d] # "check"
    <3> SUFFICES ASSUME k \in settled, NEW f \in Calls, KeyOf[f] = k PROVE pc[f] # "check"
      OBVIOUS
    <3>1. MaxExpiries # 0
      BY <2>1, <1>Inv DEF Purges
    <3>2. PICK d \in Calls \ {c}, e \in Calls \ {c} : d # e /\ Over(d, k) /\ Over(e, k)
      BY <2>1, <1>Inv DEF Purges
    <3>3. f = c \/ f = d \/ f = e
      BY <2>1, <3>1, <3>2 DEF NoFourthCall, Over
    <3> QED
      BY <2>1, <3>2, <3>3 DEF Over
  <2>3. RowsReturned'
    BY <2>1, <1>Over, <1>Inv DEF RowsReturned, Over
  <2>4. Purges'
    BY <2>1, <1>Over, <1>Inv DEF Purges, Over
  <2>5. SettledIsLive'
    BY <2>1, <2>2, <1>Over, <1>Inv, <1>Sets DEF SettledIsLive
  <2>6. LateIsAnswered'
    BY <2>1, <1>Over, <1>Inv, <1>Sets DEF LateIsAnswered, Over
  <2> QED
    BY <2>3, <2>4, <2>5, <2>6, <1>Sent DEF IdempotencyInv
<1>3. ASSUME NEW c \in Calls, CacheResult(c) PROVE IdempotencyInv'
  <2> DEFINE k == KeyOf[c]
  <2>1. /\ pc[c] = "cache" /\ pc'[c] = "done" /\ k \in Keys /\ res'[c] = res[c]
        /\ settled' = settled \cup {k} /\ UNCHANGED late
        /\ \A d \in Calls \ {c} : pc'[d] = pc[d]
    BY <1>3, <1>Types DEF CacheResult, Goto, CallTypeOK, Known
  <2>2. /\ \A j \in Keys \ {k} : row'[j] = row[j]
        /\ row'[k] = [res |-> res[c], live |-> TRUE]
    BY <1>3, <2>1, <1>Types DEF CacheResult, TableTypeOK
  <2>3. row'[k] # None /\ row'[k].live /\ row'[k].res = res[c]
    <3>1. res[c] \in Results
      BY <2>1, <1>Types DEF Known
    <3> DEFINE stored == [res |-> res[c], live |-> TRUE]
    <3>2. stored \in [res : Results, live : BOOLEAN] /\ stored.live /\ stored.res = res[c]
      BY <3>1
    <3>3. row'[k] = stored
      BY <2>2
    <3> HIDE DEF stored, k
    <3> QED
      BY <3>2, <3>3
  <2> HIDE DEF k
  <2>4. RowsReturned'
    BY <2>1, <2>2, <2>3, <1>Over, <1>Inv DEF RowsReturned, Over, k
  <2>5. Purges'
    <3>1. ASSUME NEW d \in Calls, pc'[d] = "purge"
          PROVE  MaxExpiries # 0 /\ \E e \in Calls \ {d} : KeyOf[e] = KeyOf[d] /\ pc'[e] = "done"
      BY <3>1, <2>1, <1>Over, <1>Inv DEF Purges, Over
    <3>2. ASSUME NEW d \in Calls, pc'[d] = "purge", KeyOf[d] \in settled'
          PROVE  \E e, f \in Calls \ {d} :
                   /\ e # f /\ KeyOf[e] = KeyOf[d] /\ pc'[e] = "done"
                   /\ KeyOf[f] = KeyOf[d] /\ pc'[f] = "done"
      <4>1. d # c /\ pc[d] = "purge"
        BY <3>2, <2>1
      <4>2. CASE KeyOf[d] \in settled
        BY <4>1, <4>2, <1>Over, <1>Inv DEF Purges, Over
      <4>3. CASE KeyOf[d] = k
        <5>1. PICK e \in Calls \ {d} : KeyOf[e] = KeyOf[d] /\ pc[e] = "done"
          BY <4>1, <1>Inv DEF Purges, Over
        <5>2. e # c /\ pc'[e] = "done" /\ pc'[c] = "done" /\ KeyOf[c] = KeyOf[d]
          BY <5>1, <4>3, <2>1, <1>Over DEF k
        <5> QED
          BY <5>1, <5>2, <4>1
      <4> QED
        BY <3>2, <4>2, <4>3, <2>1
    <3>3. \A j \in Keys : (MaxExpiries = 0 /\ row'[j] # None) => row'[j].live
      BY <2>2, <2>3, <1>Inv DEF Purges
    <3> QED
      BY <3>1, <3>2, <3>3 DEF Purges, Over
  <2>6. SettledIsLive'
    BY <2>1, <2>2, <2>3, <1>Over, <1>Inv, <1>Sets DEF SettledIsLive
  <2>7. LateIsAnswered'
    BY <2>1, <1>Over, <1>Inv, <1>Sets DEF LateIsAnswered, Over
  <2> QED
    BY <2>4, <2>5, <2>6, <2>7, <1>Sent DEF IdempotencyInv
<1>4. ASSUME NEW k \in Keys, Expire(k) PROVE IdempotencyInv'
  <2>1. /\ MaxExpiries # 0 /\ settled' = settled \ {k} /\ UNCHANGED <<pc, res, stage, late>>
        /\ row[k] # None /\ row'[k].res = row[k].res
        /\ \A j \in Keys \ {k} : row'[j] = row[j]
    BY <1>4, <1>Types DEF Expire, callVars, resultVars, TableTypeOK
  <2>2. RowsReturned'
    BY <2>1, <1>Inv DEF RowsReturned, Over
  <2>3. Purges'
    BY <2>1, <1>Inv DEF Purges, Over
  <2>4. SettledIsLive'
    BY <2>1, <1>Inv, <1>Sets DEF SettledIsLive
  <2>5. LateIsAnswered'
    BY <2>1, <1>Inv, <1>Sets DEF LateIsAnswered, Over
  <2> QED
    BY <2>2, <2>3, <2>4, <2>5, <1>Sent DEF IdempotencyInv
<1>5. ASSUME NEW c \in Calls,
             \/ ResolveTarget(c) \/ CreatePending(c) \/ SendOK(c) \/ SendFails(c)
             \/ WaitLookup(c) \/ Receive(c) \/ Timeout(c) \/ Forget(c)
      PROVE  IdempotencyInv'
  <2>1. UNCHANGED <<row, settled, late>>
    BY <1>5 DEF ResolveTarget, CreatePending, SendOK, SendFails, WaitLookup, Receive, Timeout,
       Forget, tableVars
  <2>2. \A d \in Calls : pc'[d] \in {"check", "purge"} => pc'[d] = pc[d]
    BY <1>5, <1>Types DEF ResolveTarget, CreatePending, SendOK, SendFails, WaitLookup, Receive,
       Timeout, Forget, Finish, Goto, CallTypeOK
  <2> QED
    BY <2>1, <2>2, TableUntouched
<1>6. ASSUME NEW c \in Calls, Execute(c) \/ HandleLookup(c) \/ HandleOffer(c)
      PROVE  IdempotencyInv'
  BY <1>6, TableUntouched DEF Execute, HandleLookup, HandleOffer, callVars, tableVars
<1>7. CASE Restart
  <2>1. UNCHANGED <<row, settled, late>>
    BY <1>7 DEF Restart, tableVars
  <2>2. \A d \in Calls : pc'[d] \in {"check", "purge"} => pc'[d] = pc[d]
    BY <1>7 DEF Restart
  <2> QED
    BY <2>1, <2>2, TableUntouched
<1>8. CASE UNCHANGED vars
  BY <1>8, TableUntouched DEF vars, callVars, tableVars
<1> QED
  BY <1>1, <1>2, <1>3, <1>4, <1>5, <1>6, <1>7, <1>8 DEF Next, Proceed, HandleCommandResult

\* While the table's statements succeed, a call that begins after an answer to
\* its key was returned, and before that answer expires, sends nothing and
\* returns what an earlier call returned, also over restarts; for any ids, and
\* for any number of calls of a key unless rows expire under way, when three
\* calls of a key are the most for which it holds.
THEOREM LateCallsReuse ==
  ASSUME DBMayFail = FALSE, NoFourthCall
  PROVE  Spec => []LateCallReusesAnswer
<1>1. Init => IdempotencyInv
  BY DEF Init, IdempotencyInv, RowsReturned, Purges, SettledIsLive, LateIsAnswered, NothingSent
<1>2. IdempotencyInv => LateCallReusesAnswer
  BY DEF IdempotencyInv, LateIsAnswered, LateCallReusesAnswer, Over, Returned
<1>3. TypeInv /\ IdempotencyInv /\ [Next]_vars => IdempotencyInv'
  BY NextIdempotencyInv
<1> QED
  BY <1>1, <1>2, <1>3, InitTypeInv, NextTypeInv, PTL DEF Spec
=============================================================================
