-------------------------- MODULE CommandDispatcher --------------------------
(***************************************************************************)
(* The supervisor's command dispatcher (command_dispatcher.go): an HTTP    *)
(* handler, the Discord bot or the policy engine calls DispatchCommand,    *)
(* which answers from the command_idempotency table or sends the command   *)
(* to an agent and waits on a channel for its result.  Results come in     *)
(* through HandleCommandResult, on the read pump of a connection.          *)
(*                                                                         *)
(* A call is one invocation of DispatchCommand.  Its steps are the places  *)
(* where it takes pendingMu, queries the database, or sends; calls, read   *)
(* pumps and agents interleave between them.                               *)
(***************************************************************************)
EXTENDS Naturals

CONSTANTS Calls,        \* invocations of DispatchCommand
          Ids,          \* command ids
          IdOf,         \* IdOf[c]: the id given to, or generated by, call c
          Keys,         \* idempotency hashes (key and canonical payload)
          KeyOf,        \* KeyOf[c]: the hash of call c, or NoKey
          NoKey,        \* the command has no idempotency key
          NoChan,       \* no channel
          None,         \* no result, no row
          Error,        \* DispatchCommand returned an error
          DBMayFail,    \* may a query on command_idempotency fail?
          MaxExpiries,  \* bound on expiries of rows
          MaxRestarts   \* bound on restarts of the supervisor

\* The channels: call c makes at most one in sendCommand and one in
\* waitForResult.
Chans == Calls \X {"send", "wait"}

\* A result: the call whose command it answers, and whether the agent produced
\* it or DispatchCommand did (no online target; timeout).
Results == [by : Calls, from : {"agent", "unresolved", "timeout"}]

ASSUME DispatcherAssumption ==
  /\ IdOf \in [Calls -> Ids]
  /\ KeyOf \in [Calls -> Keys \cup {NoKey}]
  /\ NoKey \notin Keys
  /\ NoChan \notin Chans
  /\ None \notin Results
  /\ Error \notin Results /\ Error # None
  /\ None \notin [res : Results, live : BOOLEAN]
  /\ DBMayFail \in BOOLEAN
  /\ MaxExpiries \in Nat
  /\ MaxRestarts \in Nat

VARIABLES
  pc,        \* where a call is
  res,       \* res[c]: what call c returns, once it knows
  chan,      \* chan[c]: the channel waitForResult of c receives from
  pending,   \* d.pending: command id -> channel
  content,   \* the buffered result of a channel (capacity 1), or None
  stage,     \* how far c's command got at the agent and its result on the way back
  held,      \* held[c]: the channel HandleCommandResult looked up for c's result
  row,       \* the command_idempotency table: hash -> result and whether it is live
  settled,   \* history: hashes whose result was returned and has not expired
  late,      \* history: calls that began when their hash was settled
  expiries,  \* expiries so far
  restarts   \* restarts so far

callVars   == <<pc, res, chan>>
resultVars == <<pending, content, stage, held>>
tableVars  == <<row, settled, late, expiries>>
vars == <<callVars, resultVars, tableVars, restarts>>

Begun(c) == pc[c] # "check"
Returned(c) == pc[c] = "done"

-----------------------------------------------------------------------------
(* DispatchCommand.                                                        *)

Goto(c, label) == pc' = [pc EXCEPT ![c] = label]

\* Return result r: through cacheResult when the command has a key.
Finish(c, r) ==
  /\ Goto(c, IF KeyOf[c] = NoKey THEN "done" ELSE "cache")
  /\ res' = [res EXCEPT ![c] = r]

\* DispatchCommand up to checkIdempotency's query.  A live row is the answer;
\* an expired one is deleted by a second statement; a missing one, and a
\* failed query, count as a miss.
CheckIdempotency(c) ==
  LET k == KeyOf[c] IN
  /\ pc[c] = "check"
  /\ late' = IF k \in settled THEN late \cup {c} ELSE late
  /\ \/ /\ k = NoKey \/ DBMayFail
        /\ Goto(c, "resolve") /\ UNCHANGED res
     \/ /\ k # NoKey /\ row[k] = None
        /\ Goto(c, "resolve") /\ UNCHANGED res
     \/ /\ k # NoKey /\ row[k] # None /\ row[k].live
        /\ Goto(c, "done") /\ res' = [res EXCEPT ![c] = row[k].res]
     \/ /\ k # NoKey /\ row[k] # None /\ ~ row[k].live
        /\ Goto(c, "purge") /\ UNCHANGED res
  /\ UNCHANGED <<chan, resultVars, row, settled, expiries, restarts>>

\* DELETE FROM command_idempotency, whatever the row now holds; a failure is
\* only logged.
PurgeExpired(c) ==
  /\ pc[c] = "purge"
  /\ \/ row' = [row EXCEPT ![KeyOf[c]] = None]
     \/ DBMayFail /\ UNCHANGED row
  /\ Goto(c, "resolve")
  /\ UNCHANGED <<res, chan, resultVars, settled, late, expiries, restarts>>

\* resolveTarget finds an online node, or the call fails without sending; that
\* failure is a result like any other.
ResolveTarget(c) ==
  /\ pc[c] = "resolve"
  /\ \/ Goto(c, "pend") /\ UNCHANGED res
     \/ Finish(c, [by |-> c, from |-> "unresolved"])
  /\ UNCHANGED <<chan, resultVars, tableVars, restarts>>

\* The channel pending[id], made now if there is none.
PendingChan(i, fresh) == IF pending[i] = NoChan THEN fresh ELSE pending[i]

\* Mutant of CreatePending: the channel is left to waitForResult.
CreateNothing(c) ==
  /\ pc[c] = "pend"
  /\ Goto(c, "send")
  /\ UNCHANGED <<res, chan, resultVars, tableVars, restarts>>

\* sendCommand makes the channel before it sends.
CreatePending(c) ==
  /\ pc[c] = "pend"
  /\ pending' = [pending EXCEPT ![IdOf[c]] = PendingChan(IdOf[c], <<c, "send">>)]
  /\ Goto(c, "send")
  /\ UNCHANGED <<res, chan, content, stage, held, tableVars, restarts>>

\* transport.Send accepts the command ...
SendOK(c) ==
  /\ pc[c] = "send"
  /\ stage' = [stage EXCEPT ![c] = "sent"]
  /\ Goto(c, "lookup")
  /\ UNCHANGED <<res, chan, pending, content, held, tableVars, restarts>>

\* Mutant of SendFails: the entry is not deleted.
SendFailsKeeps(c) ==
  /\ pc[c] = "send"
  /\ Goto(c, "done") /\ res' = [res EXCEPT ![c] = Error]
  /\ UNCHANGED <<chan, resultVars, tableVars, restarts>>

\* ... or fails: the entry is deleted and the error is returned uncached.
SendFails(c) ==
  /\ pc[c] = "send"
  /\ pending' = [pending EXCEPT ![IdOf[c]] = NoChan]
  /\ Goto(c, "done") /\ res' = [res EXCEPT ![c] = Error]
  /\ UNCHANGED <<chan, content, stage, held, tableVars, restarts>>

\* waitForResult looks the channel up again, and makes one if it is gone.
WaitLookup(c) ==
  LET ch == PendingChan(IdOf[c], <<c, "wait">>) IN
  /\ pc[c] = "lookup"
  /\ pending' = [pending EXCEPT ![IdOf[c]] = ch]
  /\ chan' = [chan EXCEPT ![c] = ch]
  /\ Goto(c, "wait")
  /\ UNCHANGED <<res, content, stage, held, tableVars, restarts>>

\* waitForResult receives a result ...
Receive(c) ==
  /\ pc[c] = "wait" /\ content[chan[c]] # None
  /\ res' = [res EXCEPT ![c] = content[chan[c]]]
  /\ content' = [content EXCEPT ![chan[c]] = None]
  /\ Goto(c, "forget")
  /\ UNCHANGED <<chan, pending, stage, held, tableVars, restarts>>

\* Mutant of Timeout: no timeout once the agent has the command.
TimeoutUnsent(c) ==
  /\ pc[c] = "wait" /\ stage[c] = "sent"
  /\ res' = [res EXCEPT ![c] = [by |-> c, from |-> "timeout"]]
  /\ Goto(c, "forget")
  /\ UNCHANGED <<chan, resultVars, tableVars, restarts>>

\* ... or its timer fires, perhaps with a result already in the channel.
Timeout(c) ==
  /\ pc[c] = "wait"
  /\ res' = [res EXCEPT ![c] = [by |-> c, from |-> "timeout"]]
  /\ Goto(c, "forget")
  /\ UNCHANGED <<chan, resultVars, tableVars, restarts>>

\* The deferred delete of waitForResult, whichever channel the entry holds.
Forget(c) ==
  /\ pc[c] = "forget"
  /\ pending' = [pending EXCEPT ![IdOf[c]] = NoChan]
  /\ Finish(c, res[c])
  /\ UNCHANGED <<chan, content, stage, held, tableVars, restarts>>

\* Mutant of CacheResult: only results of the agent are stored.
CacheAgentOnly(c) ==
  /\ pc[c] = "cache"
  /\ row' = IF res[c].from = "agent"
            THEN [row EXCEPT ![KeyOf[c]] = [res |-> res[c], live |-> TRUE]] ELSE row
  /\ settled' = settled \cup {KeyOf[c]}
  /\ Goto(c, "done")
  /\ UNCHANGED <<res, chan, resultVars, late, expiries, restarts>>

\* cacheResult upserts the row, live for 24 hours; when that fails the call
\* returns the error and the result is gone.
CacheResult(c) ==
  /\ pc[c] = "cache"
  /\ \/ /\ row' = [row EXCEPT ![KeyOf[c]] = [res |-> res[c], live |-> TRUE]]
        /\ settled' = settled \cup {KeyOf[c]}
        /\ UNCHANGED res
     \/ /\ DBMayFail
        /\ res' = [res EXCEPT ![c] = Error]
        /\ UNCHANGED <<row, settled>>
  /\ Goto(c, "done")
  /\ UNCHANGED <<chan, resultVars, late, expiries, restarts>>

-----------------------------------------------------------------------------
(* The agent and HandleCommandResult.                                      *)

\* The agent executes the command and answers, or does not: some handlers send
\* no result and the connection may be lost.
Execute(c) ==
  /\ stage[c] = "sent"
  /\ \E s \in {"answered", "silent"} : stage' = [stage EXCEPT ![c] = s]
  /\ UNCHANGED <<callVars, pending, content, held, tableVars, restarts>>

\* Mutant of HandleLookup: any waiter is completed, not the one of this id.
HandleLookupAny(c) ==
  LET waiters == {i \in Ids : pending[i] # NoChan}
      ch == IF waiters = {} THEN NoChan ELSE pending[CHOOSE i \in waiters : TRUE] IN
  /\ stage[c] = "answered"
  /\ stage' = [stage EXCEPT ![c] = IF ch = NoChan THEN "dropped" ELSE "held"]
  /\ held' = [held EXCEPT ![c] = ch]
  /\ UNCHANGED <<callVars, pending, content, tableVars, restarts>>

\* HandleCommandResult finds the channel under pendingMu, or drops the result.
HandleLookup(c) ==
  LET ch == pending[IdOf[c]] IN
  /\ stage[c] = "answered"
  /\ stage' = [stage EXCEPT ![c] = IF ch = NoChan THEN "dropped" ELSE "held"]
  /\ held' = [held EXCEPT ![c] = ch]
  /\ UNCHANGED <<callVars, pending, content, tableVars, restarts>>

\* It sends on the channel after unlocking, without blocking: a full channel
\* drops the result.
HandleOffer(c) ==
  LET ch == held[c] IN
  /\ stage[c] = "held"
  /\ \/ /\ content[ch] = None
        /\ content' = [content EXCEPT ![ch] = [by |-> c, from |-> "agent"]]
        /\ stage' = [stage EXCEPT ![c] = "delivered"]
     \/ /\ content[ch] # None
        /\ stage' = [stage EXCEPT ![c] = "dropped"]
        /\ UNCHANGED content
  /\ held' = [held EXCEPT ![c] = NoChan]
  /\ UNCHANGED <<callVars, pending, tableVars, restarts>>

-----------------------------------------------------------------------------
(* Time and failure.                                                       *)

\* 24 hours pass since the row was written.
Expire(k) ==
  /\ expiries < MaxExpiries /\ expiries' = expiries + 1
  /\ row[k] # None /\ row[k].live
  /\ row' = [row EXCEPT ![k].live = FALSE]
  /\ settled' = settled \ {k}
  /\ UNCHANGED <<callVars, resultVars, late, restarts>>

\* The supervisor restarts: the table survives; calls under way get no answer,
\* and results on the way back are lost with their connections.
Restart ==
  LET active == {c \in Calls : Begun(c) /\ ~ Returned(c)} IN
  /\ restarts < MaxRestarts /\ restarts' = restarts + 1
  /\ pc' = [c \in Calls |-> IF c \in active THEN "done" ELSE pc[c]]
  /\ res' = [c \in Calls |-> IF c \in active THEN Error ELSE res[c]]
  /\ pending' = [i \in Ids |-> NoChan]
  /\ content' = [ch \in Chans |-> None]
  /\ stage' = [c \in Calls |-> IF stage[c] \in {"answered", "held"} THEN "dropped"
                               ELSE stage[c]]
  /\ held' = [c \in Calls |-> NoChan]
  /\ UNCHANGED <<chan, tableVars>>

-----------------------------------------------------------------------------
Init ==
  /\ pc = [c \in Calls |-> "check"] /\ res = [c \in Calls |-> None]
  /\ chan = [c \in Calls |-> NoChan]
  /\ pending = [i \in Ids |-> NoChan] /\ content = [ch \in Chans |-> None]
  /\ stage = [c \in Calls |-> "none"] /\ held = [c \in Calls |-> NoChan]
  /\ row = [k \in Keys |-> None]
  /\ settled = {} /\ late = {} /\ expiries = 0 /\ restarts = 0

\* What a call does by itself once it has begun.
Proceed(c) ==
  \/ PurgeExpired(c) \/ ResolveTarget(c) \/ CreatePending(c)
  \/ SendOK(c) \/ SendFails(c) \/ WaitLookup(c)
  \/ Receive(c) \/ Timeout(c) \/ Forget(c) \/ CacheResult(c)

HandleCommandResult(c) == HandleLookup(c) \/ HandleOffer(c)

Next ==
  \/ \E c \in Calls : CheckIdempotency(c) \/ Proceed(c)
  \/ \E c \in Calls : Execute(c) \/ HandleCommandResult(c)
  \/ \E k \in Keys : Expire(k)
  \/ Restart

Spec == Init /\ [][Next]_vars

\* Every goroutine that can run does, and the timer of waitForResult fires.
FairSpec == Spec /\ \A c \in Calls : WF_vars(Proceed(c))

-----------------------------------------------------------------------------
(* Properties.                                                             *)

CallTypeOK ==
  /\ pc \in [Calls -> {"check", "purge", "resolve", "pend", "send", "lookup", "wait",
                       "forget", "cache", "done"}]
  /\ res \in [Calls -> Results \cup {None, Error}]
  /\ chan \in [Calls -> Chans \cup {NoChan}]

ResultTypeOK ==
  /\ pending \in [Ids -> Chans \cup {NoChan}]
  /\ content \in [Chans -> Results \cup {None}]
  /\ stage \in [Calls -> {"none", "sent", "answered", "silent", "held", "delivered",
                          "dropped"}]
  /\ held \in [Calls -> Chans \cup {NoChan}]

TableTypeOK ==
  /\ row \in [Keys -> [res : Results, live : BOOLEAN] \cup {None}]
  /\ settled \in SUBSET Keys /\ late \in SUBSET Calls
  /\ expiries \in 0..MaxExpiries

\* The state has the shape the Go types give it; in particular only results,
\* never errors, are stored in command_idempotency.
TypeOK ==
  CallTypeOK /\ ResultTypeOK /\ TableTypeOK /\ restarts \in 0..MaxRestarts

\* Calls whose entry in d.pending is still theirs to delete.
Waiting(c) == pc[c] \in {"send", "lookup", "wait", "forget"}

\* No entry of d.pending outlives the calls that use its id: whatever happens
\* to a call (a failed send, a result, a timeout, another call with the same
\* id), the last one to leave takes the entry with it.
NoLeakedWaiter ==
  \A i \in Ids : pending[i] # NoChan => \E c \in Calls : IdOf[c] = i /\ Waiting(c)

\* Every call has a command id of its own, as when DispatchCommand generates it.
OwnIdPerCall == \A c, d \in Calls : IdOf[c] = IdOf[d] => c = d

\* HandleCommandResult completes the matching waiter: a result is dropped only
\* when its call has stopped waiting.  In particular an agent that answers
\* before waitForResult is reached is not too early.
ResultReachesWaiter ==
  \A c \in Calls : stage[c] = "dropped" => pc[c] \notin {"send", "lookup", "wait"}

\* A call returns the result of its own command, or, when it has a key, of a
\* command with the same key; an agent's result is of a command it received.
OwnAnswer ==
  \A c \in Calls :
    (Returned(c) /\ res[c] \in Results) =>
      /\ res[c].by = c \/ (KeyOf[c] # NoKey /\ KeyOf[res[c].by] = KeyOf[c])
      /\ res[c].from = "agent" => stage[res[c].by] = "delivered"

\* A call that begins after an earlier call with its key has returned a result,
\* and before that result expires, sends nothing and returns what an earlier
\* call was given, also when the supervisor restarted in between.
LateCallReusesAnswer ==
  \A c \in late :
    /\ stage[c] = "none"
    /\ \E d \in Calls \ {c} : KeyOf[d] = KeyOf[c] /\ Returned(d) /\ res[d] = res[c]

\* Every call returns, whatever the agent does: there is no command without a
\* result, an error or a timeout.
EveryCallReturns == \A c \in Calls : Begun(c) ~> Returned(c)
=============================================================================
