--------------------------- MODULE CredentialPush ----------------------------
(***************************************************************************)
(* A credential push from the HTTP API to an agent: the API's idempotency  *)
(* cache (http_api.go) in front of the dispatcher and its table, and the   *)
(* agent's CredentialApplier (credential_apply.go), which remembers the    *)
(* ids of the commands it has applied.                                     *)
(*                                                                         *)
(* The agent's handler never sends a command_result, so a push that was    *)
(* sent ends in the dispatcher's timeout, and that is the result cached    *)
(* under its key. Every dispatch has a command id of its own: the request. *)
(***************************************************************************)
EXTENDS Integers, Sequences, FiniteSets, SequencesExt

CONSTANTS Requests,     \* HTTP requests
          KeyOf,        \* KeyOf[r]: the idempotency key of request r
          NoKey,        \* the empty key
          HttpCap,      \* maxCredentialIdempotencyEntries (1000)
          AppliedCap,   \* maxAppliedCredentialCommandIDs (1000)
          MaxRepeats,   \* bound on repeated deliveries
          MaxTroubles   \* bound on restarts, expiries and failing inserts

PushKeys == {KeyOf[r] : r \in Requests} \ {NoKey}

ASSUME PushAssumption ==
  /\ HttpCap \in Nat \ {0} /\ AppliedCap \in Nat \ {0}
  /\ MaxRepeats \in Nat /\ MaxTroubles \in Nat

VARIABLES
  req,        \* req[r]: "new", "dispatch", "wait", "set", "answered", "failed"
  cache,      \* keys in the API's cache, oldest first
  table,      \* keys in command_idempotency
  wire,       \* commands on their way to the agent
  order,      \* the agent's appliedCommandOrder
  applied,    \* history: commands applied since the agent started
  sends,      \* history: sends[k]: commands sent under key k
  excused,    \* history: keys whose requests overlapped, whose row expired
              \* or could not be written
  repeats, troubles

pushVars == <<req, cache, table, wire, order, applied, sends, excused, repeats, troubles>>

Busy(r) == req[r] \in {"dispatch", "wait", "set"}
Overlaps(r) == \E x \in Requests \ {r} : KeyOf[x] = KeyOf[r] /\ Busy(x)
Answer(r, pc) == req' = [req EXCEPT ![r] = pc]
Trouble == troubles < MaxTroubles /\ troubles' = troubles + 1

-----------------------------------------------------------------------------
IdempotencyGet(r) == KeyOf[r] \in Range(cache)

\* handleCredentialPush asks its cache first.
BeginPush(r) ==
  /\ req[r] = "new"
  /\ Answer(r, IF IdempotencyGet(r) THEN "answered" ELSE "dispatch")
  /\ excused' = IF Overlaps(r) THEN excused \cup {KeyOf[r]} ELSE excused
  /\ UNCHANGED <<cache, table, wire, order, applied, sends, repeats, troubles>>

\* DispatchCommand answers from its table.
DispatchCached(r) ==
  /\ req[r] = "dispatch"
  /\ KeyOf[r] \in table
  /\ Answer(r, "set")
  /\ UNCHANGED <<cache, table, wire, order, applied, sends, excused, repeats, troubles>>

\* resolveTarget finds no such node online: that is a result, of status
\* failure, and stored under the key like any other.
DispatchOffline(r) ==
  /\ req[r] = "dispatch"
  /\ KeyOf[r] \notin table
  /\ table' = table \cup ({KeyOf[r]} \ {NoKey})
  /\ Answer(r, "set")
  /\ UNCHANGED <<cache, wire, order, applied, sends, excused, repeats, troubles>>

\* The send fails: an error, and nothing is cached.
DispatchFails(r) ==
  /\ req[r] = "dispatch"
  /\ KeyOf[r] \notin table
  /\ Answer(r, "failed")
  /\ UNCHANGED <<cache, table, wire, order, applied, sends, excused, repeats, troubles>>

DispatchSends(r) ==
  /\ req[r] = "dispatch"
  /\ KeyOf[r] \notin table
  /\ wire' = Append(wire, r)
  /\ sends' = [k \in PushKeys |-> sends[k] + (IF k = KeyOf[r] THEN 1 ELSE 0)]
  /\ Answer(r, "wait")
  /\ UNCHANGED <<cache, table, order, applied, excused, repeats, troubles>>

\* Mutant of PushTimesOut: a timeout is not cached.
PushTimesOutUncached(r) ==
  /\ req[r] = "wait"
  /\ Answer(r, "set")
  /\ UNCHANGED <<cache, table, wire, order, applied, sends, excused, repeats, troubles>>

\* The dispatcher's timeout; its result is stored under the key.
PushTimesOut(r) ==
  /\ req[r] = "wait"
  /\ table' = table \cup ({KeyOf[r]} \ {NoKey})
  /\ Answer(r, "set")
  /\ UNCHANGED <<cache, wire, order, applied, sends, excused, repeats, troubles>>

\* The result cannot be stored: DispatchCommand returns an error although
\* the command was sent.
PushNotStored(r) ==
  /\ req[r] = "wait" /\ KeyOf[r] # NoKey
  /\ Trouble
  /\ Answer(r, "failed")
  /\ excused' = excused \cup {KeyOf[r]}
  /\ UNCHANGED <<cache, table, wire, order, applied, sends, repeats>>

\* credentialPushIdempotencySet: a new key evicts the oldest at the cap.
IdempotencySet(r) ==
  /\ req[r] = "set"
  /\ cache' = IF KeyOf[r] = NoKey \/ KeyOf[r] \in Range(cache) THEN cache
              ELSE IF Len(cache) < HttpCap THEN Append(cache, KeyOf[r])
              ELSE Append(Tail(cache), KeyOf[r])
  /\ Answer(r, "answered")
  /\ UNCHANGED <<table, wire, order, applied, sends, excused, repeats, troubles>>

\* The supervisor restarts: its cache, its requests and its connections are
\* gone, the table stays.
SupervisorRestart ==
  /\ Trouble
  /\ cache' = <<>>
  /\ req' = [r \in Requests |-> IF Busy(r) THEN "failed" ELSE req[r]]
  /\ excused' = excused \cup {KeyOf[r] : r \in {x \in Requests : req[x] = "wait"}}
  /\ wire' = <<>>
  /\ UNCHANGED <<table, order, applied, sends, repeats>>

\* 24 hours are over.
ExpireKey(k) ==
  /\ k \in table /\ Trouble
  /\ table' = table \ {k}
  /\ excused' = excused \cup {k}
  /\ UNCHANGED <<req, cache, wire, order, applied, sends, repeats>>

-----------------------------------------------------------------------------
\* Mutant of RememberCommandID: one id fewer is kept.
RememberFewer(r) ==
  order' = IF Len(order) < AppliedCap - 1 THEN Append(order, r)
           ELSE IF order = <<>> THEN <<>> ELSE Append(Tail(order), r)

\* rememberCommandIDLocked: the id is appended and the oldest evicted above
\* the cap.
RememberCommandID(r) ==
  order' = IF Len(order) < AppliedCap THEN Append(order, r)
           ELSE Append(Tail(order), r)

\* A remembered id is ignored.
ApplyIfNew(r) ==
  IF r \in Range(order)
    THEN UNCHANGED <<order, applied>>
    ELSE RememberCommandID(r) /\ applied' = Append(applied, r)

\* The agent's handler; nothing is sent back.
HandleCredentialPush ==
  /\ wire # <<>>
  /\ ApplyIfNew(Head(wire))
  /\ wire' = Tail(wire)
  /\ UNCHANGED <<req, cache, table, sends, excused, repeats, troubles>>

\* A command reaches the agent a second time.
Redeliver ==
  /\ wire # <<>> /\ repeats < MaxRepeats
  /\ repeats' = repeats + 1
  /\ wire' = Append(wire, Head(wire))
  /\ UNCHANGED <<req, cache, table, order, applied, sends, excused, troubles>>

\* The connection is lost with what is on it.
LoseWire ==
  /\ wire # <<>>
  /\ wire' = <<>>
  /\ UNCHANGED <<req, cache, table, order, applied, sends, excused, repeats, troubles>>

\* NewCredentialApplier remembers nothing.
RestartApplier ==
  /\ Trouble
  /\ order' = <<>> /\ applied' = <<>> /\ wire' = <<>>
  /\ UNCHANGED <<req, cache, table, sends, excused, repeats>>

PushInit ==
  /\ req = [r \in Requests |-> "new"]
  /\ cache = <<>> /\ table = {} /\ wire = <<>>
  /\ order = <<>> /\ applied = <<>>
  /\ sends = [k \in PushKeys |-> 0]
  /\ excused = {} /\ repeats = 0 /\ troubles = 0

PushNext ==
  \/ \E r \in Requests :
       \/ BeginPush(r) \/ DispatchCached(r) \/ DispatchOffline(r)
       \/ DispatchFails(r) \/ DispatchSends(r)
       \/ PushTimesOut(r) \/ PushNotStored(r) \/ IdempotencySet(r)
  \/ \E k \in PushKeys : ExpireKey(k)
  \/ SupervisorRestart \/ HandleCredentialPush \/ Redeliver \/ LoseWire \/ RestartApplier

PushSpec == PushInit /\ [][PushNext]_pushVars

-----------------------------------------------------------------------------
\* Requests with one key that do not overlap send one command, through
\* evictions from the API's cache and restarts of the supervisor: the table
\* behind the cache has the answer, a timeout too (handleCredentialPush,
\* cacheResult). Expired and unwritten rows are excused.
KeyPushedOnce == \A k \in PushKeys \ excused : sends[k] <= 1

\* An agent that has not restarted applies a command again only after as
\* many other commands as it can remember (ApplyIfNew, the eviction of
\* rememberCommandIDLocked).
RepeatNeedsEviction ==
  \A i, j \in DOMAIN applied :
    (i < j /\ applied[i] = applied[j])
      => Cardinality({applied[x] : x \in (i + 1)..(j - 1)}) >= AppliedCap
=============================================================================
