--------------------------- MODULE CredentialProofs ---------------------------
(* Theorems about CredentialPush and CredentialReports: a push is made once  *)
(* per key and applied once per id, and what is shown of an agent's          *)
(* credential version is what it reported.                                   *)
EXTENDS CredentialPush, CredentialReports, FiniteSetTheorems, TLAPS

-----------------------------------------------------------------------------
(* One command per key.                                                    *)

ReqTypeOK ==
  /\ req \in [Requests -> {"new", "dispatch", "wait", "set", "answered", "failed"}]
  /\ sends \in [PushKeys -> Nat]

\* A key whose requests overlap is excused.
BusyAlone ==
  \A r, x \in Requests :
    r # x /\ KeyOf[r] = KeyOf[x] /\ Busy(r) /\ Busy(x) => KeyOf[r] \in excused

\* What was sent under a key is in the table, or a request waits for it.
SentIsKept ==
  \A k \in PushKeys \ excused :
    /\ sends[k] <= 1
    /\ sends[k] = 1 => k \in table \/ \E r \in Requests : KeyOf[r] = k /\ req[r] = "wait"

OnceInv == ReqTypeOK /\ BusyAlone /\ SentIsKept

LEMMA NextOnceInv == OnceInv /\ [PushNext]_pushVars => OnceInv'
<1> SUFFICES ASSUME OnceInv, [PushNext]_pushVars PROVE OnceInv'
  OBVIOUS
<1> USE DEF OnceInv, ReqTypeOK, BusyAlone, SentIsKept, Busy, Answer
<1>1. ASSUME NEW r \in Requests, BeginPush(r) PROVE OnceInv'
  BY <1>1 DEF BeginPush, Overlaps
<1>2. ASSUME NEW r \in Requests, DispatchCached(r) \/ DispatchFails(r) PROVE OnceInv'
  BY <1>2 DEF DispatchCached, DispatchFails
<1>3. ASSUME NEW r \in Requests, DispatchOffline(r) \/ PushTimesOut(r) PROVE OnceInv'
  BY <1>3 DEF DispatchOffline, PushTimesOut, PushKeys
<1>4. ASSUME NEW r \in Requests, DispatchSends(r) PROVE OnceInv'
  <2>1. ReqTypeOK' /\ BusyAlone'
    BY <1>4 DEF DispatchSends
  <2>2. ASSUME NEW k \in PushKeys \ excused, k = KeyOf[r] PROVE sends[k] = 0
    <3>1. \A x \in Requests : KeyOf[x] = k => req[x] # "wait"
      BY <1>4, <2>2, Zenon DEF DispatchSends
    <3> QED
      BY <1>4, <2>2, <3>1 DEF DispatchSends
  <2>3. SentIsKept'
    BY <1>4, <2>2 DEF DispatchSends
  <2> QED
    BY <2>1, <2>3
<1>5. ASSUME NEW r \in Requests, PushNotStored(r) \/ IdempotencySet(r) PROVE OnceInv'
  BY <1>5 DEF PushNotStored, IdempotencySet
<1>6. ASSUME NEW k \in PushKeys, ExpireKey(k) PROVE OnceInv'
  BY <1>6 DEF ExpireKey
<1>7. CASE SupervisorRestart
  BY <1>7 DEF SupervisorRestart
<1>8. CASE HandleCredentialPush \/ Redeliver \/ LoseWire \/ RestartApplier
  BY <1>8 DEF HandleCredentialPush, Redeliver, LoseWire, RestartApplier
<1>9. CASE UNCHANGED pushVars
  BY <1>9 DEF pushVars
<1> QED
  BY <1>1, <1>2, <1>3, <1>4, <1>5, <1>6, <1>7, <1>8, <1>9 DEF PushNext

\* Requests with one key that do not overlap send one command, for any number
\* of requests, evictions and restarts of the supervisor, unless its row has
\* expired or was not written (handleCredentialPush, cacheResult).
THEOREM OnePushPerKey == PushSpec => []KeyPushedOnce
<1>1. PushInit => OnceInv
  BY DEF PushInit, OnceInv, ReqTypeOK, BusyAlone, SentIsKept, Busy
<1>2. OnceInv => KeyPushedOnce
  BY DEF OnceInv, SentIsKept, KeyPushedOnce
<1> QED
  BY <1>1, <1>2, NextOnceInv, PTL DEF PushSpec

-----------------------------------------------------------------------------
(* A command is applied again only after an eviction.                      *)

\* The ids the applier remembers are the last it has applied, each once.
RememberInv ==
  /\ wire \in Seq(Requests) /\ order \in Seq(Requests) /\ applied \in Seq(Requests)
  /\ Len(order) <= AppliedCap /\ Len(order) <= Len(applied)
  /\ Len(order) < AppliedCap => Len(order) = Len(applied)
  /\ \A x \in 1..Len(order) : order[x] = applied[Len(applied) - Len(order) + x]
  /\ \A x, y \in 1..Len(order) : order[x] = order[y] => x = y

\* So many different commands lie between two applications of one.
LEMMA ManyBetween ==
  ASSUME RememberInv, NEW i \in 1..Len(applied), applied[i] \notin Range(order)
  PROVE  Cardinality({applied[x] : x \in (i + 1)..Len(applied)}) >= AppliedCap
<1> USE DEF RememberInv
<1> DEFINE n == Len(applied)
           m == Len(order)
           between == {applied[x] : x \in (i + 1)..n}
<1>1. m \in Nat /\ n \in Nat /\ Range(order) = {order[x] : x \in 1..m}
  BY DEF Range
<1>2. i <= n - m
  <2> SUFFICES ASSUME i > n - m PROVE FALSE
    BY <1>1
  <2>1. i - (n - m) \in 1..m /\ n - m + (i - (n - m)) = i
    BY <1>1
  <2> QED
    BY <1>1, <2>1
<1>3. m = AppliedCap
  BY <1>1, <1>2, PushAssumption
<1>4. Range(order) \subseteq between
  <2> SUFFICES ASSUME NEW x \in 1..m PROVE order[x] \in between
    BY <1>1
  <2>1. n - m + x \in (i + 1)..n
    BY <1>1, <1>2
  <2> QED
    BY <2>1
<1>5. Cardinality(1..m) = m
  <2>1. \A k \in Nat : Cardinality(1..k) = IF 1 > k THEN 0 ELSE k - 1 + 1
    BY FS_Interval, Nat \subseteq Int, 1 \in Int, Zenon
  <2> QED
    BY <1>1, <2>1
<1>6. order \in Injection(1..m, between)
  <2>1. \A x \in 1..m : order[x] \in between
    BY <1>1, <1>4
  <2>2. DOMAIN order = 1..m /\ order = [x \in 1..m |-> order[x]]
    BY <1>1
  <2>3. order \in [1..m -> between]
    BY <2>1, <2>2, Zenon
  <2> QED
    BY <2>2, <2>3, Zenon DEF Injection, IsInjective
<1>7. IsFiniteSet(between)
  <2> DEFINE later == [x \in (i + 1)..n |-> applied[x]]
  <2>1. IsFiniteSet((i + 1)..n)
    BY <1>1, FS_Interval, n \in Int, i + 1 \in Int
  <2>2. later \in Surjection((i + 1)..n, between)
    BY DEF Surjection
  <2> HIDE DEF later
  <2> QED
    BY <2>1, <2>2, FS_Surjection
<1>8. Cardinality(1..m) <= Cardinality(between)
  <2> HIDE DEF between, m
  <2> QED
    BY <1>6, <1>7, FS_Injection
<1>9. Cardinality(between) \in Nat
  BY <1>7, FS_CardinalityType
<1> QED
  BY <1>1, <1>3, <1>5, <1>8, <1>9

\* ApplyIfNew forgets the oldest id only, and only when it is full.
LEMMA ApplyRemembers ==
  ASSUME RememberInv, NEW r \in Requests, r \notin Range(order), RememberCommandID(r),
         applied' = Append(applied, r), wire' \in Seq(Requests)
  PROVE  RememberInv'
<1>0. /\ order \in Seq(Requests) /\ applied \in Seq(Requests)
      /\ Len(order) \in Nat /\ Len(applied) \in Nat /\ AppliedCap \in Nat \ {0}
      /\ Len(order) <= AppliedCap /\ Len(order) <= Len(applied)
      /\ Len(order) < AppliedCap => Len(order) = Len(applied)
      /\ \A x \in 1..Len(order) : order[x] # r
  BY PushAssumption DEF Range, RememberInv
<1>d. \A x, y \in 1..Len(order) : order[x] = order[y] => x = y
  BY DEF RememberInv
<1>e. \A x \in 1..Len(order) : order[x] = applied[Len(applied) - Len(order) + x]
  BY DEF RememberInv
<1>1. applied' \in Seq(Requests) /\ Len(applied') = Len(applied) + 1
      /\ applied'[Len(applied) + 1] = r
      /\ \A x \in 1..Len(applied) : applied'[x] = applied[x]
  BY <1>0
<1>2. CASE Len(order) < AppliedCap
  <2>1. order' = Append(order, r)
    BY <1>2 DEF RememberCommandID
  <2>2. order' \in Seq(Requests) /\ Len(order') = Len(order) + 1 /\ order'[Len(order) + 1] = r
        /\ \A x \in 1..Len(order) : order'[x] = order[x]
    BY <1>0, <2>1
  <2>3. Len(order) = Len(applied)
    BY <1>0, <1>2
  <2>4. ASSUME NEW x \in 1..Len(order') PROVE order'[x] = applied'[Len(applied') - Len(order') + x]
    <3>1. Len(applied') - Len(order') + x = x
      BY <1>0, <1>1, <2>2, <2>3
    <3>2. x \in 1..Len(order) \/ x = Len(order) + 1
      BY <1>0, <2>2
    <3>3. x \in 1..Len(order) => order[x] = applied[x]
      BY <1>0, <1>e, <2>3
    <3> QED
      BY <1>1, <2>2, <2>3, <3>1, <3>2, <3>3
  <2>5. ASSUME NEW x \in 1..Len(order'), NEW y \in 1..Len(order'), order'[x] = order'[y] PROVE x = y
    <3>1. /\ x \in 1..Len(order) \/ x = Len(order) + 1
          /\ y \in 1..Len(order) \/ y = Len(order) + 1
      BY <1>0, <2>2
    <3> QED
      BY <1>0, <1>d, <2>2, <2>5, <3>1
  <2>6. Len(order') <= AppliedCap /\ Len(order') = Len(applied')
    BY <1>0, <1>1, <1>2, <2>2, <2>3
  <2>7. Len(order') <= Len(applied') /\ (Len(order') < AppliedCap => Len(order') = Len(applied'))
    BY <1>0, <1>1, <2>2, <2>6
  <2> QED
    BY <1>1, <2>2, <2>4, <2>5, <2>6, <2>7 DEF RememberInv
<1>3. CASE ~ (Len(order) < AppliedCap)
  <2>1. order' = Append(Tail(order), r)
    BY <1>3 DEF RememberCommandID
  <2>2. Len(order) = AppliedCap
    BY <1>0, <1>3
  <2>3. Tail(order) \in Seq(Requests) /\ Len(Tail(order)) = Len(order) - 1
        /\ \A x \in 1..(Len(order) - 1) : Tail(order)[x] = order[x + 1]
    BY <1>0, <2>2
  <2>4. order' \in Seq(Requests) /\ Len(order') = Len(order) /\ order'[Len(order)] = r
        /\ \A x \in 1..(Len(order) - 1) : order'[x] = order[x + 1]
    BY <1>0, <2>1, <2>3
  <2>5. ASSUME NEW x \in 1..Len(order') PROVE order'[x] = applied'[Len(applied') - Len(order') + x]
    <3>1. CASE x = Len(order)
      BY <1>0, <1>1, <2>4, <3>1
    <3>2. CASE x \in 1..(Len(order) - 1)
      <4>1. x + 1 \in 1..Len(order) /\ Len(applied) - Len(order) + (x + 1) \in 1..Len(applied)
        BY <1>0, <3>2
      <4>2. Len(applied') - Len(order') + x = Len(applied) - Len(order) + (x + 1)
        BY <1>0, <1>1, <2>4
      <4> QED
        BY <1>1, <1>e, <2>4, <3>2, <4>1, <4>2
    <3>3. x = Len(order) \/ x \in 1..(Len(order) - 1)
      BY <1>0, <2>4
    <3> QED
      BY <3>1, <3>2, <3>3
  <2>6. ASSUME NEW x \in 1..Len(order'), NEW y \in 1..Len(order'), order'[x] = order'[y] PROVE x = y
    <3>1. \A z \in 1..(Len(order) - 1) : z + 1 \in 1..Len(order) /\ order'[z] = order[z + 1]
      BY <1>0, <2>4
    <3>2. /\ x = Len(order) \/ x \in 1..(Len(order) - 1)
          /\ y = Len(order) \/ y \in 1..(Len(order) - 1)
      BY <1>0, <2>4
    <3>3. CASE x \in 1..(Len(order) - 1) /\ y \in 1..(Len(order) - 1)
      <4>1. x + 1 = y + 1
        BY <1>d, <2>6, <3>1, <3>3
      <4> QED
        BY <4>1
    <3> QED
      BY <1>0, <2>4, <2>6, <3>1, <3>2, <3>3
  <2>7. Len(order') = AppliedCap /\ Len(order') <= Len(applied')
    BY <1>0, <1>1, <2>2, <2>4
  <2>8. Len(order') <= AppliedCap /\ (Len(order') < AppliedCap => Len(order') = Len(applied'))
    BY <1>0, <2>7
  <2> QED
    BY <1>1, <2>4, <2>5, <2>6, <2>7, <2>8 DEF RememberInv
<1> QED
  BY <1>2, <1>3

LEMMA ApplyNeedsEviction ==
  ASSUME RememberInv, RepeatNeedsEviction, NEW r \in Requests, r \notin Range(order),
         applied' = Append(applied, r)
  PROVE  RepeatNeedsEviction'
<1> SUFFICES ASSUME NEW i \in DOMAIN applied', NEW j \in DOMAIN applied', i < j,
                    applied'[i] = applied'[j]
             PROVE  Cardinality({applied'[x] : x \in (i + 1)..(j - 1)}) >= AppliedCap
  BY DEF RepeatNeedsEviction
<1> USE DEF RememberInv
<1>1. i \in 1..Len(applied) /\ j \in 1..(Len(applied) + 1) /\ Len(applied) \in Nat
  OBVIOUS
<1>2. \A x \in 1..Len(applied) : applied'[x] = applied[x]
  OBVIOUS
<1>3. {applied'[x] : x \in (i + 1)..(j - 1)} = {applied[x] : x \in (i + 1)..(j - 1)}
  <2>1. \A x \in (i + 1)..(j - 1) : applied'[x] = applied[x]
    BY <1>1, <1>2
  <2> QED
    BY <2>1
<1>4. CASE j \in 1..Len(applied)
  <2>1. applied[i] = applied[j] /\ DOMAIN applied = 1..Len(applied)
    BY <1>1, <1>2, <1>4
  <2>2. Cardinality({applied[x] : x \in (i + 1)..(j - 1)}) >= AppliedCap
    BY <1>1, <1>4, <2>1 DEF RepeatNeedsEviction
  <2> QED
    BY <1>3, <2>2
<1>5. CASE j = Len(applied) + 1
  <2>1. applied[i] \notin Range(order)
    BY <1>1, <1>2, <1>5
  <2>2. j - 1 = Len(applied)
    BY <1>1, <1>5
  <2> QED
    BY <1>1, <1>3, <2>1, <2>2, ManyBetween
<1>6. j \in 1..Len(applied) \/ j = Len(applied) + 1
  BY <1>1
<1> QED
  BY <1>4, <1>5, <1>6

LEMMA NextRememberInv ==
  RememberInv /\ RepeatNeedsEviction /\ [PushNext]_pushVars => (RememberInv /\ RepeatNeedsEviction)'
<1> SUFFICES ASSUME RememberInv, RepeatNeedsEviction, [PushNext]_pushVars
             PROVE  (RememberInv /\ RepeatNeedsEviction)'
  OBVIOUS
<1>1. ASSUME UNCHANGED <<order, applied>>, wire' \in Seq(Requests)
      PROVE  (RememberInv /\ RepeatNeedsEviction)'
  BY <1>1 DEF RememberInv, RepeatNeedsEviction
<1>2. ASSUME NEW r \in Requests, DispatchSends(r) PROVE wire' \in Seq(Requests)
  BY <1>2 DEF DispatchSends, RememberInv
<1>3. CASE HandleCredentialPush
  <2>1. Head(wire) \in Requests /\ wire' \in Seq(Requests)
    BY <1>3 DEF HandleCredentialPush, RememberInv
  <2> QED
    BY <1>1, <1>3, <2>1, ApplyRemembers, ApplyNeedsEviction DEF HandleCredentialPush, ApplyIfNew
<1>4. CASE Redeliver \/ LoseWire
  <2>1. wire \in Seq(Requests) /\ wire # <<>> /\ (wire' = Append(wire, Head(wire)) \/ wire' = <<>>)
    BY <1>4 DEF Redeliver, LoseWire, RememberInv
  <2>2. Head(wire) \in Requests
    BY <2>1
  <2>3. Append(wire, Head(wire)) \in Seq(Requests) /\ <<>> \in Seq(Requests)
    BY <2>1, <2>2
  <2> QED
    BY <1>1, <1>4, <2>1, <2>3 DEF Redeliver, LoseWire
<1>5. CASE RestartApplier
  <2>1. order' = <<>> /\ applied' = <<>> /\ wire' = <<>> /\ 0 <= AppliedCap
    BY <1>5, PushAssumption DEF RestartApplier
  <2> QED
    BY <2>1 DEF RememberInv, RepeatNeedsEviction
<1>6. CASE SupervisorRestart
  <2>1. wire' = <<>>
    BY <1>6 DEF SupervisorRestart
  <2> QED
    BY <1>1, <1>6, <2>1 DEF SupervisorRestart
<1>7. ASSUME UNCHANGED <<order, applied, wire>> PROVE (RememberInv /\ RepeatNeedsEviction)'
  BY <1>1, <1>7 DEF RememberInv
<1> QED
  BY <1>1, <1>2, <1>3, <1>4, <1>5, <1>6, <1>7
     DEF PushNext, BeginPush, DispatchCached, DispatchOffline, DispatchFails, DispatchSends,
         PushTimesOut, PushNotStored, IdempotencySet, ExpireKey, pushVars

\* An agent that has not restarted applies a command again only after as many
\* others as it can remember, for every cap and any loss and repetition on the
\* way (ApplyIfNew, rememberCommandIDLocked).
THEOREM AppliedOnce == PushSpec => []RepeatNeedsEviction
<1>1. PushInit => RememberInv /\ RepeatNeedsEviction
  <2> SUFFICES ASSUME PushInit PROVE RememberInv /\ RepeatNeedsEviction
    OBVIOUS
  <2>1. order = <<>> /\ applied = <<>> /\ wire = <<>> /\ 0 <= AppliedCap
    BY PushAssumption DEF PushInit
  <2> QED
    BY <2>1 DEF RememberInv, RepeatNeedsEviction
<1> QED
  BY <1>1, NextRememberInv, PTL DEF PushSpec

-----------------------------------------------------------------------------
(* What is shown of the version.                                           *)

Msgs == [type : {"sync", "auth"},
         value : Nat \cup {"not_installed", "authenticated", "unauthenticated", "error"}]
IsEntry(x) == x = [sync |-> x.sync, version |-> x.version, auth |-> x.auth]

ReportsTypeOK ==
  /\ last \in 0..MaxConns /\ link \in {0, last} /\ greeted \in BOOLEAN
  /\ version \in Nat /\ host \in Hosts
  /\ reported \in [Epochs -> Nat] /\ up \in [Epochs -> Seq(Msgs)]
  /\ hub \in [Epochs -> {"none", "registering", "done"}]
  /\ IsEntry(entry) /\ DOMAIN pump = Epochs
  /\ \A e \in Epochs :
       \/ pump[e] = <<>>
       \/ /\ pump[e] = <<pump[e][1], pump[e][2]>>
          /\ pump[e][1] \in Msgs /\ IsEntry(pump[e][2])

\* Run takes connections in the order of their numbers, and what is on a
\* connection, in its pump or handled came after it was made and taken.
AdmittedInOrder ==
  /\ \A e, x \in Epochs : x < e /\ hub[e] # "none" => hub[x] = "done"
  /\ \A e \in Epochs : hub[e] = "none" => pump[e] = <<>> /\ handled # e
  /\ \A e \in Epochs : e > last => up[e] = <<>> /\ hub[e] = "none"

\* The hook of connection e has run and has reported v.
Told(e, v) == v = reported[e] /\ ~ (link = e /\ ~ greeted)

SyncReported ==
  \A e \in Epochs :
    /\ \A i \in 1..Len(up[e]) : up[e][i].type = "sync" => Told(e, up[e][i].value)
    /\ pump[e] # <<>> /\ pump[e][1].type = "sync" => Told(e, pump[e][1].value)
    /\ handled = e => Told(e, reported[e])

Honest(x, e) ==
  x.sync # "unknown" =>
    /\ x.version = reported[e]
    /\ x.sync = "in_sync" <=> x.version = Expected

Newest(e) == hub[e] # "none" /\ \A x \in Epochs : x > e => hub[x] = "none"

\* The copy that the pump of the newest connection will write back with the
\* state of a tool is honest as well.
HonestInv ==
  \A e \in Epochs :
    Newest(e) /\ handled = e /\ ~ stale =>
      /\ Honest(entry, e)
      /\ pump[e] # <<>> /\ pump[e][1].type = "auth" => Honest(pump[e][2], e)

ReportsInv == ReportsTypeOK /\ AdmittedInOrder /\ SyncReported /\ HonestInv

LEMMA InitReportsInv == ReportsInit => ReportsInv
<1> SUFFICES ASSUME ReportsInit PROVE ReportsInv
  OBVIOUS
<1>1. ReportsTypeOK
  <2>0. last \in 0..MaxConns /\ version \in Nat
    BY ReportsAssumption DEF ReportsInit
  <2>1. link \in {0, last} /\ greeted \in BOOLEAN
    BY DEF ReportsInit
  <2>2. IsEntry(entry)
    BY DEF ReportsInit, Fresh, IsEntry
  <2>3. <<>> \in Seq(Msgs) /\ 0 \in Nat
    OBVIOUS
  <2>4. up \in [Epochs -> Seq(Msgs)] /\ reported \in [Epochs -> Nat]
    BY <2>3 DEF ReportsInit
  <2> QED
    BY <2>0, <2>1, <2>2, <2>4 DEF ReportsInit, ReportsTypeOK
<1>2. AdmittedInOrder /\ SyncReported /\ HonestInv
  BY ReportsAssumption DEF ReportsInit, AdmittedInOrder, SyncReported, HonestInv, Newest, Epochs
<1> QED
  BY <1>1, <1>2 DEF ReportsInv

LEMMA ConnectReports == ReportsInv /\ AgentConnects => ReportsInv'
<1> SUFFICES ASSUME ReportsInv, AgentConnects PROVE ReportsInv'
  OBVIOUS
<1> USE DEF ReportsInv, AgentConnects
<1>0. last \in 0..MaxConns /\ last' \in 0..MaxConns /\ last' = last + 1
  BY ReportsAssumption DEF ReportsTypeOK
<1>1. ReportsTypeOK'
  BY <1>0 DEF ReportsTypeOK
<1>2. AdmittedInOrder'
  BY <1>0, ReportsAssumption DEF AdmittedInOrder, Epochs
<1>3. SyncReported'
  <2>1. \A e \in Epochs : e = link' => up[e] = <<>> /\ pump[e] = <<>> /\ handled # e
    BY <1>0, ReportsAssumption DEF AdmittedInOrder, Epochs
  <2>2. \A e \in Epochs : e = link' => Len(up[e]) = 0
    BY <2>1
  <2>3. \A e \in Epochs : e # link' => \A v : Told(e, v) => Told(e, v)'
    BY DEF Told
  <2> QED
    BY <2>1, <2>2, <2>3 DEF SyncReported, Told
<1>4. HonestInv'
  BY DEF HonestInv, Newest, Honest
<1> QED
  BY <1>1, <1>2, <1>3, <1>4

\* An agent's message is appended to its connection.
LEMMA SendReports ==
  ASSUME ReportsInv, link # 0, NEW m \in Msgs, up' = [up EXCEPT ![link] = Append(@, m)]
  PROVE  /\ link \in Epochs /\ link <= last /\ up' \in [Epochs -> Seq(Msgs)]
         /\ \A e \in Epochs : e # link => up'[e] = up[e]
         /\ Len(up'[link]) = Len(up[link]) + 1
         /\ up'[link][Len(up[link]) + 1] = m
         /\ \A i \in 1..Len(up[link]) : up'[link][i] = up[link][i]
<1>1. link \in Epochs /\ link <= last /\ up[link] \in Seq(Msgs)
  BY ReportsAssumption DEF ReportsInv, ReportsTypeOK, Epochs
<1>2. up'[link] = Append(up[link], m) /\ \A e \in Epochs : e # link => up'[e] = up[e]
  BY <1>1 DEF ReportsInv, ReportsTypeOK
<1> QED
  BY <1>1, <1>2 DEF ReportsInv, ReportsTypeOK

LEMMA VersionReports == ReportsInv /\ ReportVersion => ReportsInv'
<1> SUFFICES ASSUME ReportsInv, ReportVersion PROVE ReportsInv'
  OBVIOUS
<1> USE DEF ReportVersion
<1>1. VersionReport \in Msgs /\ VersionReport.type = "sync" /\ VersionReport.value = version
  BY DEF VersionReport, Msgs, ReportsInv, ReportsTypeOK
<1>2. /\ link \in Epochs /\ link <= last /\ up' \in [Epochs -> Seq(Msgs)]
      /\ \A e \in Epochs : e # link => up'[e] = up[e]
      /\ Len(up'[link]) = Len(up[link]) + 1
      /\ up'[link][Len(up[link]) + 1] = VersionReport
      /\ \A i \in 1..Len(up[link]) : up'[link][i] = up[link][i]
  BY <1>1, SendReports
<1> USE <1>2 DEF ReportsInv
<1>3. ReportsTypeOK'
  BY DEF ReportsTypeOK
<1>4. AdmittedInOrder'
  BY DEF AdmittedInOrder, ReportsTypeOK, Epochs
<1>5. SyncReported'
  <2>1. \A e \in Epochs : e # link => reported'[e] = reported[e]
    BY DEF ReportsTypeOK
  <2>2. reported'[link] = version
    BY DEF ReportsTypeOK
  <2>3. \A i \in 1..Len(up[link]) : up[link][i].type # "sync"
    BY DEF SyncReported, Told
  <2>4. pump[link] # <<>> => pump[link][1].type # "sync"
    BY DEF SyncReported, Told
  <2>5. handled # link
    BY DEF SyncReported, Told
  <2>6. Len(up[link]) \in Nat
    BY DEF ReportsTypeOK
  <2>7. \A i \in 1..Len(up'[link]) : i \in 1..Len(up[link]) \/ i = Len(up[link]) + 1
    BY <2>6
  <2> QED
    BY <1>1, <2>1, <2>2, <2>3, <2>4, <2>5, <2>7 DEF SyncReported, Told
<1>6. HonestInv'
  BY DEF HonestInv, Honest, Newest, SyncReported, Told, ReportsTypeOK
<1> QED
  BY <1>3, <1>4, <1>5, <1>6

LEMMA ToolReports == ReportsInv /\ ReportTools => ReportsInv'
<1> SUFFICES ASSUME ReportsInv, ReportTools PROVE ReportsInv'
  OBVIOUS
<1> USE DEF ReportTools
<1> DEFINE m == [type |-> "auth", value |-> CheckAuth]
<1>1. m \in Msgs /\ m.type = "auth"
  BY ReportsAssumption DEF Msgs, CheckAuth, CheckOpencode, CheckCommand, RunAuthCheck,
     ReportsInv, ReportsTypeOK
<1> HIDE DEF m
<1>2. /\ link \in Epochs /\ link <= last /\ up' \in [Epochs -> Seq(Msgs)]
      /\ \A e \in Epochs : e # link => up'[e] = up[e]
      /\ Len(up'[link]) = Len(up[link]) + 1
      /\ up'[link][Len(up[link]) + 1] = m
      /\ \A i \in 1..Len(up[link]) : up'[link][i] = up[link][i]
  BY <1>1, SendReports DEF m
<1> USE <1>2 DEF ReportsInv
<1>3. ReportsTypeOK'
  BY DEF ReportsTypeOK
<1>4. AdmittedInOrder'
  BY DEF AdmittedInOrder, ReportsTypeOK, Epochs
<1>5. SyncReported'
  <2>1. Len(up[link]) \in Nat
    BY DEF ReportsTypeOK
  <2>2. \A i \in 1..Len(up'[link]) : i \in 1..Len(up[link]) \/ i = Len(up[link]) + 1
    BY <2>1
  <2> QED
    BY <1>1, <2>2 DEF SyncReported, Told
<1>6. HonestInv'
  BY DEF HonestInv, Honest, Newest
<1> QED
  BY <1>3, <1>4, <1>5, <1>6

\* Losing messages, or the connection, leaves true what the others say.
LEMMA LostReports ==
  ASSUME SyncReported, link' \in {0, link}, UNCHANGED <<greeted, reported, pump, handled>>,
         \A e \in Epochs : up'[e] \in {up[e], <<>>}
  PROVE  SyncReported'
<1>1. \A e \in Epochs : up'[e] = <<>> => Len(up'[e]) = 0
  OBVIOUS
<1>2. \A e \in Epochs : \A v : Told(e, v) => Told(e, v)'
  BY DEF Told, Epochs
<1> QED
  BY <1>1, <1>2 DEF SyncReported

LEMMA ChangesReports == ReportsInv /\ AgentChanges => ReportsInv'
<1> SUFFICES ASSUME ReportsInv, AgentChanges PROVE ReportsInv'
  OBVIOUS
<1> USE DEF ReportsInv, AgentChanges
<1>1. /\ link' \in {0, link} /\ version' \in Nat /\ host' \in Hosts
      /\ up' \in [Epochs -> Seq(Msgs)]
      /\ \A e \in Epochs : up'[e] \in {up[e], <<>>}
  <2>1. <<>> \in Seq(Msgs) /\ Expected \in Nat /\ 0 \in Nat
    BY ReportsAssumption
  <2>2. link' \in {0, link} /\ version' \in Nat /\ host' \in Hosts
    BY <2>1 DEF ReportsTypeOK
  <2>3. CASE up' = up
    BY <2>2, <2>3 DEF ReportsTypeOK
  <2>4. CASE up' = [e \in Epochs |-> IF e = link THEN <<>> ELSE up[e]]
    <3>1. \A e \in Epochs : up[e] \in Seq(Msgs) /\ up'[e] = IF e = link THEN <<>> ELSE up[e]
      BY <2>4 DEF ReportsTypeOK
    <3>2. up' \in [Epochs -> Seq(Msgs)]
      BY <2>1, <2>4, <3>1
    <3> QED
      BY <2>2, <3>1, <3>2
  <2> QED
    BY <2>3, <2>4
<1>2. ReportsTypeOK'
  BY <1>1 DEF ReportsTypeOK
<1>3. AdmittedInOrder'
  BY <1>1 DEF AdmittedInOrder
<1>4. SyncReported'
  BY <1>1, LostReports DEF ReportsTypeOK
<1>5. HonestInv'
  BY DEF HonestInv, Newest, Honest
<1> QED
  BY <1>2, <1>3, <1>4, <1>5

LEMMA DisconnectReports == ReportsInv /\ Disconnect => ReportsInv'
<1> SUFFICES ASSUME ReportsInv, Disconnect PROVE ReportsInv'
  OBVIOUS
<1> USE DEF ReportsInv, Disconnect
<1>1. up' \in [Epochs -> Seq(Msgs)] /\ \A e \in Epochs : up'[e] \in {up[e], <<>>}
  <2>1. <<>> \in Seq(Msgs)
    OBVIOUS
  <2> QED
    BY <2>1 DEF ReportsTypeOK
<1>2. ReportsTypeOK'
  BY <1>1 DEF ReportsTypeOK
<1>3. AdmittedInOrder'
  BY <1>1 DEF AdmittedInOrder
<1>4. SyncReported'
  BY <1>1, LostReports
<1>5. HonestInv'
  BY DEF HonestInv, Newest, Honest
<1> QED
  BY <1>2, <1>3, <1>4, <1>5

LEMMA AdmitReports == ASSUME ReportsInv, NEW e \in Epochs, Admit(e) PROVE ReportsInv'
<1> USE DEF ReportsInv, Admit, agentVars
<1>1. hub' \in [Epochs -> {"none", "registering", "done"}] /\ hub'[e] = "registering"
  BY DEF ReportsTypeOK
<1>2. \A x \in Epochs : x # e => hub'[x] = hub[x]
  BY DEF ReportsTypeOK
<1>3. \A x \in Epochs : x > e => hub[x] = "none"
  BY DEF AdmittedInOrder
<1>4. ReportsTypeOK'
  BY <1>1 DEF ReportsTypeOK
<1>5. AdmittedInOrder'
  <2>1. \A x, y \in Epochs : y < x /\ hub'[x] # "none" => hub'[y] = "done"
    <3> SUFFICES ASSUME NEW x \in Epochs, NEW y \in Epochs, y < x, hub'[x] # "none"
                 PROVE  hub'[y] = "done"
      OBVIOUS
    <3>1. CASE x = e
      BY <1>2, <3>1, ReportsAssumption DEF Epochs
    <3>2. CASE x # e
      BY <1>2, <1>3, <3>2, ReportsAssumption DEF AdmittedInOrder, Epochs
    <3> QED
      BY <3>1, <3>2
  <2>2. \A x \in Epochs : hub'[x] = "none" => hub[x] = "none"
    BY <1>1, <1>2
  <2>3. \A x \in Epochs : x > last => hub'[x] = "none"
    BY <1>2, ReportsAssumption DEF AdmittedInOrder, Epochs, ReportsTypeOK
  <2> QED
    BY <2>1, <2>2, <2>3 DEF AdmittedInOrder
<1>6. SyncReported'
  BY DEF SyncReported, Told
<1>7. HonestInv'
  <2>1. handled # e
    BY DEF AdmittedInOrder
  <2>2. \A x \in Epochs : Newest(x)' => x = e
    BY <1>1, <1>2, <1>3, ReportsAssumption DEF Newest, Epochs
  <2> QED
    BY <2>1, <2>2 DEF HonestInv
<1> QED
  BY <1>4, <1>5, <1>6, <1>7

LEMMA RegisterReports == ASSUME ReportsInv, NEW e \in Epochs, RegisterFresh(e) PROVE ReportsInv'
<1> USE DEF ReportsInv, RegisterFresh, agentVars
<1>1. hub' \in [Epochs -> {"none", "registering", "done"}] /\ hub'[e] = "done"
  BY DEF ReportsTypeOK
<1>2. \A x \in Epochs : x # e => hub'[x] = hub[x]
  BY DEF ReportsTypeOK
<1>3. \A x \in Epochs : (hub'[x] = "none") <=> (hub[x] = "none")
  BY <1>1, <1>2
<1>4. ReportsTypeOK'
  BY <1>1 DEF ReportsTypeOK, Fresh, IsEntry
<1>5. AdmittedInOrder'
  BY <1>1, <1>2, <1>3 DEF AdmittedInOrder
<1>6. SyncReported'
  BY DEF SyncReported, Told
<1>7. HonestInv'
  BY <1>3 DEF HonestInv, Newest, Honest, Fresh
<1> QED
  BY <1>4, <1>5, <1>6, <1>7

LEMMA ReadsReports == ASSUME ReportsInv, NEW e \in Epochs, PumpReads(e) PROVE ReportsInv'
<1> USE DEF ReportsInv, PumpReads, agentVars
<1>1. /\ up' \in [Epochs -> Seq(Msgs)]
      /\ \A x \in Epochs : x # e => up'[x] = up[x] /\ pump'[x] = pump[x]
      /\ pump'[e] = IF known THEN <<Head(up[e]), entry>> ELSE <<>>
      /\ up'[e] = Tail(up[e]) /\ up[e] \in Seq(Msgs) /\ up[e] # <<>>
      /\ DOMAIN pump' = Epochs
  BY DEF ReportsTypeOK
<1>2. /\ Head(up[e]) = up[e][1] /\ Head(up[e]) \in Msgs /\ 1 \in 1..Len(up[e])
      /\ \A i \in 1..Len(up'[e]) : i + 1 \in 1..Len(up[e]) /\ up'[e][i] = up[e][i + 1]
  BY <1>1
<1>3. ReportsTypeOK'
  <2>1. pump'[e] # <<>> => /\ pump'[e] = <<pump'[e][1], pump'[e][2]>>
                           /\ pump'[e][1] \in Msgs /\ IsEntry(pump'[e][2])
    BY <1>1, <1>2 DEF ReportsTypeOK
  <2>2. IsEntry(entry)'
    BY DEF ReportsTypeOK, IsEntry
  <2> QED
    BY <1>1, <2>1, <2>2 DEF ReportsTypeOK, IsEntry
<1>4. AdmittedInOrder'
  BY <1>1, ReportsAssumption DEF AdmittedInOrder, Epochs
<1>5. SyncReported'
  BY <1>1, <1>2 DEF SyncReported, Told
<1>6. HonestInv'
  BY <1>1 DEF HonestInv, Newest, Honest
<1> QED
  BY <1>3, <1>4, <1>5, <1>6

LEMMA WritesReports == ASSUME ReportsInv, NEW e \in Epochs, PumpWrites(e) PROVE ReportsInv'
<1> DEFINE m == pump[e][1]
           copy == pump[e][2]
<1>0. pump[e] # <<>> /\ m \in Msgs /\ IsEntry(copy) /\ UNCHANGED <<agentVars, hub, up, known>>
  BY DEF ReportsInv, ReportsTypeOK, PumpWrites
<1>1. \/ m.type = "sync" /\ entry' = ReconcileCredentialVersion(copy, m.value) /\ handled' = e
      \/ m.type = "auth" /\ UpdateAuthState(copy, m.value) /\ handled' = handled
  BY DEF PumpWrites
<1>2. /\ pump'[e] = <<>> /\ DOMAIN pump' = Epochs
      /\ \A x \in Epochs : x # e => pump'[x] = pump[x]
  BY DEF PumpWrites, ReportsInv, ReportsTypeOK
<1>3. hub[e] # "none" /\ (~ stale' => ~ stale /\ Newest(e))
  BY DEF PumpWrites, ReportsInv, AdmittedInOrder, Newest
<1>4. ASSUME m.type = "sync"
      PROVE  Told(e, m.value)
  BY <1>0, <1>4 DEF ReportsInv, SyncReported
<1>5. IsEntry(entry')
  BY <1>0, <1>1 DEF IsEntry, ReconcileCredentialVersion, UpdateAuthState
<1>6. ReportsTypeOK'
  BY <1>0, <1>2, <1>5 DEF ReportsInv, ReportsTypeOK, agentVars, IsEntry
<1>7. AdmittedInOrder'
  BY <1>0, <1>1, <1>2, <1>3 DEF ReportsInv, AdmittedInOrder, agentVars
<1>8. SyncReported'
  BY <1>0, <1>1, <1>2, <1>4 DEF ReportsInv, SyncReported, Told, agentVars
<1>9. HonestInv'
  <2> SUFFICES ASSUME NEW x \in Epochs, Newest(x)', handled' = x, ~ stale'
               PROVE  Honest(entry, x)' /\ pump'[x] = <<>>
    BY DEF HonestInv, Honest
  <2>1. x = e
    BY <1>0, <1>3, ReportsAssumption DEF Newest, Epochs
  <2>2. CASE m.type = "sync"
    <3>1. entry'.version = m.value
            /\ entry'.sync = IF m.value = Expected THEN "in_sync" ELSE "drift_detected"
      BY <1>0, <1>1, <2>2 DEF ReconcileCredentialVersion, IsEntry
    <3> QED
      BY <1>0, <1>2, <1>4, <2>1, <2>2, <3>1 DEF Honest, Told, agentVars
  <2>3. CASE m.type = "auth"
    <3>1. entry'.version = copy.version /\ entry'.sync = copy.sync
      BY <1>0, <1>1, <2>3 DEF UpdateAuthState, IsEntry
    <3>2. Honest(copy, e)
      BY <1>0, <1>1, <1>3, <2>1, <2>3 DEF ReportsInv, HonestInv
    <3> QED
      BY <1>0, <1>2, <2>1, <3>1, <3>2 DEF Honest, agentVars
  <2> QED
    BY <1>1, <2>2, <2>3
<1> QED
  BY <1>6, <1>7, <1>8, <1>9 DEF ReportsInv

LEMMA NextReportsInv == ReportsInv /\ [ReportsNext]_reportVars => ReportsInv'
<1> SUFFICES ASSUME ReportsInv, [ReportsNext]_reportVars PROVE ReportsInv'
  OBVIOUS
<1>1. CASE UNCHANGED reportVars
  BY <1>1 DEF ReportsInv, ReportsTypeOK, AdmittedInOrder, SyncReported, Told, HonestInv, Honest,
     Newest, IsEntry, reportVars, agentVars
<1>2. ASSUME NEW e \in Epochs, Receive(e)
      PROVE  ReportsInv'
  BY <1>2, AdmitReports, RegisterReports, ReadsReports, WritesReports DEF Receive
<1> QED
  BY <1>1, <1>2, ConnectReports, VersionReports, ToolReports, ChangesReports, DisconnectReports
     DEF ReportsNext

\* What the registry shows of a node's credential version is what the agent
\* reported on its last connection, and "in_sync" for the expected version
\* only, in any interleaving of Register with the reads and writes of the
\* read pumps in which no older pump wrote last.
THEOREM SyncStatusIsHonest == ReportsSpec => []SyncStatusHonest
<1>1. ReportsInv => SyncStatusHonest
  BY DEF ReportsInv, HonestInv, Newest, Honest, SyncStatusHonest
<1> QED
  BY <1>1, InitReportsInv, NextReportsInv, PTL DEF ReportsSpec
=============================================================================
