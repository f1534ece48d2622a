--------------------------- MODULE ServicesProofs ----------------------------
(***************************************************************************)
(* Proofs about the services of the supervisor that run beside the hub:    *)
(* the migration runner, the policy engine, the dependency graph and the   *)
(* cost aggregator.                                                        *)
(***************************************************************************)
EXTENDS PolicyEngine, DependencyGraph, CostAggregator, Migrations,
        FiniteSetTheorems, WellFoundedInduction, TLAPS

-----------------------------------------------------------------------------
(* Migrations: a row stands for objects that are there.                    *)

MigrationsTypeOK ==
  /\ Release \subseteq Versions
  /\ \A v \in Release : files[v] \in Nat \ {0}
  /\ objects \in [Versions -> SUBSET Nat] /\ recorded \in [Versions -> Nat]
  /\ boot \in {"off", "check", "exec", "record", "up", "failed"}
  /\ nth \in Nat \ {0} /\ statement \in Nat \ {0}

\* Releases leave no gap in the numbers.
NoGap == \A v \in Release : \A x \in Versions : x < v => x \in Release

RowsAreTrue == \A v \in Versions : 1..recorded[v] \subseteq objects[v]

\* How far the runner has come.
Progress ==
  /\ boot \in {"check", "exec", "record"} => \A v \in Release : v < nth => recorded[v] = files[v]
  /\ boot \in {"exec", "record"} => nth \in Release
  /\ boot = "exec" => statement <= files[nth] /\ 1..(statement - 1) \subseteq objects[nth]
  /\ boot = "record" => 1..files[nth] \subseteq objects[nth]
  /\ boot = "up" => \A v \in Release : recorded[v] = files[v]

MigrationsInv == MigrationsTypeOK /\ NoGap /\ RowsAreTrue /\ Progress

LEMMA InitMigrationsInv == MigrationsInit => MigrationsInv
<1> SUFFICES ASSUME MigrationsInit PROVE MigrationsInv
  OBVIOUS
<1> USE MigrationsAssumption DEF MigrationsInit, Versions, Release
<1>1. MigrationsTypeOK
  BY DEF MigrationsTypeOK
<1>2. NoGap /\ RowsAreTrue /\ Progress
  BY DEF NoGap, RowsAreTrue, Progress
<1> QED
  BY <1>1, <1>2 DEF MigrationsInv

LEMMA NextMigrationsInv == MigrationsInv /\ [MigrationsNext]_schemaVars => MigrationsInv'
<1> SUFFICES ASSUME MigrationsInv, [MigrationsNext]_schemaVars PROVE MigrationsInv'
  OBVIOUS
<1> USE DEF MigrationsInv, Release
<1>1. CASE Migrate
  <2>1. \A v \in Release : ~ (v < nth')
    BY <1>1, MigrationsAssumption DEF Migrate, MigrationsTypeOK, Versions
  <2> QED
    BY <1>1, <2>1 DEF Migrate, MigrationsTypeOK, NoGap, RowsAreTrue, Progress
<1>2. CASE CheckApplied
  <2>1. MigrationsTypeOK' /\ NoGap' /\ RowsAreTrue'
    BY <1>2 DEF CheckApplied, MigrationsTypeOK, NoGap, RowsAreTrue
  <2>2. \A v \in Release : v < nth' => v < nth \/ (v = nth /\ recorded[v] = files[v])
    BY <1>2 DEF CheckApplied, MigrationsTypeOK, Versions
  <2> QED
    BY <1>2, <2>1, <2>2 DEF CheckApplied, Progress, MigrationsTypeOK
<1>3. CASE ExecStatement
  <2>1. nth \in Versions /\ statement \in Nat /\ files[nth] \in Nat
    BY <1>3 DEF ExecStatement, MigrationsTypeOK, Progress
  <2>2. /\ objects'[nth] = objects[nth] \cup {statement}
        /\ \A v \in Versions : objects[v] \subseteq objects'[v]
        /\ objects' \in [Versions -> SUBSET Nat]
    BY <1>3, <2>1 DEF ExecStatement, MigrationsTypeOK
  <2>3. MigrationsTypeOK' /\ NoGap' /\ RowsAreTrue'
    BY <1>3, <2>2 DEF ExecStatement, MigrationsTypeOK, NoGap, RowsAreTrue
  <2>4. 1..statement \subseteq objects'[nth]
    BY <1>3, <2>1, <2>2 DEF ExecStatement, Progress
  <2> QED
    BY <1>3, <2>1, <2>3, <2>4 DEF ExecStatement, Progress
<1>4. CASE RecordMigration
  <2>1. nth \in Versions /\ files[nth] \in Nat
    BY <1>4 DEF RecordMigration, MigrationsTypeOK, Progress
  <2>2. /\ recorded' \in [Versions -> Nat] /\ recorded'[nth] = files[nth]
        /\ \A v \in Versions : v # nth => recorded'[v] = recorded[v]
    BY <1>4, <2>1 DEF RecordMigration, MigrationsTypeOK
  <2>3. MigrationsTypeOK' /\ NoGap' /\ RowsAreTrue'
    BY <1>4, <2>2 DEF RecordMigration, MigrationsTypeOK, NoGap, RowsAreTrue, Progress
  <2>4. \A v \in Release : v < nth' => v < nth \/ v = nth
    BY <1>4 DEF RecordMigration, MigrationsTypeOK, Versions
  <2> QED
    BY <1>4, <2>2, <2>3, <2>4 DEF RecordMigration, Progress, MigrationsTypeOK
<1>5. CASE StatementFails \/ ProcessDies
  BY <1>5 DEF StatementFails, ProcessDies, MigrationsTypeOK, NoGap, RowsAreTrue, Progress
<1>6. CASE MigrateReturns
  <2>1. \A v \in Release : v < nth
    BY <1>6, MigrationsAssumption DEF MigrateReturns, MigrationsTypeOK, NoGap, Versions
  <2> QED
    BY <1>6, <2>1 DEF MigrateReturns, MigrationsTypeOK, NoGap, RowsAreTrue, Progress
<1>7. CASE NewRelease
  <2>1. PICK v \in Versions :
          /\ \A x \in Versions : x < v => x \in Release
          /\ files' = [x \in Release \cup {v} |->
                         IF x # v THEN files[x] ELSE IF v \in Release THEN files[v] + 1 ELSE 1]
    BY <1>7 DEF NewRelease
  <2>2. DOMAIN files' = Release \cup {v}
    BY <2>1
  <2>3. \A x \in DOMAIN files' : files'[x] \in Nat \ {0}
    BY <2>1, <2>2 DEF MigrationsTypeOK
  <2>4. MigrationsTypeOK' /\ RowsAreTrue' /\ Progress'
    BY <1>7, <2>2, <2>3 DEF NewRelease, MigrationsTypeOK, RowsAreTrue, Progress
  <2>5. NoGap'
    BY <2>1, <2>2 DEF NoGap
  <2> QED
    BY <2>4, <2>5
<1>8. CASE UNCHANGED schemaVars
  BY <1>8 DEF schemaVars, MigrationsTypeOK, NoGap, RowsAreTrue, Progress
<1> QED
  BY <1>1, <1>2, <1>3, <1>4, <1>5, <1>6, <1>7, <1>8 DEF MigrationsNext

\* A supervisor that is up has every object of its release, for any number
\* of migrations and statements, crashes, failed starts and changed files:
\* a row is written after the statements it stands for, and one with
\* another checksum stops the start.
THEOREM UpMeansMigrated == MigrationsSpec => []UpIsMigrated
<1>1. MigrationsInv => UpIsMigrated
  BY DEF MigrationsInv, MigrationsTypeOK, RowsAreTrue, Progress, UpIsMigrated, Release
<1> QED
  BY <1>1, InitMigrationsInv, NextMigrationsInv, PTL DEF MigrationsSpec

-----------------------------------------------------------------------------
(* The policy engine.                                                      *)

PolicyTypeOK ==
  /\ clock \in Nat /\ since \in Nat /\ since <= clock
  /\ engine \in {"off", "select", "pass", "check", "dispatch", "ended"}
  /\ left \subseteq Watched
  /\ engine \in {"check", "dispatch"} => session \in Watched
  /\ at \in 1..Len(Policies)
  /\ retries \in [Keys -> [count : Nat, lastAttempt : Nat]]
  /\ cancelled \in BOOLEAN /\ afterStop \in Nat
  /\ failed \in [Keys -> Seq(Nat)]

\* Commands dispatched after the cancellation are those of the policies the
\* session under evaluation has been through.
AfterStopInv ==
  /\ ~ cancelled => afterStop = 0
  /\ engine = "check" => afterStop < at
  /\ engine = "dispatch" => afterStop <= at
  /\ afterStop <= Len(Policies)

\* Failures are recorded in the order of time, the last one as lastAttempt.
InTime(k) ==
  /\ \A i, j \in 1..Len(failed[k]) : i <= j => failed[k][i] <= failed[k][j]
  /\ \A i \in 1..Len(failed[k]) : failed[k][i] <= clock
  /\ retries[k].count <= Len(failed[k])
  /\ Len(failed[k]) > 0 => retries[k].lastAttempt = failed[k][Len(failed[k])]

\* The failures before those that are counted now.
Earlier(k) == 1..(Len(failed[k]) - retries[k].count)

InHand(k) == engine = "dispatch" /\ Key = k

\* The counted failures came a reset window after the earlier ones, and so
\* does the attempt under way; a count that was reset is of that attempt.
Spaced(k) ==
  /\ retries[k].count <= MaxRetries[k[2]]
  /\ \A i \in Earlier(k) : \A j \in 1..Len(failed[k]) :
       j \notin Earlier(k) => failed[k][j] - failed[k][i] >= ResetWindow[k[2]]
  /\ retries[k].count = 0 /\ Len(failed[k]) > 0 => InHand(k)
  /\ InHand(k) =>
       /\ retries[k].count < MaxRetries[k[2]]
       /\ \A i \in Earlier(k) : since - failed[k][i] >= ResetWindow[k[2]]
       /\ \A i \in 1..Len(failed[k]) : failed[k][i] <= since

BudgetKept(k) ==
  \A i \in 1..Len(failed[k]) :
    i > MaxRetries[k[2]] => failed[k][i] - failed[k][i - MaxRetries[k[2]]] >= ResetWindow[k[2]]

RetryInv == \A k \in Keys : InTime(k) /\ Spaced(k) /\ BudgetKept(k)

PolicyInv == PolicyTypeOK /\ AfterStopInv /\ RetryInv

LEMMA PolicyFacts ==
  /\ Len(Policies) \in Nat \ {0}
  /\ \A i \in 1..Len(Policies) : Policies[i] \in PolicyNames
  /\ \A k \in Keys : k[2] \in PolicyNames
  /\ \A p \in PolicyNames : MaxRetries[p] \in Nat \ {0} /\ ResetWindow[p] \in Nat \ {0}
<1>1. Policies \in Seq(PolicyNames) /\ Policies # <<>>
  BY PolicyAssumption
<1> HIDE DEF PolicyNames
<1> QED
  BY <1>1, PolicyAssumption DEF Keys

\* A key whose failures and count stay as they are, while no attempt for it
\* begins, keeps its part of the invariant.
LEMMA KeyKept ==
  ASSUME PolicyTypeOK, NEW k \in Keys, InTime(k), Spaced(k), BudgetKept(k),
         clock' \in Nat, clock <= clock',
         retries'[k] = retries[k], failed'[k] = failed[k],
         InHand(k)' => InHand(k) /\ since' = since, InHand(k) => InHand(k)'
  PROVE  (InTime(k) /\ Spaced(k) /\ BudgetKept(k))'
<1>1. failed[k] \in Seq(Nat) /\ \A i \in 1..Len(failed[k]) : failed[k][i] \in Nat
  BY DEF PolicyTypeOK
<1>2. InTime(k)'
  BY <1>1 DEF InTime, PolicyTypeOK
<1>3. Spaced(k)'
  BY DEF Spaced, Earlier
<1>4. BudgetKept(k)'
  BY DEF BudgetKept
<1> QED
  BY <1>2, <1>3, <1>4

LEMMA InitPolicyInv == PolicyInit => PolicyInv
<1> SUFFICES ASSUME PolicyInit PROVE PolicyInv
  OBVIOUS
<1> USE PolicyFacts DEF PolicyInit
<1>1. <<>> \in Seq(Nat) /\ Len(<<>>) = 0
  OBVIOUS
<1>2. \A k \in Keys : failed[k] = <<>> /\ retries[k].count = 0
  OBVIOUS
<1>3. PolicyTypeOK
  <2>1. failed \in [Keys -> Seq(Nat)]
    BY <1>1
  <2>2. retries \in [Keys -> [count : Nat, lastAttempt : Nat]]
    OBVIOUS
  <2>3. at \in 1..Len(Policies)
    OBVIOUS
  <2>4. cancelled \in BOOLEAN
    OBVIOUS
  <2> QED
    BY <2>1, <2>2, <2>3, <2>4 DEF PolicyTypeOK
<1>4. AfterStopInv
  BY DEF AfterStopInv
<1>5. RetryInv
  BY <1>1, <1>2 DEF RetryInv, InTime, Spaced, Earlier, BudgetKept
<1> QED
  BY <1>3, <1>4, <1>5 DEF PolicyInv

LEMMA KeyType ==
  ASSUME PolicyTypeOK, engine \in {"check", "dispatch"}
  PROVE  /\ Key \in Keys /\ Key[2] = Policies[at] /\ Cap = MaxRetries[Key[2]]
         /\ retries[Key].count \in Nat /\ retries[Key].lastAttempt \in Nat
         /\ failed[Key] \in Seq(Nat) /\ Len(failed[Key]) \in Nat
         /\ \A i \in 1..Len(failed[Key]) : failed[Key][i] \in Nat
<1>1. Key \in Keys /\ Key[2] = Policies[at] /\ Cap = MaxRetries[Key[2]]
  BY PolicyFacts DEF PolicyTypeOK, Key, Keys, Cap
<1> QED
  BY <1>1 DEF PolicyTypeOK

LEMMA NextPolicyType == PolicyInv /\ [PolicyNext]_policyVars => PolicyTypeOK' /\ AfterStopInv'
<1> SUFFICES ASSUME PolicyInv, [PolicyNext]_policyVars PROVE PolicyTypeOK' /\ AfterStopInv'
  OBVIOUS
<1> USE PolicyFacts DEF PolicyInv, PolicyTypeOK, AfterStopInv, ledger, stopVars
<1>1. CASE PolicyStart \/ PolicyTick \/ PassEnds \/ \E s \in Watched : EvaluateSession(s)
  BY <1>1 DEF PolicyStart, PolicyTick, PassEnds, EvaluateSession
<1>2. CASE NotDue \/ Refuse
  BY <1>2 DEF NotDue, Refuse, Advance
<1>3. CASE CanAttempt
  <2>1. retries' \in [Keys -> [count : Nat, lastAttempt : Nat]]
    BY <1>3, KeyType DEF CanAttempt
  <2> QED
    BY <1>3, <2>1 DEF CanAttempt
<1>4. CASE InterventionFails
  <2>1. Key \in Keys /\ retries[Key].count \in Nat /\ failed[Key] \in Seq(Nat)
    BY <1>4, KeyType DEF InterventionFails
  <2>2. retries' \in [Keys -> [count : Nat, lastAttempt : Nat]]
    BY <1>4, <2>1 DEF InterventionFails
  <2>3. failed' \in [Keys -> Seq(Nat)]
    BY <1>4, <2>1 DEF InterventionFails
  <2> QED
    BY <1>4, <2>2, <2>3 DEF InterventionFails, Advance
<1>5. CASE InterventionSucceeds
  <2>1. Key \in Keys /\ retries[Key].count \in Nat /\ failed[Key] \in Seq(Nat)
    BY <1>5, KeyType DEF InterventionSucceeds
  <2>2. retries' \in [Keys -> [count : Nat, lastAttempt : Nat]]
    BY <1>5, <2>1 DEF InterventionSucceeds
  <2>3. <<>> \in Seq(Nat)
    OBVIOUS
  <2>4. failed' \in [Keys -> Seq(Nat)]
    BY <1>5, <2>1, <2>3 DEF InterventionSucceeds
  <2> QED
    BY <1>5, <2>2, <2>4 DEF InterventionSucceeds, Advance
<1>6. CASE PolicyStop
  <2>1. cancelled' \in BOOLEAN
    BY <1>6 DEF PolicyStop
  <2> QED
    BY <1>6, <2>1 DEF PolicyStop
<1>7. CASE PolicyStopReturns \/ PolicyTime
  BY <1>7 DEF PolicyStopReturns, PolicyTime
<1>8. CASE UNCHANGED policyVars
  BY <1>8 DEF policyVars
<1> QED
  BY <1>1, <1>2, <1>3, <1>4, <1>5, <1>6, <1>7, <1>8 DEF PolicyNext

LEMMA AttemptRetryInv == PolicyInv /\ CanAttempt => RetryInv'
<1> SUFFICES ASSUME PolicyInv, CanAttempt, NEW k \in Keys
             PROVE  (InTime(k) /\ Spaced(k) /\ BudgetKept(k))'
  BY DEF RetryInv
<1>1. PolicyTypeOK /\ InTime(k) /\ Spaced(k) /\ BudgetKept(k)
  BY DEF PolicyInv, RetryInv
<1>2. engine = "check" /\ Key' = Key /\ failed' = failed /\ clock' = clock /\ clock \in Nat
  BY <1>1 DEF CanAttempt, Key, PolicyTypeOK
<1>3. CASE k # Key
  <2>1. retries'[k] = retries[k]
    BY <1>1, <1>2, <1>3, KeyType DEF CanAttempt, PolicyTypeOK
  <2>2. ~ InHand(k)' /\ ~ InHand(k)
    BY <1>2, <1>3 DEF InHand
  <2> QED
    BY <1>1, <1>2, <2>1, <2>2, KeyKept
<1>4. CASE k = Key
  <2> DEFINE n == Len(failed[k])
             c == retries[k].count
             M == MaxRetries[k[2]]
             W == ResetWindow[k[2]]
  <2>1. /\ n \in Nat /\ c \in Nat /\ M \in Nat \ {0} /\ W \in Nat \ {0} /\ Cap = M
        /\ ResetWindow[Policies[at]] = W
        /\ \A i \in 1..n : failed[k][i] \in Nat
    BY <1>1, <1>2, <1>4, KeyType, PolicyFacts
  <2>2. since' = clock /\ InHand(k)' /\ ~ InHand(k)
    BY <1>2, <1>4 DEF CanAttempt, InHand
  <2>3. CASE Exhausted
    <3>1. WindowOver /\ retries'[k].count = 0 /\ retries'[k].lastAttempt = retries[k].lastAttempt
      BY <1>1, <1>2, <1>4, <2>3, KeyType DEF CanAttempt, PolicyTypeOK
    <3>2. n > 0 /\ retries[k].lastAttempt = failed[k][n] /\ clock - failed[k][n] >= W
      BY <1>1, <1>4, <2>1, <2>3, <3>1 DEF Exhausted, WindowOver, InTime
    <3>3. \A i \in 1..n : clock - failed[k][i] >= W /\ failed[k][i] <= clock
      <4>1. n \in 1..n
        BY <2>1, <3>2
      <4>2. \A i \in 1..n : failed[k][i] <= failed[k][n]
        BY <1>1, <2>1, <4>1 DEF InTime
      <4> QED
        BY <1>2, <2>1, <3>2, <4>1, <4>2
    <3>4. InTime(k)'
      BY <1>1, <1>2, <3>1, <2>1 DEF InTime
    <3>5. Spaced(k)'
      BY <1>2, <2>1, <2>2, <3>1, <3>3 DEF Spaced, Earlier
    <3> QED
      BY <1>1, <1>2, <3>4, <3>5 DEF BudgetKept
  <2>4. CASE ~ Exhausted
    <3>1. retries' = retries /\ c < M
      BY <1>4, <2>1, <2>4 DEF CanAttempt, Exhausted
    <3>2. InTime(k)'
      BY <1>1, <1>2, <3>1 DEF InTime
    <3>3. \A i \in Earlier(k) : clock - failed[k][i] >= W
      <4>1. CASE c = 0
        BY <1>1, <2>1, <2>2, <4>1 DEF Spaced, Earlier
      <4>2. CASE c > 0
        <5>1. n \in 1..n /\ n \notin Earlier(k) /\ failed[k][n] <= clock
          BY <1>1, <2>1, <4>2 DEF InTime, Earlier
        <5>2. \A i \in Earlier(k) : i \in 1..n /\ failed[k][n] - failed[k][i] >= W
          BY <1>1, <2>1, <5>1 DEF Spaced, Earlier
        <5> QED
          BY <1>2, <2>1, <5>1, <5>2
      <4> QED
        BY <2>1, <4>1, <4>2
    <3>4. Spaced(k)'
      BY <1>1, <1>2, <2>1, <2>2, <3>1, <3>3 DEF Spaced, Earlier, InTime
    <3> QED
      BY <1>1, <1>2, <3>2, <3>4 DEF BudgetKept
  <2> QED
    BY <2>3, <2>4
<1> QED
  BY <1>3, <1>4

LEMMA FailureRetryInv == PolicyInv /\ InterventionFails => RetryInv'
<1> SUFFICES ASSUME PolicyInv, InterventionFails, NEW k \in Keys
             PROVE  (InTime(k) /\ Spaced(k) /\ BudgetKept(k))'
  BY DEF RetryInv
<1>1. PolicyTypeOK /\ InTime(k) /\ Spaced(k) /\ BudgetKept(k)
  BY DEF PolicyInv, RetryInv
<1>2. /\ engine = "dispatch" /\ engine' # "dispatch" /\ clock' = clock /\ clock \in Nat
      /\ since \in Nat /\ since <= clock
  BY <1>1 DEF InterventionFails, Advance, PolicyTypeOK
<1>3. CASE k # Key
  <2>1. retries'[k] = retries[k] /\ failed'[k] = failed[k]
    BY <1>1, <1>2, <1>3, KeyType DEF InterventionFails, PolicyTypeOK
  <2>2. ~ InHand(k)' /\ ~ InHand(k)
    BY <1>2, <1>3 DEF InHand
  <2> QED
    BY <1>1, <1>2, <2>1, <2>2, KeyKept
<1>4. CASE k = Key
  <2> DEFINE n == Len(failed[k])
             c == retries[k].count
             M == MaxRetries[k[2]]
             W == ResetWindow[k[2]]
  <2>1. /\ n \in Nat /\ c \in Nat /\ M \in Nat \ {0} /\ W \in Nat \ {0}
        /\ \A i \in 1..n : failed[k][i] \in Nat
        /\ failed[k] \in Seq(Nat)
    BY <1>1, <1>2, <1>4, KeyType, PolicyFacts
  <2>2. InHand(k) /\ ~ InHand(k)'
    BY <1>2, <1>4 DEF InHand
  <2>3. retries'[k].count = c + 1 /\ retries'[k].lastAttempt = since
    BY <1>1, <1>2, <1>4, KeyType DEF InterventionFails, PolicyTypeOK
  <2>4. failed'[k] = Append(failed[k], since)
    BY <1>1, <1>2, <1>4, KeyType DEF InterventionFails, PolicyTypeOK
  <2>5. /\ Len(failed'[k]) = n + 1 /\ failed'[k][n + 1] = since
        /\ \A i \in 1..n : failed'[k][i] = failed[k][i]
        /\ \A i \in 1..(n + 1) : i \in 1..n \/ i = n + 1
    BY <1>2, <2>1, <2>4
  <2>6. /\ c < M /\ c <= n
        /\ \A i \in 1..(n - c) : since - failed[k][i] >= W
        /\ \A i \in 1..n : failed[k][i] <= since
    BY <1>1, <2>1, <2>2 DEF Spaced, Earlier, InTime
  <2> HIDE DEF n, c, M, W
  <2>7. InTime(k)'
    <3>1. \A i, j \in 1..(n + 1) : i <= j => failed'[k][i] <= failed'[k][j]
      <4>1. \A i, j \in 1..n : i <= j => failed[k][i] <= failed[k][j]
        BY <1>1 DEF InTime, n
      <4> SUFFICES ASSUME NEW i \in 1..(n + 1), NEW j \in 1..(n + 1), i <= j
                   PROVE  failed'[k][i] <= failed'[k][j]
        OBVIOUS
      <4>2. CASE j \in 1..n
        <5>1. i \in 1..n
          BY <2>1, <4>2
        <5> QED
          BY <2>5, <4>1, <4>2, <5>1
      <4>3. CASE j = n + 1
        BY <1>2, <2>1, <2>5, <2>6, <4>3
      <4> QED
        BY <2>5, <4>2, <4>3
    <3>2. \A i \in 1..(n + 1) : failed'[k][i] <= clock
      BY <1>2, <2>1, <2>5, <2>6
    <3> QED
      BY <1>2, <2>1, <2>3, <2>5, <2>6, <3>1, <3>2 DEF InTime
  <2>8. Spaced(k)'
    <3>1. Earlier(k)' = 1..(n - c)
      BY <2>1, <2>3, <2>5 DEF Earlier
    <3>2. \A i \in 1..(n - c), j \in 1..(n + 1) :
            j \notin 1..(n - c) => failed'[k][j] - failed'[k][i] >= W
      <4> SUFFICES ASSUME NEW i \in 1..(n - c), NEW j \in 1..(n + 1), j \notin 1..(n - c)
                   PROVE  failed'[k][j] - failed'[k][i] >= W
        OBVIOUS
      <4>1. i \in 1..n /\ failed'[k][i] = failed[k][i]
        BY <2>1, <2>5, <2>6
      <4>2. CASE j = n + 1
        BY <2>5, <2>6, <4>1, <4>2
      <4>3. CASE j \in 1..n
        BY <1>1, <2>5, <4>1, <4>3 DEF Spaced, Earlier, n, c, W
      <4> QED
        BY <2>5, <4>2, <4>3
    <3> QED
      BY <2>1, <2>2, <2>3, <2>5, <2>6, <3>1, <3>2 DEF Spaced, M, W
  <2>9. BudgetKept(k)'
    <3> SUFFICES ASSUME NEW i \in 1..(n + 1), i > M
                 PROVE  failed'[k][i] - failed'[k][i - M] >= W
      BY <2>5 DEF BudgetKept, M, W
    <3>1. i - M \in 1..n /\ failed'[k][i - M] = failed[k][i - M]
      BY <2>1, <2>5
    <3>2. CASE i = n + 1
      <4>1. i - M \in 1..(n - c)
        BY <2>1, <2>6, <3>2
      <4> QED
        BY <2>5, <2>6, <3>1, <3>2, <4>1
    <3>3. CASE i \in 1..n
      BY <1>1, <2>5, <3>1, <3>3 DEF BudgetKept, n, M, W
    <3> QED
      BY <2>5, <3>2, <3>3
  <2> QED
    BY <2>7, <2>8, <2>9
<1> QED
  BY <1>3, <1>4

LEMMA SuccessRetryInv == PolicyInv /\ InterventionSucceeds => RetryInv'
<1> SUFFICES ASSUME PolicyInv, InterventionSucceeds, NEW k \in Keys
             PROVE  (InTime(k) /\ Spaced(k) /\ BudgetKept(k))'
  BY DEF RetryInv
<1>1. PolicyTypeOK /\ InTime(k) /\ Spaced(k) /\ BudgetKept(k)
  BY DEF PolicyInv, RetryInv
<1>2. engine = "dispatch" /\ engine' # "dispatch" /\ clock' = clock /\ clock \in Nat
  BY <1>1 DEF InterventionSucceeds, Advance, PolicyTypeOK
<1>3. CASE k # Key
  <2>1. retries'[k] = retries[k] /\ failed'[k] = failed[k]
    BY <1>1, <1>2, <1>3, KeyType DEF InterventionSucceeds, PolicyTypeOK
  <2>2. ~ InHand(k)' /\ ~ InHand(k)
    BY <1>2, <1>3 DEF InHand
  <2> QED
    BY <1>1, <1>2, <2>1, <2>2, KeyKept
<1>4. CASE k = Key
  <2>1. retries'[k].count = 0 /\ failed'[k] = <<>>
    BY <1>1, <1>2, <1>4, KeyType DEF InterventionSucceeds, PolicyTypeOK
  <2>2. Len(failed'[k]) = 0 /\ ~ InHand(k)'
    BY <1>2, <2>1 DEF InHand
  <2>3. MaxRetries[k[2]] \in Nat
    BY PolicyFacts
  <2> QED
    BY <2>1, <2>2, <2>3 DEF InTime, Spaced, Earlier, BudgetKept
<1> QED
  BY <1>3, <1>4

LEMMA NextPolicyInv == PolicyInv /\ [PolicyNext]_policyVars => PolicyInv'
<1> SUFFICES ASSUME PolicyInv, [PolicyNext]_policyVars PROVE RetryInv'
  BY NextPolicyType DEF PolicyInv
<1>1. CASE CanAttempt \/ InterventionFails \/ InterventionSucceeds
  BY <1>1, AttemptRetryInv, FailureRetryInv, SuccessRetryInv
<1>2. ASSUME /\ UNCHANGED ledger /\ clock' \in Nat /\ clock <= clock'
             /\ \/ engine # "dispatch" /\ engine' # "dispatch"
                \/ UNCHANGED <<engine, session, at, since>>
      PROVE  RetryInv'
  <2> SUFFICES ASSUME NEW k \in Keys PROVE (InTime(k) /\ Spaced(k) /\ BudgetKept(k))'
    BY DEF RetryInv
  <2>1. InHand(k)' => InHand(k) /\ since' = since
    BY <1>2 DEF InHand, Key
  <2>2. InHand(k) => InHand(k)'
    BY <1>2 DEF InHand, Key
  <2> QED
    BY <1>2, <2>1, <2>2, KeyKept DEF PolicyInv, RetryInv, ledger
<1>3. CASE PolicyStart \/ PolicyTick \/ PassEnds \/ \E s \in Watched : EvaluateSession(s)
  BY <1>2, <1>3 DEF PolicyStart, PolicyTick, PassEnds, EvaluateSession, PolicyInv, PolicyTypeOK
<1>4. CASE NotDue \/ Refuse
  BY <1>2, <1>4 DEF NotDue, Refuse, Advance, PolicyInv, PolicyTypeOK
<1>5. CASE PolicyStop \/ PolicyStopReturns \/ PolicyTime
  BY <1>2, <1>5 DEF PolicyStop, PolicyStopReturns, PolicyTime, PolicyInv, PolicyTypeOK
<1>6. CASE UNCHANGED policyVars
  BY <1>2, <1>6 DEF policyVars, PolicyInv, PolicyTypeOK
<1> QED
  BY <1>1, <1>3, <1>4, <1>5, <1>6 DEF PolicyNext

\* More failures in a row than the retry cap span at least the reset window,
\* for any policies, caps, windows and sessions: whenever canAttempt starts
\* the count again, the last failure lies a window back.
THEOREM RetriesWithinBudget == PolicySpec => []RetryBudget
<1>1. PolicyInv => RetryBudget
  <2> SUFFICES ASSUME PolicyInv, NEW k \in Keys
               PROVE  DOMAIN failed[k] = 1..Len(failed[k]) /\ BudgetKept(k)
    BY DEF RetryBudget, BudgetKept
  <2> QED
    BY DEF PolicyInv, RetryInv, PolicyTypeOK
<1> QED
  BY <1>1, InitPolicyInv, NextPolicyInv, PTL DEF PolicySpec

\* After Stop has cancelled the context, no more commands are dispatched
\* than there are policies, whatever the number of sessions in the pass.
THEOREM FewInterventionsAfterStop == PolicySpec => []FewAfterStop
<1>1. PolicyInv => FewAfterStop
  BY DEF PolicyInv, AfterStopInv, FewAfterStop
<1> QED
  BY <1>1, InitPolicyInv, NextPolicyInv, PTL DEF PolicySpec

-----------------------------------------------------------------------------
(* The dependency graph. *)

GraphTypeOK ==
  /\ graph \in [Projects -> SUBSET Projects] /\ untried \in [Projects -> SUBSET Projects]
  /\ \A p \in Projects : untried[p] \subseteq graph[p]
  /\ verdict \in {"open", "ok", "cycle"}
  /\ visited \subseteq Projects /\ path \in Seq(Projects)

Positions == 1..Len(path)

\* The search stands on a path of dependencies through visited projects,
\* none of them twice, and inStack marks exactly those.
PathInv ==
  /\ inStack = {path[i] : i \in Positions} /\ inStack \subseteq visited
  /\ \A i, j \in Positions : path[i] = path[j] => i = j
  /\ \A i \in Positions : i + 1 \in Positions => path[i + 1] \in graph[path[i]]

\* Projects the search has left for good.
Left == visited \ inStack

\* What the loop of a project has been through is left for good, but for
\* the dependency the search is in; nothing is open in a project left.
TriedInv ==
  /\ \A p \in Left : graph[p] \subseteq Left
  /\ \A i \in Positions : \A q \in graph[path[i]] \ untried[path[i]] :
       q \in Left \/ (i + 1 \in Positions /\ q = path[i + 1])
  /\ \A p \in Projects \ visited : untried[p] = graph[p]

\* No set of projects left for good has all its members wait for one
\* another.
WellFounded(S) == \A T \in SUBSET S : T # {} => \E p \in T : graph[p] \cap T = {}

GraphInv ==
  /\ GraphTypeOK
  /\ verdict = "open" => PathInv /\ TriedInv /\ WellFounded(Left)
  /\ verdict = "ok" => WellFounded(Projects)
  /\ verdict = "cycle" => IsCycle(cycle)

LEMMA InitGraphInv == GraphInit => GraphInv
<1> SUFFICES ASSUME GraphInit PROVE GraphInv
  OBVIOUS
<1>1. path = <<>> /\ Len(path) = 0 /\ path \in Seq(Projects)
  BY DEF GraphInit
<1>2. Positions = {}
  BY <1>1 DEF Positions
<1>3. GraphTypeOK
  BY <1>1 DEF GraphInit, GraphTypeOK
<1>4. PathInv
  BY <1>2 DEF GraphInit, PathInv
<1>5. TriedInv /\ WellFounded(Left)
  BY <1>2 DEF GraphInit, TriedInv, WellFounded, Left
<1> QED
  BY <1>3, <1>4, <1>5 DEF GraphInit, GraphInv

\* Adding a project to a well-founded set that holds all it depends on.
LEMMA WellFoundedGrows ==
  ASSUME GraphTypeOK, NEW S, NEW p, p \notin S, graph[p] \subseteq S,
         \A q \in S : graph[q] \subseteq S, WellFounded(S)
  PROVE  WellFounded(S \cup {p})
<1> SUFFICES ASSUME NEW T \in SUBSET (S \cup {p}), T # {}
             PROVE  \E q \in T : graph[q] \cap T = {}
  BY DEF WellFounded
<1>1. CASE T \cap S = {}
  BY <1>1
<1>2. CASE T \cap S # {}
  <2>1. PICK q \in T \cap S : graph[q] \cap (T \cap S) = {}
    BY <1>2 DEF WellFounded
  <2> QED
    BY <2>1
<1> QED
  BY <1>1, <1>2

\* The prologue of detectCycleDFS for a project that was not visited, as a
\* root or as a dependency of the top of the path.
LEMMA EnterGraphInv ==
  ASSUME GraphTypeOK, PathInv, TriedInv, WellFounded(Left),
         NEW q \in Projects \ visited, Enter(q), UNCHANGED graph,
         untried' \in [Projects -> SUBSET Projects],
         \A p \in Projects : untried'[p] \subseteq untried[p],
         path = <<>> => untried' = untried,
         path # <<>> => /\ q \in graph[Top]
                        /\ untried' = [untried EXCEPT ![Top] = @ \ {q}]
  PROVE  /\ visited' \subseteq Projects /\ path' \in Seq(Projects)
         /\ PathInv' /\ TriedInv' /\ WellFounded(Left)'
<1> DEFINE n == Len(path)
<1>1. /\ n \in Nat /\ Len(path') = n + 1 /\ path'[n + 1] = q /\ path' \in Seq(Projects)
      /\ \A i \in 1..n : path'[i] = path[i] /\ path[i] \in Projects
      /\ \A i \in 1..(n + 1) : i \in 1..n \/ i = n + 1
  BY DEF Enter, GraphTypeOK
<1>2. visited' = visited \cup {q} /\ inStack' = inStack \cup {q}
  BY DEF Enter
<1>3. Left' = Left
  BY <1>2 DEF Left, PathInv
<1>4. q \notin inStack /\ \A i \in 1..n : path[i] # q
  BY DEF PathInv, Positions
<1>5. Positions' = 1..(n + 1)
  BY <1>1 DEF Positions
<1>6. n > 0 => path # <<>> /\ Top = path[n] /\ n \in 1..n
  BY <1>1 DEF Top
<1> HIDE DEF n
<1>7. PathInv'
  <2>1. inStack' = {path'[i] : i \in 1..(n + 1)}
    BY <1>1, <1>2 DEF PathInv, Positions, n
  <2>2. inStack' \subseteq visited'
    BY <1>2 DEF PathInv
  <2>3. \A i, j \in 1..(n + 1) : path'[i] = path'[j] => i = j
    BY <1>1, <1>4 DEF PathInv, Positions, n
  <2>4. \A i \in 1..(n + 1) : i + 1 \in 1..(n + 1) => path'[i + 1] \in graph[path'[i]]
    <3> SUFFICES ASSUME NEW i \in 1..(n + 1), i + 1 \in 1..(n + 1)
                 PROVE  path'[i + 1] \in graph[path'[i]]
      OBVIOUS
    <3>1. i \in 1..n
      BY <1>1
    <3>2. CASE i = n
      BY <1>1, <1>6, <3>1, <3>2
    <3>3. CASE i + 1 \in 1..n
      BY <1>1, <3>1, <3>3 DEF PathInv, Positions, n
    <3> QED
      BY <1>1, <3>1, <3>2, <3>3
  <2> QED
    BY <1>5, <2>1, <2>2, <2>3, <2>4 DEF PathInv
<1>8. TriedInv'
  <2>1. \A p \in Left : graph[p] \subseteq Left
    BY DEF TriedInv
  <2>2. \A p \in Projects \ visited' : untried'[p] = graph[p]
    <3> SUFFICES ASSUME NEW p \in Projects \ visited' PROVE untried'[p] = graph[p]
      OBVIOUS
    <3>1. untried[p] = graph[p]
      BY <1>2 DEF TriedInv
    <3>2. CASE path = <<>>
      BY <3>1, <3>2
    <3>3. CASE path # <<>>
      <4>1. n \in 1..n /\ Top = path[n]
        BY <1>1, <3>3 DEF n, Top, GraphTypeOK
      <4>2. Top \in visited
        BY <4>1 DEF PathInv, Positions, n
      <4> QED
        BY <1>2, <3>1, <3>3, <4>2 DEF GraphTypeOK
    <3> QED
      BY <3>2, <3>3
  <2>3. ASSUME NEW i \in 1..(n + 1), NEW d \in graph[path'[i]] \ untried'[path'[i]]
        PROVE  d \in Left \/ (i + 1 \in 1..(n + 1) /\ d = path'[i + 1])
    <3>1. CASE i = n + 1
      <4>1. untried[q] = graph[q]
        BY DEF TriedInv
      <4>2. untried'[q] = untried[q]
        BY <1>1, <1>4, <1>6 DEF GraphTypeOK, Top, n
      <4> QED
        BY <1>1, <2>3, <3>1, <4>1, <4>2
    <3>2. CASE i \in 1..n
      <4>1. path'[i] = path[i] /\ path[i] \in Projects /\ path # <<>> /\ n \in 1..n /\ Top = path[n]
        BY <1>1, <1>6, <3>2
      <4>2. Top \in Projects
        BY <1>1, <4>1
      <4>3. CASE d \in graph[path[i]] \ untried[path[i]]
        <5>1. d \in Left \/ (i + 1 \in 1..n /\ d = path[i + 1])
          BY <3>2, <4>3 DEF TriedInv, Positions, n
        <5> QED
          BY <1>1, <3>2, <5>1
      <4>4. CASE d \in untried[path[i]]
        <5>1. path[i] = Top /\ d = q
          BY <2>3, <4>1, <4>2, <4>4 DEF GraphTypeOK
        <5>2. i = n
          BY <3>2, <4>1, <5>1 DEF PathInv, Positions, n
        <5> QED
          BY <1>1, <5>1, <5>2
      <4> QED
        BY <2>3, <4>1, <4>3, <4>4
    <3> QED
      BY <1>1, <3>1, <3>2
  <2> QED
    BY <1>3, <1>5, <2>1, <2>2, <2>3 DEF TriedInv
<1>9. WellFounded(Left)'
  BY <1>3 DEF WellFounded
<1> QED
  BY <1>1, <1>2, <1>7, <1>8, <1>9 DEF GraphTypeOK

LEMMA TopOfPath ==
  ASSUME GraphTypeOK, PathInv, path # <<>>
  PROVE  /\ Len(path) \in Nat \ {0} /\ Len(path) \in Positions
         /\ Top = path[Len(path)] /\ Top \in Projects /\ Top \in inStack
         /\ \A i \in Positions : path[i] = Top => i = Len(path)
<1>1. Len(path) \in Nat \ {0} /\ Len(path) \in Positions /\ Top = path[Len(path)] /\ Top \in Projects
  BY DEF GraphTypeOK, Positions, Top
<1> QED
  BY <1>1 DEF PathInv

LEMMA CrossEdgeGraphInv ==
  ASSUME GraphInv, NEW q \in Projects, CrossEdge(q)
  PROVE  GraphInv'
<1>1. /\ GraphTypeOK /\ PathInv /\ TriedInv /\ WellFounded(Left)
      /\ verdict = "open" /\ path # <<>> /\ q \in untried[Top] /\ q \in visited /\ ~ OnPath(q)
      /\ untried' = [untried EXCEPT ![Top] = @ \ {q}]
      /\ UNCHANGED <<graph, verdict, visited, inStack, path>>
  BY DEF GraphInv, CrossEdge, Try
<1>2. Top \in Projects
  BY <1>1, TopOfPath
<1>3. q \in Left
  <2>1. DOMAIN path = Positions
    BY <1>1 DEF GraphTypeOK, Positions
  <2> QED
    BY <1>1, <2>1 DEF Left, OnPath, PathInv
<1>4. \A p \in Projects : untried'[p] = IF p = Top THEN untried[p] \ {q} ELSE untried[p]
  BY <1>1, <1>2 DEF GraphTypeOK
<1>5. GraphTypeOK'
  BY <1>1, <1>2 DEF GraphTypeOK
<1>6. PathInv' /\ Left' = Left /\ Positions' = Positions
  BY <1>1 DEF PathInv, Left, Positions
<1>7. TriedInv'
  <2>1. Top \in visited
    BY <1>1, TopOfPath DEF PathInv
  <2>2. \A p \in Projects \ visited : untried'[p] = graph[p]
    BY <1>1, <1>4, <2>1 DEF TriedInv
  <2>3. \A i \in Positions : path[i] \in Projects
    BY <1>1 DEF GraphTypeOK, Positions
  <2>4. \A i \in Positions : \A d \in graph[path[i]] \ untried'[path[i]] :
          d \in Left \/ (i + 1 \in Positions /\ d = path[i + 1])
    BY <1>1, <1>3, <1>4, <2>3 DEF TriedInv
  <2> QED
    BY <1>1, <1>6, <2>2, <2>4 DEF TriedInv
<1>8. WellFounded(Left)'
  BY <1>1, <1>6 DEF WellFounded
<1> QED
  BY <1>1, <1>5, <1>6, <1>7, <1>8 DEF GraphInv

LEMMA BackEdgeGraphInv ==
  ASSUME GraphInv, NEW q \in Projects, BackEdge(q)
  PROVE  GraphInv'
<1> DEFINE n == Len(path)
           start == CHOOSE i \in DOMAIN path : path[i] = q
<1>1. /\ GraphTypeOK /\ PathInv
      /\ path # <<>> /\ q \in untried[Top] /\ OnPath(q)
      /\ untried' = [untried EXCEPT ![Top] = @ \ {q}]
      /\ verdict' = "cycle" /\ cycle' = Append(SubSeq(path, start, n), q)
      /\ UNCHANGED <<graph, visited, path>>
  BY DEF GraphInv, BackEdge, Try
<1>2. Top \in Projects /\ n \in Nat \ {0} /\ Top = path[n]
  BY <1>1, TopOfPath
<1>3. GraphTypeOK'
  BY <1>1, <1>2 DEF GraphTypeOK
<1>4. start \in 1..n /\ path[start] = q
  <2>1. DOMAIN path = 1..n
    BY <1>1 DEF GraphTypeOK
  <2> QED
    BY <1>1, <2>1 DEF OnPath
<1> HIDE DEF start
<1>5. IsCycle(cycle)'
  <2> DEFINE c == SubSeq(path, start, n)
  <2>1. /\ c \in Seq(Projects) /\ Len(c) = n - start + 1
        /\ \A i \in 1..(n - start + 1) : c[i] = path[start + i - 1]
    BY <1>1, <1>2, <1>4 DEF GraphTypeOK
  <2> HIDE DEF c, n
  <2>2. /\ Len(Append(c, q)) = n - start + 2 /\ Append(c, q)[n - start + 2] = q
        /\ \A i \in 1..(n - start + 1) : Append(c, q)[i] = path[start + i - 1]
    <3>1. Len(c) + 1 = n - start + 2 /\ Len(c) \in Nat
      BY <1>2, <1>4, <2>1
    <3>2. Len(Append(c, q)) = Len(c) + 1 /\ Append(c, q)[Len(c) + 1] = q
      BY <2>1
    <3>3. \A i \in 1..Len(c) : Append(c, q)[i] = c[i]
      BY <2>1
    <3> QED
      BY <2>1, <3>1, <3>2, <3>3
  <2>3. cycle' = Append(c, q)
    BY <1>1 DEF c, n
  <2> DEFINE m == n - start + 2
  <2>4. m \in Nat /\ m > 1 /\ Len(cycle') = m /\ cycle'[1] = q /\ cycle'[m] = q
    <3>1. 1 \in 1..(n - start + 1) /\ start + 1 - 1 = start
      BY <1>2, <1>4
    <3>2. cycle'[1] = path[start]
      BY <2>2, <2>3, <3>1
    <3> QED
      BY <1>2, <1>4, <2>2, <2>3, <3>2
  <2>5. ASSUME NEW i \in 1..(m - 1)
        PROVE  cycle'[i + 1] \in graph[cycle'[i]]
    <3>0. i \in 1..(n - start + 1)
      BY <1>2, <1>4
    <3>1. cycle'[i] = path[start + i - 1]
      BY <2>2, <2>3, <3>0
    <3>2. CASE i = m - 1
      <4>1. start + i - 1 = n /\ i + 1 = m
        BY <1>2, <1>4, <3>2
      <4>2. q \in graph[Top]
        BY <1>1, <1>2 DEF GraphTypeOK
      <4> QED
        BY <1>2, <2>4, <3>1, <4>1, <4>2
    <3>3. CASE i < m - 1
      <4>1. i + 1 \in 1..(n - start + 1) /\ start + (i + 1) - 1 = (start + i - 1) + 1
        BY <1>2, <1>4, <3>3
      <4>2. cycle'[i + 1] = path[(start + i - 1) + 1]
        BY <2>2, <2>3, <4>1
      <4>3. start + i - 1 \in Positions /\ (start + i - 1) + 1 \in Positions
        BY <1>2, <1>4, <3>3 DEF Positions, n
      <4> QED
        BY <1>1, <3>1, <4>2, <4>3 DEF PathInv
    <3> QED
      BY <1>2, <1>4, <3>2, <3>3
  <2> QED
    BY <1>1, <2>4, <2>5 DEF IsCycle
<1> QED
  BY <1>1, <1>3, <1>5 DEF GraphInv

LEMMA LeaveGraphInv == GraphInv /\ Leave => GraphInv'
<1> SUFFICES ASSUME GraphInv, Leave PROVE GraphInv'
  OBVIOUS
<1> DEFINE n == Len(path)
<1>1. /\ GraphTypeOK /\ PathInv /\ TriedInv /\ WellFounded(Left)
      /\ verdict = "open" /\ path # <<>> /\ untried[Top] = {}
      /\ inStack' = inStack \ {Top} /\ path' = SubSeq(path, 1, n - 1)
      /\ UNCHANGED <<graph, verdict, visited, untried>>
  BY DEF GraphInv, Leave
<1>2. /\ Top \in Projects /\ n \in Nat \ {0} /\ n \in Positions /\ Top = path[n] /\ Top \in inStack
      /\ \A i \in Positions : path[i] = Top => i = n
  BY <1>1, TopOfPath
<1>3. /\ path' \in Seq(Projects) /\ Len(path') = n - 1
      /\ \A i \in 1..(n - 1) : path'[i] = path[i]
  <2>1. path' = [i \in 1..(n - 1) |-> path[i]]
    BY <1>1, <1>2
  <2>2. \A i \in 1..(n - 1) : path[i] \in Projects
    BY <1>1, <1>2 DEF GraphTypeOK
  <2> HIDE DEF n
  <2> QED
    BY <1>2, <2>1, <2>2
<1>4. Left' = Left \cup {Top} /\ Top \notin Left
  BY <1>1, <1>2 DEF Left, PathInv
<1>5. Positions' = 1..(n - 1) /\ Positions = 1..n
  BY <1>2, <1>3 DEF Positions
<1> HIDE DEF n
<1>6. /\ \A i \in 1..n : i \in 1..(n - 1) \/ i = n
      /\ \A i \in 1..(n - 1) : i \in 1..n /\ i + 1 \in 1..n /\ i # n
  BY <1>2
<1>7. graph[Top] \subseteq Left
  <2>1. n + 1 \notin Positions
    BY <1>2, <1>5
  <2> QED
    BY <1>1, <1>2, <2>1 DEF TriedInv
<1>8. GraphTypeOK'
  BY <1>1, <1>3 DEF GraphTypeOK
<1>9. PathInv'
  <2>1. inStack' = {path'[i] : i \in Positions'}
    BY <1>1, <1>2, <1>3, <1>5, <1>6 DEF PathInv
  <2>2. \A i, j \in Positions' : path'[i] = path'[j] => i = j
    BY <1>1, <1>3, <1>5, <1>6 DEF PathInv
  <2>3. \A i \in Positions' : i + 1 \in Positions' => path'[i + 1] \in graph[path'[i]]
    BY <1>1, <1>3, <1>5, <1>6 DEF PathInv
  <2> QED
    BY <1>1, <2>1, <2>2, <2>3 DEF PathInv
<1>10. TriedInv'
  <2>1. \A p \in Left' : graph[p] \subseteq Left'
    BY <1>1, <1>4, <1>7 DEF TriedInv
  <2>2. ASSUME NEW i \in 1..(n - 1), NEW d \in graph[path'[i]] \ untried[path'[i]]
        PROVE  d \in Left' \/ (i + 1 \in 1..(n - 1) /\ d = path'[i + 1])
    <3>1. d \in Left \/ d = path[i + 1]
      BY <1>1, <1>3, <1>5, <1>6, <2>2 DEF TriedInv
    <3>2. i + 1 \in 1..(n - 1) \/ i + 1 = n
      BY <1>6
    <3> QED
      BY <1>2, <1>3, <1>4, <3>1, <3>2
  <2> QED
    BY <1>1, <1>5, <2>1, <2>2 DEF TriedInv
<1>11. WellFounded(Left')
  BY <1>1, <1>4, <1>7, WellFoundedGrows DEF TriedInv
<1>12. WellFounded(Left)'
  BY <1>1, <1>11 DEF WellFounded
<1> QED
  BY <1>1, <1>8, <1>9, <1>10, <1>12 DEF GraphInv

LEMMA NextGraphInv == GraphInv /\ [GraphNext]_graphVars => GraphInv'
<1> SUFFICES ASSUME GraphInv, [GraphNext]_graphVars PROVE GraphInv'
  OBVIOUS
<1>1. CASE ValidateDone
  <2>1. /\ GraphTypeOK /\ PathInv /\ WellFounded(Left) /\ verdict' = "ok"
        /\ path = <<>> /\ visited = Projects /\ UNCHANGED <<graph, visited, path, untried>>
    BY <1>1 DEF ValidateDone, GraphInv
  <2>2. Positions = {}
    BY <2>1 DEF Positions
  <2>3. Left = Projects
    BY <2>1, <2>2 DEF Left, PathInv
  <2> QED
    BY <2>1, <2>3 DEF GraphInv, GraphTypeOK, WellFounded
<1>2. ASSUME NEW p \in Projects, ValidateNext(p)
      PROVE  GraphInv'
  <2>1. /\ GraphTypeOK /\ PathInv /\ TriedInv /\ WellFounded(Left) /\ verdict = "open"
        /\ path = <<>> /\ p \notin visited /\ Enter(p) /\ UNCHANGED <<graph, verdict, untried>>
    BY <1>2 DEF ValidateNext, GraphInv
  <2>2. /\ visited' \subseteq Projects /\ path' \in Seq(Projects)
        /\ PathInv' /\ TriedInv' /\ WellFounded(Left)'
    BY <2>1, EnterGraphInv DEF GraphTypeOK
  <2> QED
    BY <2>1, <2>2 DEF GraphInv, GraphTypeOK
<1>3. ASSUME NEW q \in Projects, Descend(q)
      PROVE  GraphInv'
  <2>1. /\ GraphTypeOK /\ PathInv /\ TriedInv /\ WellFounded(Left) /\ verdict = "open"
        /\ path # <<>> /\ q \notin visited /\ Enter(q) /\ q \in untried[Top]
        /\ untried' = [untried EXCEPT ![Top] = @ \ {q}] /\ UNCHANGED <<graph, verdict>>
    BY <1>3 DEF Descend, Try, GraphInv
  <2>2. Top \in Projects
    BY <2>1, TopOfPath
  <2>3. /\ untried' \in [Projects -> SUBSET Projects]
        /\ \A p \in Projects : untried'[p] \subseteq untried[p]
        /\ q \in graph[Top]
    BY <2>1, <2>2 DEF GraphTypeOK
  <2>4. /\ visited' \subseteq Projects /\ path' \in Seq(Projects)
        /\ PathInv' /\ TriedInv' /\ WellFounded(Left)'
    BY <2>1, <2>3, EnterGraphInv
  <2>5. \A p \in Projects : untried'[p] \subseteq graph[p]
    BY <2>1, <2>3 DEF GraphTypeOK
  <2> QED
    BY <2>1, <2>3, <2>4, <2>5 DEF GraphInv, GraphTypeOK
<1>4. ASSUME NEW p \in Projects, TriggerDependents(p) \/ SessionsChange(p)
      PROVE  GraphInv'
  BY <1>4 DEF TriggerDependents, SessionsChange, GraphInv, GraphTypeOK, WellFounded
<1>5. CASE UNCHANGED graphVars
  BY <1>5 DEF graphVars, GraphInv, GraphTypeOK, PathInv, TriedInv, WellFounded, Left, Positions, IsCycle
<1> QED
  BY <1>1, <1>2, <1>3, <1>4, <1>5, LeaveGraphInv, CrossEdgeGraphInv, BackEdgeGraphInv DEF GraphNext

\* The depth-first search decides rightly for every graph and every order of
\* iteration: what it reports is a cycle of dependencies, and in a graph it
\* accepts, whatever sessions there are, a project without a completed
\* session is ready until all have one.
THEOREM ValidateDecidesRightly == GraphSpec => []ValidateDecides
<1>1. GraphInv => ValidateDecides
  <2> SUFFICES ASSUME GraphInv, verdict = "ok" PROVE SomeoneCanStart
    BY DEF GraphInv, ValidateDecides
  <2> DEFINE T == {p \in Projects : ~ HasCompletedSession(p)}
  <2>1. CASE T = {}
    BY <2>1 DEF SomeoneCanStart
  <2>2. CASE T # {}
    <3>1. PICK p \in T : graph[p] \cap T = {}
      BY <2>2 DEF GraphInv, WellFounded
    <3>2. graph[p] \subseteq Projects
      BY DEF GraphInv, GraphTypeOK
    <3> QED
      BY <3>1, <3>2 DEF SomeoneCanStart, IsReady
  <2> QED
    BY <2>1, <2>2
<1> QED
  BY <1>1, InitGraphInv, NextGraphInv, PTL DEF GraphSpec

-----------------------------------------------------------------------------
(* The cost aggregator. The sum over the rows of a bucket is a fold over a *)
(* finite set, a recursive function; that it is well defined and monotone  *)
(* is shown by induction on the size of the subsets it recurses over.      *)

LEMMA SetInduction ==
  ASSUME NEW T \in SUBSET Nat, 0 \in T, \A n \in T : n + 1 \in T
  PROVE  T = Nat
<1> SUFFICES ASSUME Nat \ T # {} PROVE FALSE
  OBVIOUS
<1>1. \E m \in Nat \ T : \A k \in Nat \ T : ~ (<<k, m>> \in OpToRel(<, Nat))
  BY NatLessThanWellFounded, WFMin
<1>2. PICK m \in Nat \ T : \A k \in Nat \ T : ~ (<<k, m>> \in OpToRel(<, Nat))
  BY <1>1
<1>3. m - 1 \in T
  <2>1. m # 0 /\ m - 1 \in Nat /\ m - 1 < m
    OBVIOUS
  <2>2. <<m - 1, m>> \in OpToRel(<, Nat)
    BY <2>1 DEF OpToRel
  <2> QED
    BY <1>2, <2>1, <2>2
<1> QED
  BY <1>3

Pick(s) == CHOOSE y \in s : TRUE
Amounts == [Accounts -> Nat]
UpTo(n) == {s \in SUBSET Accounts : Cardinality(s) <= n}

\* g sums u over the sets of a family S.
Sums(g, u, S) ==
  g = [s \in S |-> IF s = {} THEN 0 ELSE LET x == Pick(s) IN u[x] + g[s \ {x}]]

Sum(u) == CHOOSE g : Sums(g, u, SUBSET Accounts)

LEMMA TotalIsSum == ASSUME NEW u PROVE Total(u) = Sum(u)[Accounts]
BY DEF Total, MapThenSumSet, MapThenFoldSet, Sum, Sums, Pick

LEMMA Smaller ==
  ASSUME NEW s \in SUBSET Accounts, s # {}
  PROVE  /\ Pick(s) \in Accounts /\ s \ {Pick(s)} \in SUBSET Accounts
         /\ Cardinality(s) \in Nat /\ Cardinality(s \ {Pick(s)}) = Cardinality(s) - 1
<1>1. Pick(s) \in s
  BY DEF Pick
<1>2. IsFiniteSet(s)
  BY CostAssumption, FS_Subset
<1> QED
  BY <1>1, <1>2, FS_RemoveElement, FS_CardinalityType

LEMMA SumExists == ASSUME NEW u \in Amounts PROVE Sums(Sum(u), u, SUBSET Accounts)
<1> DEFINE T == {n \in Nat : \E g : Sums(g, u, UpTo(n))}
<1>1. 0 \in T
  <2> DEFINE g == [s \in UpTo(0) |-> 0]
  <2>1. \A s \in UpTo(0) : s = {}
    BY CostAssumption, FS_Subset, FS_EmptySet, FS_CardinalityType DEF UpTo
  <2>2. Sums(g, u, UpTo(0))
    BY <2>1 DEF Sums
  <2> QED
    BY <2>2
<1>2. ASSUME NEW n \in T
      PROVE  n + 1 \in T
  <2>1. PICK g : Sums(g, u, UpTo(n))
    OBVIOUS
  <2> DEFINE h == [s \in UpTo(n + 1) |->
                     IF s = {} THEN 0 ELSE LET x == Pick(s) IN u[x] + g[s \ {x}]]
  <2>2. \A s \in UpTo(n) : g[s] = IF s = {} THEN 0 ELSE u[Pick(s)] + g[s \ {Pick(s)}]
    BY <2>1 DEF Sums
  <2>3. \A s \in UpTo(n + 1) : h[s] = IF s = {} THEN 0 ELSE u[Pick(s)] + g[s \ {Pick(s)}]
    OBVIOUS
  <2>4. UpTo(n) \subseteq UpTo(n + 1)
    <3>1. \A s \in SUBSET Accounts : Cardinality(s) \in Nat
      BY CostAssumption, FS_Subset, FS_CardinalityType
    <3> QED
      BY <3>1 DEF UpTo
  <2> HIDE DEF h
  <2>5. \A s \in UpTo(n) : h[s] = g[s]
    BY <2>2, <2>3, <2>4
  <2>6. \A s \in UpTo(n + 1) : s # {} => s \ {Pick(s)} \in UpTo(n)
    BY Smaller DEF UpTo
  <2>7. \A s \in UpTo(n + 1) : h[s] = IF s = {} THEN 0 ELSE u[Pick(s)] + h[s \ {Pick(s)}]
    BY <2>3, <2>5, <2>6
  <2>8. h = [s \in UpTo(n + 1) |-> h[s]]
    BY DEF h
  <2>9. Sums(h, u, UpTo(n + 1))
    BY <2>7, <2>8 DEF Sums
  <2> QED
    BY <2>9
<1>3. T = Nat
  BY <1>1, <1>2, SetInduction
<1>4. Cardinality(Accounts) \in T
  BY <1>3, CostAssumption, FS_CardinalityType
<1>5. UpTo(Cardinality(Accounts)) = SUBSET Accounts
  BY CostAssumption, FS_Subset DEF UpTo
<1>6. \E g : Sums(g, u, SUBSET Accounts)
  BY <1>4, <1>5
<1> QED
  BY <1>6 DEF Sum

LEMMA SumStep ==
  ASSUME NEW u \in Amounts, NEW s \in SUBSET Accounts
  PROVE  Sum(u)[s] = IF s = {} THEN 0 ELSE u[Pick(s)] + Sum(u)[s \ {Pick(s)}]
BY SumExists DEF Sums

\* More in every row is more in the bucket.
LEMMA TotalMonotone ==
  ASSUME NEW u \in Amounts, NEW v \in Amounts, \A a \in Accounts : u[a] <= v[a]
  PROVE  Total(u) \in Nat /\ Total(v) \in Nat /\ Total(u) <= Total(v)
<1> DEFINE Q(s) == Sum(u)[s] \in Nat /\ Sum(v)[s] \in Nat /\ Sum(u)[s] <= Sum(v)[s]
           T == {n \in Nat : \A s \in SUBSET Accounts : Cardinality(s) = n => Q(s)}
<1>1. 0 \in T
  <2>1. \A s \in SUBSET Accounts : Cardinality(s) = 0 => s = {}
    BY CostAssumption, FS_Subset, FS_EmptySet
  <2>2. {} \in SUBSET Accounts
    OBVIOUS
  <2>3. Sum(u)[{}] = 0 /\ Sum(v)[{}] = 0
    BY <2>2, SumStep
  <2>4. Q({})
    BY <2>3
  <2> QED
    BY <2>1, <2>4
<1>2. ASSUME NEW n \in T
      PROVE  n + 1 \in T
  <2> SUFFICES ASSUME NEW s \in SUBSET Accounts, Cardinality(s) = n + 1
               PROVE  Q(s)
    OBVIOUS
  <2>1. s # {}
    <3>1. Cardinality({}) = 0
      BY FS_EmptySet
    <3>2. n + 1 # 0
      OBVIOUS
    <3> QED
      BY <3>1, <3>2
  <2>2. s \ {Pick(s)} \in SUBSET Accounts /\ Cardinality(s \ {Pick(s)}) = n /\ Pick(s) \in Accounts
    BY <2>1, Smaller
  <2>3. Q(s \ {Pick(s)})
    BY <2>2
  <2>4. u[Pick(s)] \in Nat /\ v[Pick(s)] \in Nat /\ u[Pick(s)] <= v[Pick(s)]
    BY <2>2 DEF Amounts
  <2>5. /\ Sum(u)[s] = u[Pick(s)] + Sum(u)[s \ {Pick(s)}]
        /\ Sum(v)[s] = v[Pick(s)] + Sum(v)[s \ {Pick(s)}]
    BY <2>1, SumStep
  <2> QED
    BY <2>3, <2>4, <2>5
<1>3. T = Nat
  BY <1>1, <1>2, SetInduction
<1>4. Cardinality(Accounts) \in Nat
  BY CostAssumption, FS_CardinalityType
<1>5. Q(Accounts)
  BY <1>3, <1>4
<1> QED
  BY <1>5, TotalIsSum

CostTypeOK ==
  /\ usage \in [Providers -> Amounts] /\ costs \in [Providers -> Nat]
  /\ rows \in [Pollers -> [Providers -> Amounts]]
  /\ report = NoReport \/ report \in [Providers -> Nat]

\* What a poll has fetched is what was billed then or before.
RowsBehind ==
  \A w \in Pollers, p \in Providers, a \in Accounts : rows[w][p][a] <= usage[p][a]

CostInv == CostTypeOK /\ RowsBehind /\ CostsNeverAhead

LEMMA InitCostInv == CostInit => CostInv
<1> SUFFICES ASSUME CostInit PROVE CostInv
  OBVIOUS
<1> DEFINE none == [a \in Accounts |-> 0]
<1>1. none \in Amounts /\ \A a \in Accounts : none[a] = 0 /\ none[a] <= none[a]
  BY DEF Amounts
<1>2. Total(none) \in Nat
  BY <1>1, TotalMonotone
<1> HIDE DEF none
<1>3. /\ \A p \in Providers : usage[p] = none /\ costs[p] = 0
      /\ \A w \in Pollers, p \in Providers : rows[w][p] = none
  BY DEF CostInit, none
<1>4. usage \in [Providers -> Amounts]
  BY <1>1, <1>3 DEF CostInit
<1>5. rows \in [Pollers -> [Providers -> Amounts]]
  BY <1>4 DEF CostInit
<1>6. CostTypeOK
  BY <1>4, <1>5 DEF CostTypeOK, CostInit
<1>7. RowsBehind
  BY <1>1, <1>3 DEF RowsBehind
<1>8. CostsNeverAhead
  BY <1>2, <1>3 DEF CostsNeverAhead, CostInit
<1> QED
  BY <1>6, <1>7, <1>8 DEF CostInv

LEMMA NextCostInv == CostInv /\ [CostNext]_costVars => CostInv'
<1> SUFFICES ASSUME CostInv, [CostNext]_costVars PROVE CostInv'
  OBVIOUS
<1> USE DEF CostInv
<1>1. ASSUME UNCHANGED <<usage, costs, rows, report>>
      PROVE  CostInv'
  BY <1>1 DEF CostTypeOK, RowsBehind, CostsNeverAhead
<1>2. ASSUME NEW w \in Pollers, CostStart(w) \/ PollOnce(w) \/ EndCycle(w) \/ CostTick(w)
      PROVE  CostInv'
  BY <1>1, <1>2 DEF CostStart, PollOnce, EndCycle, CostTick, pollVars
<1>3. ASSUME NEW w \in Pollers, NEW p \in Providers,
             \/ FetchFails(w, p) \/ Retry(w, p) \/ SetDegraded(w, p)
             \/ ApplySessionEstimateFallback(w, p) \/ ClearDegraded(w, p) \/ PersistFails(w, p)
      PROVE  CostInv'
  BY <1>1, <1>3 DEF FetchFails, Retry, SetDegraded, ApplySessionEstimateFallback, ClearDegraded,
     PersistFails
<1>4. CASE CostStop
  BY <1>1, <1>4 DEF CostStop, pollVars
<1>5. CASE UNCHANGED costVars
  BY <1>1, <1>5 DEF costVars, pollVars
<1>6. ASSUME NEW w \in Pollers, NEW p \in Providers, FetchSucceeds(w, p)
      PROVE  CostInv'
  <2>1. /\ rows' = [rows EXCEPT ![w][p] = usage[p]] /\ UNCHANGED <<usage, costs, report>>
        /\ usage[p] \in Amounts
    BY <1>6 DEF FetchSucceeds, CostTypeOK
  <2>2. /\ rows' \in [Pollers -> [Providers -> Amounts]]
        /\ \A x \in Pollers, y \in Providers :
             rows'[x][y] = IF x = w /\ y = p THEN usage[p] ELSE rows[x][y]
    BY <2>1 DEF CostTypeOK
  <2>3. \A a \in Accounts : usage[p][a] <= usage[p][a]
    BY <2>1 DEF Amounts
  <2>4. RowsBehind'
    BY <2>1, <2>2, <2>3 DEF RowsBehind
  <2> QED
    BY <2>1, <2>2, <2>4 DEF CostTypeOK, CostsNeverAhead
<1>7. ASSUME NEW w \in Pollers, NEW p \in Providers, PersistDailyBuckets(w, p)
      PROVE  CostInv'
  <2>1. costs' = [costs EXCEPT ![p] = Total(rows[w][p])] /\ UNCHANGED <<usage, rows, report>>
    BY <1>7 DEF PersistDailyBuckets
  <2>2. /\ rows[w][p] \in Amounts /\ usage[p] \in Amounts
        /\ \A a \in Accounts : rows[w][p][a] <= usage[p][a]
    BY DEF CostTypeOK, RowsBehind
  <2>3. Total(rows[w][p]) \in Nat /\ Total(rows[w][p]) <= Total(usage[p])
    BY <2>2, TotalMonotone
  <2>4. costs' \in [Providers -> Nat]
    BY <2>1, <2>3 DEF CostTypeOK
  <2>5. \A x \in Providers : costs'[x] <= Total(usage[x])
    BY <2>1, <2>3 DEF CostTypeOK, CostsNeverAhead
  <2> QED
    BY <2>1, <2>4, <2>5 DEF CostTypeOK, RowsBehind, CostsNeverAhead
<1>8. CASE ReportProviders \/ ReportModels
  BY <1>8 DEF ReportProviders, ReportModels, pollVars, CostTypeOK, RowsBehind, CostsNeverAhead
<1>9. ASSUME NEW p \in Providers, NEW a \in Accounts, Spend(p, a)
      PROVE  CostInv'
  <2>1. usage' = [usage EXCEPT ![p][a] = @ + 1] /\ UNCHANGED <<costs, rows, report>>
    BY <1>9 DEF Spend, pollVars
  <2>2. \A x \in Providers, b \in Accounts :
          usage'[x][b] = IF x = p /\ b = a THEN usage[x][b] + 1 ELSE usage[x][b]
    BY <2>1 DEF CostTypeOK, Amounts
  <2>3. usage' \in [Providers -> Amounts]
    BY <2>1 DEF CostTypeOK, Amounts
  <2>4. \A x \in Providers, b \in Accounts : usage[x][b] \in Nat /\ usage[x][b] <= usage'[x][b]
    BY <2>2 DEF CostTypeOK, Amounts
  <2>5. \A x \in Providers : Total(usage[x]) \in Nat /\ Total(usage'[x]) \in Nat
                             /\ Total(usage[x]) <= Total(usage'[x])
    <3> SUFFICES ASSUME NEW x \in Providers
                 PROVE  Total(usage[x]) \in Nat /\ Total(usage'[x]) \in Nat
                        /\ Total(usage[x]) <= Total(usage'[x])
      OBVIOUS
    <3>1. usage[x] \in Amounts /\ usage'[x] \in Amounts
      BY <2>3 DEF CostTypeOK
    <3> QED
      BY <2>4, <3>1, TotalMonotone
  <2>6. RowsBehind'
    <3>1. \A w \in Pollers, x \in Providers, b \in Accounts : rows[w][x][b] \in Nat
      BY DEF CostTypeOK, Amounts
    <3>2. \A x \in Providers, b \in Accounts : usage'[x][b] \in Nat
      BY <2>3 DEF Amounts
    <3> QED
      BY <2>1, <2>4, <3>1, <3>2 DEF RowsBehind
  <2>7. CostsNeverAhead'
    <3>1. \A x \in Providers : costs[x] \in Nat /\ (report # NoReport => report[x] \in Nat)
      BY DEF CostTypeOK
    <3> QED
      BY <2>1, <2>5, <3>1 DEF CostsNeverAhead
  <2> QED
    BY <2>1, <2>3, <2>6, <2>7 DEF CostTypeOK
<1> QED
  BY <1>2, <1>3, <1>4, <1>5, <1>6, <1>7, <1>8, <1>9 DEF CostNext, PollProvider

\* The costs table and a report taken from it never claim more than a
\* provider has billed, for any providers, accounts and pollers at a time:
\* a poll replaces the bucket by the sum of amounts that were billed when
\* it fetched them.
THEOREM CostsStayBehind == CostSpec => []CostsNeverAhead
<1>1. CostInv => CostsNeverAhead
  BY DEF CostInv
<1> QED
  BY <1>1, InitCostInv, NextCostInv, PTL DEF CostSpec
=============================================================================
