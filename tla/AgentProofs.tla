----------------------------- MODULE AgentProofs -----------------------------
(***************************************************************************)
(* Proofs about the agent's own services: provisioning and the session     *)
(* commands.                                                               *)
(***************************************************************************)
EXTENDS Provisioning, AgentSessions, FiniteSetTheorems, WellFoundedInduction, TLAPS

LEMMA Induction ==
  ASSUME NEW T \in SUBSET Nat, 0 \in T, \A n \in T : n + 1 \in T
  PROVE  T = Nat
<1> SUFFICES ASSUME Nat \ T # {} PROVE FALSE
  OBVIOUS
<1>1. \E m \in Nat \ T : \A k \in Nat \ T : ~ (<<k, m>> \in OpToRel(<, Nat))
  BY NatLessThanWellFounded, WFMin
<1>2. PICK m \in Nat \ T : \A k \in Nat \ T : ~ (<<k, m>> \in OpToRel(<, Nat))
  BY <1>1
<1>3. m - 1 \in T
  <2>1. m # 0 /\ m - 1 \in Nat /\ m - 1 < m
    OBVIOUS
  <2>2. <<m - 1, m>> \in OpToRel(<, Nat)
    BY <2>1 DEF OpToRel
  <2> QED
    BY <1>2, <2>1, <2>2
<1> QED
  BY <1>3

-----------------------------------------------------------------------------
(* detectDrift, a recursive function over the positions of the manifest.   *)

FindsTo(f, manifest, k) ==
  f = [n \in 0..k |->
        IF n = 0 THEN <<>>
        ELSE IF Drifts(manifest[n]) THEN Append(f[n - 1], manifest[n]) ELSE f[n - 1]]

Found(manifest) == CHOOSE f : FindsTo(f, manifest, Len(manifest))

LEMMA DetectDriftIsFound == ASSUME NEW manifest PROVE DetectDrift(manifest) = Found(manifest)[Len(manifest)]
BY DEF DetectDrift, Found, FindsTo

LEMMA FoundExists ==
  ASSUME NEW manifest \in Seq(Items)
  PROVE  FindsTo(Found(manifest), manifest, Len(manifest))
<1> DEFINE T == {k \in Nat : \E f : FindsTo(f, manifest, k)}
<1>1. 0 \in T
  <2> DEFINE f == [n \in 0..0 |-> <<>>]
  <2>1. FindsTo(f, manifest, 0)
    BY DEF FindsTo
  <2> QED
    BY <2>1
<1>2. ASSUME NEW k \in T
      PROVE  k + 1 \in T
  <2>1. PICK f : FindsTo(f, manifest, k)
    OBVIOUS
  <2> DEFINE last(n) == IF Drifts(manifest[n]) THEN Append(f[n - 1], manifest[n]) ELSE f[n - 1]
             h == [n \in 0..(k + 1) |-> IF n = 0 THEN <<>> ELSE last(n)]
  <2>2. k \in Nat /\ \A n \in 0..k : f[n] = IF n = 0 THEN <<>> ELSE last(n)
    BY <2>1 DEF FindsTo
  <2>3. \A n \in 0..(k + 1) : h[n] = IF n = 0 THEN <<>> ELSE last(n)
    OBVIOUS
  <2> HIDE DEF h, last
  <2>4. \A n \in 0..(k + 1) : n # 0 => n - 1 \in 0..k /\ n - 1 \in 0..(k + 1)
    BY <2>2
  <2>5. \A n \in 0..k : n \in 0..(k + 1)
    BY <2>2
  <2>6. \A n \in 0..k : h[n] = f[n]
    BY <2>2, <2>3, <2>5
  <2>7. \A n \in 0..(k + 1) : n # 0 => h[n - 1] = f[n - 1]
    BY <2>4, <2>6
  <2>8. \A n \in 0..(k + 1) :
          h[n] = IF n = 0 THEN <<>>
                 ELSE IF Drifts(manifest[n]) THEN Append(h[n - 1], manifest[n]) ELSE h[n - 1]
    BY <2>3, <2>7 DEF last
  <2>9. h = [n \in 0..(k + 1) |-> h[n]]
    BY DEF h
  <2>10. FindsTo(h, manifest, k + 1)
    BY <2>8, <2>9 DEF FindsTo
  <2> QED
    BY <2>2, <2>10
<1>3. T = Nat
  BY <1>1, <1>2, Induction
<1>4. Len(manifest) \in T
  <2>1. Len(manifest) \in Nat
    OBVIOUS
  <2> HIDE DEF T
  <2> QED
    BY <1>3, <2>1
<1>5. \E f : FindsTo(f, manifest, Len(manifest))
  BY <1>4
<1> QED
  BY <1>5 DEF Found

In(x, s) == \E j \in 1..Len(s) : s[j] = x

\* What detectDrift returns are items, and every item of the manifest that
\* drifts is among them.
LEMMA DetectDriftFinds ==
  ASSUME NEW manifest \in Seq(Items)
  PROVE  /\ DetectDrift(manifest) \in Seq(Items)
         /\ \A i \in 1..Len(manifest) : Drifts(manifest[i]) => In(manifest[i], DetectDrift(manifest))
<1> DEFINE f == Found(manifest)
           m == Len(manifest)
           Holds(k) == /\ f[k] \in Seq(Items)
                       /\ \A i \in 1..k : Drifts(manifest[i]) => In(manifest[i], f[k])
           T == {k \in Nat : k <= m => Holds(k)}
<1>1. m \in Nat /\ \A i \in 1..m : manifest[i] \in Items
  OBVIOUS
<1>2. /\ f[0] = <<>>
      /\ \A n \in 1..m :
           f[n] = IF Drifts(manifest[n]) THEN Append(f[n - 1], manifest[n]) ELSE f[n - 1]
  <2>1. FindsTo(f, manifest, m)
    BY FoundExists
  <2> HIDE DEF f, m
  <2>2. \A n \in 0..m :
          f[n] = IF n = 0 THEN <<>>
                 ELSE IF Drifts(manifest[n]) THEN Append(f[n - 1], manifest[n]) ELSE f[n - 1]
    BY <2>1 DEF FindsTo
  <2>3. 0 \in 0..m /\ \A n \in 1..m : n \in 0..m /\ n # 0
    BY <1>1
  <2> QED
    BY <2>2, <2>3
<1> HIDE DEF f, m
<1>3. 0 \in T
  <2>1. <<>> \in Seq(Items) /\ 1..0 = {}
    OBVIOUS
  <2>2. Holds(0)
    BY <1>2, <2>1
  <2> QED
    BY <2>2
<1>4. ASSUME NEW k \in T
      PROVE  k + 1 \in T
  <2> SUFFICES ASSUME k + 1 <= m PROVE Holds(k + 1)
    OBVIOUS
  <2>1. k \in Nat /\ k + 1 \in 1..m /\ (k + 1) - 1 = k /\ Holds(k) /\ manifest[k + 1] \in Items
    BY <1>1
  <2>2. \A i \in 1..(k + 1) : i \in 1..k \/ i = k + 1
    BY <2>1
  <2>3. CASE ~ Drifts(manifest[k + 1])
    <3>1. f[k + 1] = f[k]
      BY <1>2, <2>1, <2>3
    <3> QED
      BY <2>1, <2>2, <2>3, <3>1
  <2>4. CASE Drifts(manifest[k + 1])
    <3>1. f[k + 1] = Append(f[k], manifest[k + 1])
      BY <1>2, <2>1, <2>4
    <3>2. /\ f[k + 1] \in Seq(Items) /\ Len(f[k + 1]) = Len(f[k]) + 1 /\ Len(f[k]) \in Nat
          /\ f[k + 1][Len(f[k]) + 1] = manifest[k + 1]
          /\ \A j \in 1..Len(f[k]) : f[k + 1][j] = f[k][j]
      BY <2>1, <3>1
    <3>3. In(manifest[k + 1], f[k + 1])
      BY <3>2 DEF In
    <3>4. \A i \in 1..k : In(manifest[i], f[k]) => In(manifest[i], f[k + 1])
      BY <3>2 DEF In
    <3> QED
      BY <2>1, <2>2, <3>2, <3>3, <3>4
  <2> QED
    BY <2>3, <2>4
<1>5. T = Nat
  BY <1>3, <1>4, Induction
<1>6. Holds(m)
  BY <1>1, <1>5
<1> QED
  BY <1>6, DetectDriftIsFound DEF f, m

-----------------------------------------------------------------------------
(* Provisioning. *)

Env == OfKind({"env"})
Contents == {"absent", "made", "own", "bare", "dir"}

ProvisionTypeOK ==
  /\ disk \in [Paths -> Contents]
  /\ \A i \in Paths : KindOf[i] = "slashdir" => disk[i] # "made"
  /\ present \subseteq Settings /\ marks \in [Env -> Nat]
  /\ pc \in {"idle", "run", "write"} /\ todo \in Seq(Items)
  /\ pc = "write" => todo # <<>> /\ IsSafeCategory(Head(todo))

\* Between a fix's look and its write nothing is there that people did not
\* make meanwhile, and no marker.
LookedInv ==
  pc = "write" =>
    /\ Head(todo) \in Paths => disk[Head(todo)] = "absent" \/ Head(todo) \in raced
    /\ Head(todo) \notin Paths => marks[Head(todo)] = 0

\* A fix has nothing more to do for the item, or people undid it.
Mended(i) ==
  \/ ~ IsSafeCategory(i) \/ i \in undone
  \/ i \in Paths /\ disk[i] # "absent"
  \/ i \in Env /\ (i \in present \/ marks[i] > 0)

MendedInv ==
  full =>
    /\ pc # "idle" => \A i \in Items : Mended(i) \/ In(i, todo)
    /\ pc = "idle" /\ status \in {"completed", "partial"} => \A i \in Items : Mended(i)

ProvisionInv == ProvisionTypeOK /\ LookedInv /\ MarkerOnce /\ MendedInv

LEMMA ItemKinds ==
  /\ Manifest \in Seq(Items) /\ AgentMD \in Items
  /\ \A i \in Items : i \in Paths \/ i \in Settings
  /\ \A i \in Paths : i \in Items /\ i \notin Env
                      /\ KindOf[i] \in {"agentmd", "file", "dir", "doc", "hook", "slashdir", "recommended"}
  /\ \A i \in Settings : i \in Items /\ i \notin Paths
                         /\ KindOf[i] \in {"env", "runtime", "gitconfig"}
                         /\ (i \in Env <=> KindOf[i] = "env")
  /\ \A i \in Items : IsSafeCategory(i) => i \in Paths \/ i \in Env
BY ManifestAssumption DEF OfKind, Paths, Settings, Env, FileKinds, IsSafeCategory

LEMMA HeadTail ==
  ASSUME todo \in Seq(Items), todo # <<>>
  PROVE  /\ Head(todo) \in Items /\ Tail(todo) \in Seq(Items)
         /\ \A i \in Items : In(i, todo) => i = Head(todo) \/ In(i, Tail(todo))
<1>1. Head(todo) \in Items /\ Tail(todo) \in Seq(Items) /\ Head(todo) = todo[1]
  OBVIOUS
<1>2. /\ Len(todo) \in Nat /\ Len(Tail(todo)) = Len(todo) - 1
      /\ \A j \in 1..(Len(todo) - 1) : Tail(todo)[j] = todo[j + 1]
  OBVIOUS
<1>3. \A j \in 1..Len(todo) : j = 1 \/ (j - 1 \in 1..(Len(todo) - 1) /\ (j - 1) + 1 = j)
  BY <1>2
<1> QED
  BY <1>1, <1>2, <1>3 DEF In

LEMMA InitProvisionInv == ProvisionInit => ProvisionInv
<1> SUFFICES ASSUME ProvisionInit PROVE ProvisionInv
  OBVIOUS
<1>1. <<>> \in Seq(Items)
  OBVIOUS
<1>2. ProvisionTypeOK
  BY <1>1 DEF ProvisionInit, ProvisionTypeOK, Contents, Env
<1>3. MarkerOnce
  BY DEF ProvisionInit, MarkerOnce
<1> QED
  BY <1>2, <1>3 DEF ProvisionInit, ProvisionInv, LookedInv, MendedInv

\* What a fix writes for the item in hand.
LEMMA WriteEffect ==
  ASSUME ProvisionTypeOK, LookedInv, MarkerOnce, pc = "write",
         WritePath(Head(todo)) \/ InjectEnvVar(Head(todo))
  PROVE  /\ disk' \in [Paths -> Contents] /\ marks' \in [Env -> Nat] /\ MarkerOnce'
         /\ \A i \in Paths : KindOf[i] = "slashdir" => disk'[i] # "made"
         /\ \A i \in Paths : disk[i] # "absent" => disk'[i] # "absent"
         /\ \A i \in Paths : disk'[i] = "made" => disk[i] = "made" \/ i = Head(todo)
         /\ \A i \in Env : marks[i] > 0 => marks'[i] > 0
         /\ Head(todo) \in Paths => disk'[Head(todo)] # "absent"
         /\ Head(todo) \in Env => marks'[Head(todo)] > 0
<1> DEFINE h == Head(todo)
<1>1. h \in Items /\ (h \in Paths \/ h \in Env)
  BY HeadTail, ItemKinds DEF ProvisionTypeOK
<1> HIDE DEF h
<1>2. CASE WritePath(h)
  <2>1. h \in Paths /\ h \notin Env /\ marks' = marks
    BY <1>1, <1>2, ItemKinds DEF WritePath, FileKinds, Settings, Env, OfKind
  <2>2. PICK c \in {"dir", "made"} :
          /\ disk' = [disk EXCEPT ![h] = c]
          /\ KindOf[h] = "slashdir" => c = "dir"
    BY <1>2 DEF WritePath, FileKinds
  <2>3. /\ disk' \in [Paths -> Contents]
        /\ \A i \in Paths : disk'[i] = IF i = h THEN c ELSE disk[i]
    BY <2>1, <2>2 DEF ProvisionTypeOK, Contents
  <2> QED
    BY <2>1, <2>2, <2>3 DEF ProvisionTypeOK, MarkerOnce, h
<1>3. CASE InjectEnvVar(h)
  <2>1. h \in Env /\ h \notin Paths /\ disk' = disk /\ marks' = [marks EXCEPT ![h] = @ + 1]
    BY <1>1, <1>3, ItemKinds DEF InjectEnvVar, Env, OfKind
  <2>2. marks[h] = 0
    BY <2>1 DEF LookedInv, h
  <2>3. /\ marks' \in [Env -> Nat]
        /\ \A i \in Env : marks'[i] = IF i = h THEN 1 ELSE marks[i]
    BY <2>1, <2>2 DEF ProvisionTypeOK
  <2>4. MarkerOnce'
    BY <2>3 DEF MarkerOnce, ProvisionTypeOK
  <2> QED
    BY <2>1, <2>3, <2>4 DEF ProvisionTypeOK, h
<1> QED
  BY <1>2, <1>3 DEF h

\* A fix that is cut short has had its effect or none.
LEMMA TornEffect ==
  ASSUME ProvisionTypeOK, LookedInv, MarkerOnce, pc = "write", Torn
  PROVE  /\ disk' \in [Paths -> Contents] /\ marks' \in [Env -> Nat] /\ MarkerOnce'
         /\ \A i \in Paths : KindOf[i] = "slashdir" => disk'[i] # "made"
         /\ \A i \in Paths : disk'[i] = "made" => disk[i] = "made" \/ i = Head(todo)
<1>1. CASE UNCHANGED <<disk, marks>>
  BY <1>1 DEF ProvisionTypeOK, MarkerOnce
<1>2. CASE WritePath(Head(todo)) \/ InjectEnvVar(Head(todo))
  BY <1>2, WriteEffect
<1> QED
  BY <1>1, <1>2 DEF Torn

LEMMA NextProvisionInv == ProvisionInv /\ [ProvisionNext]_nodeVars => ProvisionInv'
<1> SUFFICES ASSUME ProvisionInv, [ProvisionNext]_nodeVars PROVE ProvisionInv'
  OBVIOUS
<1>0. ProvisionTypeOK /\ LookedInv /\ MarkerOnce /\ MendedInv
  BY DEF ProvisionInv
<1>1. CASE EnvProvision
  <2>1. /\ pc' = "run" /\ todo' = DetectDrift(Manifest) /\ full' = TRUE
        /\ UNCHANGED <<disk, present, marks>>
    BY <1>1 DEF EnvProvision, Provision
  <2>2. /\ todo' \in Seq(Items)
        /\ \A i \in 1..Len(Manifest) : Drifts(Manifest[i]) => In(Manifest[i], todo')
    BY <2>1, DetectDriftFinds, ItemKinds
  <2>3. \A i \in Items : Mended(i)' \/ In(i, todo')
    <3> SUFFICES ASSUME NEW i \in Items PROVE Mended(i)' \/ In(i, todo')
      OBVIOUS
    <3>1. PICK j \in 1..Len(Manifest) : Manifest[j] = i
      <4>1. DOMAIN Manifest = 1..Len(Manifest)
        BY ItemKinds
      <4> QED
        BY <4>1 DEF Items, Range
    <3>2. CASE Drifts(i)
      BY <2>2, <3>1, <3>2
    <3>3. CASE ~ Drifts(i)
      <4>1. IsSafeCategory(i) => i \in Paths \/ i \in Env
        BY ItemKinds
      <4>2. i \in Env => KindOf[i] = "env"
        BY DEF Env, OfKind
      <4>3. CASE ~ IsSafeCategory(i)
        BY <4>3 DEF Mended, IsSafeCategory
      <4>4. CASE IsSafeCategory(i) /\ i \in Paths
        <5>1. KindOf[i] # "env"
          BY <4>4 DEF Paths, OfKind, FileKinds
        <5>2. disk[i] # "absent"
          BY <3>3, <4>4, <5>1 DEF Drifts, IsSafeCategory
        <5> QED
          BY <2>1, <4>4, <5>2 DEF Mended
      <4>5. CASE i \in Env
        <5>1. i \in present
          BY <3>3, <4>2, <4>5 DEF Drifts
        <5> QED
          BY <2>1, <4>5, <5>1 DEF Mended
      <4> QED
        BY <4>1, <4>3, <4>4, <4>5
    <3> QED
      BY <3>2, <3>3
  <2>4. ProvisionTypeOK'
    BY <1>0, <2>1, <2>2 DEF ProvisionTypeOK
  <2>5. LookedInv' /\ MarkerOnce' /\ MendedInv'
    BY <1>0, <2>1, <2>3 DEF LookedInv, MarkerOnce, MendedInv
  <2> QED
    BY <2>4, <2>5 DEF ProvisionInv
<1>2. CASE AgentMDSync
  <2>1. /\ pc' = "run" /\ todo' = DetectDrift(<<AgentMD>>) /\ full' = FALSE
        /\ UNCHANGED <<disk, present, marks>>
    BY <1>2 DEF AgentMDSync, Provision
  <2>2. <<AgentMD>> \in Seq(Items)
    BY ItemKinds
  <2>3. todo' \in Seq(Items)
    BY <2>1, <2>2, DetectDriftFinds
  <2> QED
    BY <1>0, <2>1, <2>3 DEF ProvisionInv, ProvisionTypeOK, LookedInv, MarkerOnce, MendedInv
<1>3. CASE EmitRiskyFix
  <2>1. /\ pc = "run" /\ todo # <<>> /\ ~ IsSafeCategory(Head(todo)) /\ todo' = Tail(todo)
        /\ UNCHANGED <<disk, present, marks, pc, status, full, undone, raced>>
    BY <1>3 DEF EmitRiskyFix
  <2>2. /\ Tail(todo) \in Seq(Items)
        /\ \A i \in Items : In(i, todo) => i = Head(todo) \/ In(i, Tail(todo))
    BY <1>0, <2>1, HeadTail DEF ProvisionTypeOK
  <2>3. MendedInv'
    BY <1>0, <2>1, <2>2 DEF MendedInv, Mended
  <2> QED
    BY <1>0, <2>1, <2>2, <2>3 DEF ProvisionInv, ProvisionTypeOK, LookedInv, MarkerOnce
<1>4. CASE Recheck
  <2> DEFINE h == Head(todo)
  <2>1. /\ pc = "run" /\ todo # <<>> /\ IsSafeCategory(h)
        /\ UNCHANGED <<disk, present, marks, status, full, undone>>
    BY <1>4 DEF Recheck
  <2>2. /\ h \in Items /\ Tail(todo) \in Seq(Items)
        /\ \A i \in Items : In(i, todo) => i = h \/ In(i, Tail(todo))
    BY <1>0, <2>1, HeadTail DEF ProvisionTypeOK
  <2>3. h \in Paths \/ h \in Env
    BY <2>1, <2>2, ItemKinds
  <2>4. CASE IF h \in Paths THEN disk[h] # "absent" ELSE marks[h] > 0
    <3>1. todo' = Tail(todo) /\ pc' = pc
      BY <1>4, <2>4 DEF Recheck
    <3>2. Mended(h)
      BY <2>3, <2>4 DEF Mended
    <3>3. MendedInv'
      BY <1>0, <2>1, <2>2, <3>1, <3>2 DEF MendedInv, Mended
    <3> QED
      BY <1>0, <2>1, <2>2, <3>1, <3>3 DEF ProvisionInv, ProvisionTypeOK, LookedInv, MarkerOnce
  <2>5. CASE ~ (IF h \in Paths THEN disk[h] # "absent" ELSE marks[h] > 0)
    <3>1. todo' = todo /\ pc' = "write"
      BY <1>4, <2>5 DEF Recheck
    <3>2. h \notin Paths => marks[h] = 0
      BY <1>0, <2>3, <2>5 DEF ProvisionTypeOK
    <3>3. LookedInv'
      BY <2>1, <2>5, <3>1, <3>2 DEF LookedInv
    <3>4. MendedInv'
      BY <1>0, <2>1, <3>1 DEF MendedInv, Mended
    <3> QED
      BY <1>0, <2>1, <3>1, <3>3, <3>4 DEF ProvisionInv, ProvisionTypeOK, MarkerOnce
  <2> QED
    BY <2>4, <2>5
<1>5. CASE ApplySafeFix
  <2> DEFINE h == Head(todo)
  <2>1. /\ pc = "write" /\ (WritePath(h) \/ InjectEnvVar(h))
        /\ pc' = "run" /\ todo' = Tail(todo)
        /\ UNCHANGED <<present, status, full, undone>>
    BY <1>5 DEF ApplySafeFix
  <2>2. /\ todo # <<>> /\ h \in Items /\ Tail(todo) \in Seq(Items) /\ IsSafeCategory(h)
        /\ \A i \in Items : In(i, todo) => i = h \/ In(i, Tail(todo))
    BY <1>0, <2>1, HeadTail DEF ProvisionTypeOK
  <2>3. /\ disk' \in [Paths -> Contents] /\ marks' \in [Env -> Nat] /\ MarkerOnce'
        /\ \A i \in Paths : KindOf[i] = "slashdir" => disk'[i] # "made"
        /\ \A i \in Paths : disk[i] # "absent" => disk'[i] # "absent"
        /\ \A i \in Env : marks[i] > 0 => marks'[i] > 0
        /\ h \in Paths => disk'[h] # "absent"
        /\ h \in Env => marks'[h] > 0
    BY <1>0, <2>1, WriteEffect
  <2>4. h \in Paths \/ h \in Env
    BY <2>2, ItemKinds
  <2>5. \A i \in Items : Mended(i) \/ i = h => Mended(i)'
    BY <2>1, <2>3, <2>4 DEF Mended
  <2>6. MendedInv'
    BY <1>0, <2>1, <2>2, <2>5 DEF MendedInv
  <2> QED
    BY <1>0, <2>1, <2>2, <2>3, <2>6 DEF ProvisionInv, ProvisionTypeOK, LookedInv
<1>6. CASE FixFails
  <2>1. <<>> \in Seq(Items)
    OBVIOUS
  <2>2. /\ disk' \in [Paths -> Contents] /\ marks' \in [Env -> Nat] /\ MarkerOnce'
        /\ \A i \in Paths : KindOf[i] = "slashdir" => disk'[i] # "made"
    BY <1>0, <1>6, TornEffect DEF FixFails
  <2> QED
    BY <1>0, <1>6, <2>1, <2>2 DEF FixFails, ProvisionInv, ProvisionTypeOK, LookedInv, MendedInv
<1>7. CASE ProvisionDies
  <2>1. <<>> \in Seq(Items)
    OBVIOUS
  <2>2. /\ disk' \in [Paths -> Contents] /\ marks' \in [Env -> Nat] /\ MarkerOnce'
        /\ \A i \in Paths : KindOf[i] = "slashdir" => disk'[i] # "made"
    <3>1. CASE pc = "write"
      BY <1>0, <1>7, <3>1, TornEffect DEF ProvisionDies
    <3>2. CASE pc # "write"
      BY <1>0, <1>7, <3>2 DEF ProvisionDies, ProvisionTypeOK, MarkerOnce
    <3> QED
      BY <3>1, <3>2
  <2> QED
    BY <1>0, <1>7, <2>1, <2>2 DEF ProvisionDies, ProvisionInv, ProvisionTypeOK, LookedInv, MendedInv
<1>8. CASE ProvisionReturns
  <2>1. /\ pc = "run" /\ todo = <<>> /\ pc' = "idle"
        /\ UNCHANGED <<disk, present, marks, todo, full, undone>>
    BY <1>8 DEF ProvisionReturns
  <2>2. \A i \in Items : ~ In(i, todo)
    BY <2>1 DEF In
  <2>3. MendedInv'
    BY <1>0, <2>1, <2>2 DEF MendedInv, Mended
  <2> QED
    BY <1>0, <2>1, <2>3 DEF ProvisionInv, ProvisionTypeOK, LookedInv, MarkerOnce
<1>9. ASSUME NEW i \in Paths, EditPath(i)
      PROVE  ProvisionInv'
  <2>1. /\ UNCHANGED <<present, marks, pc, todo, status, full>>
        /\ undone' = IF disk'[i] = "absent" THEN undone \cup {i} ELSE undone
        /\ raced' = IF pc = "write" /\ i = Head(todo) THEN {i} ELSE raced
    BY <1>9 DEF EditPath
  <2>2. PICK c \in Contents \ {"made"} : disk' = [disk EXCEPT ![i] = c]
    BY <1>9 DEF EditPath, Contents
  <2>3. /\ disk' \in [Paths -> Contents]
        /\ \A x \in Paths : disk'[x] = IF x = i THEN c ELSE disk[x]
    BY <1>0, <2>2 DEF ProvisionTypeOK
  <2>4. ProvisionTypeOK'
    BY <1>0, <2>1, <2>2, <2>3 DEF ProvisionTypeOK
  <2>5. LookedInv'
    BY <1>0, <2>1, <2>3 DEF LookedInv
  <2>6. \A x \in Items : Mended(x) => Mended(x)'
    BY <2>1, <2>3 DEF Mended
  <2>7. MendedInv'
    BY <1>0, <2>1, <2>6 DEF MendedInv
  <2> QED
    BY <1>0, <2>1, <2>4, <2>5, <2>7 DEF ProvisionInv, MarkerOnce
<1>10. ASSUME NEW i \in Settings, ChangeSetting(i)
       PROVE  ProvisionInv'
  <2>1. /\ UNCHANGED <<disk, marks, pc, todo, status, full, raced>>
        /\ present' = IF i \in present THEN present \ {i} ELSE present \cup {i}
        /\ undone' = undone \cup (present \cap {i})
    BY <1>10 DEF ChangeSetting
  <2>2. \A x \in Items : Mended(x) => Mended(x)'
    BY <2>1 DEF Mended
  <2>3. MendedInv'
    BY <1>0, <2>1, <2>2 DEF MendedInv
  <2> QED
    BY <1>0, <2>1, <2>3 DEF ProvisionInv, ProvisionTypeOK, LookedInv, MarkerOnce
<1>11. CASE UNCHANGED nodeVars
  BY <1>0, <1>11 DEF nodeVars, ProvisionInv, ProvisionTypeOK, LookedInv, MarkerOnce, MendedInv, Mended
<1> QED
  BY <1>1, <1>2, <1>3, <1>4, <1>5, <1>6, <1>7, <1>8, <1>9, <1>10, <1>11 DEF ProvisionNext

\* No variable gets a second marker in the rc file, for any manifest and
\* any number of runs, failures and deaths of the agent.
THEOREM MarkerIsOnce == ProvisionSpec => []MarkerOnce
<1>1. ProvisionInv => MarkerOnce
  BY DEF ProvisionInv
<1> QED
  BY <1>1, InitProvisionInv, NextProvisionInv, PTL DEF ProvisionSpec

\* What the checker still finds failing after a provisioning that did not
\* fail is what people changed, what needs approval, or one of the two known
\* differences between Provisioner and EnvChecker, for any manifest.
THEOREM ProvisionedPasses == ProvisionSpec => []ProvisionedPassesCheck
<1>1. ProvisionInv => ProvisionedPassesCheck
  <2> SUFFICES ASSUME ProvisionInv, pc = "idle", full, status \in {"completed", "partial"},
                      NEW i \in Failing \ undone, IsSafeCategory(i)
               PROVE  \/ KindOf[i] = "env" /\ marks[i] > 0
                      \/ KindOf[i] = "dir" /\ disk[i] = "made"
                      \/ i \in Paths /\ disk[i] \in {"own", "bare"}
    BY DEF ProvisionedPassesCheck
  <2>1. i \in Items
    BY DEF Failing, CheckRuntime, CheckEnvVars, CheckAgentConfig, CheckContext, CheckGit, CheckDocs,
       OfKind
  <2>2. Mended(i)
    BY <2>1 DEF ProvisionInv, MendedInv
  <2>3. CASE i \in Env
    <3>1. KindOf[i] = "env" /\ i \notin present
      BY <2>3 DEF Env, OfKind, Failing, CheckRuntime, CheckEnvVars, CheckAgentConfig, CheckContext,
         CheckGit, CheckDocs
    <3>2. i \notin Paths
      BY <2>3, ItemKinds
    <3> QED
      BY <2>2, <3>1, <3>2 DEF Mended
  <2>4. CASE i \in Paths
    <3>1. disk[i] # "absent" /\ i \notin Env /\ disk[i] \in Contents
      BY <2>2, <2>4, ItemKinds DEF Mended, ProvisionInv, ProvisionTypeOK
    <3>2. \/ KindOf[i] = "hook" /\ disk[i] = "bare"
          \/ KindOf[i] \in {"dir", "slashdir"} /\ disk[i] # "dir"
      BY <2>4, <3>1, ItemKinds DEF Env, OfKind, Failing, CheckRuntime, CheckEnvVars, CheckAgentConfig,
         CheckContext, CheckGit, CheckDocs
    <3>3. KindOf[i] = "slashdir" => disk[i] # "made"
      BY <2>4 DEF ProvisionInv, ProvisionTypeOK
    <3> QED
      BY <2>4, <3>1, <3>2, <3>3 DEF Contents
  <2> QED
    BY <2>1, <2>3, <2>4, ItemKinds
<1> QED
  BY <1>1, InitProvisionInv, NextProvisionInv, PTL DEF ProvisionSpec

\* No step writes over what people have put there, but for what they make
\* between a fix's os.Stat and its write.
THEOREM OwnContentIsKept == ProvisionSpec => OwnContentKept
<1>1. ASSUME ProvisionInv, [ProvisionNext]_nodeVars
      PROVE  [\A i \in Paths :
                disk[i] \in {"own", "bare"} /\ disk'[i] = "made" => i \in raced]_nodeVars
  <2> SUFFICES ASSUME ProvisionNext, NEW i \in Paths, disk[i] \in {"own", "bare"}, disk'[i] = "made"
               PROVE  i \in raced
    BY <1>1
  <2>1. ProvisionTypeOK /\ LookedInv /\ MarkerOnce
    BY <1>1 DEF ProvisionInv
  <2>2. CASE pc = "write" /\ (Torn \/ WritePath(Head(todo)) \/ InjectEnvVar(Head(todo)))
    <3>1. i = Head(todo)
      BY <2>1, <2>2, TornEffect, WriteEffect
    <3> QED
      BY <2>1, <2>2, <3>1 DEF LookedInv
  <2>3. CASE disk' = disk
    BY <2>3
  <2>4. ASSUME NEW j \in Paths, EditPath(j)
        PROVE  FALSE
    <3>1. PICK c \in Contents \ {"made"} : disk' = [disk EXCEPT ![j] = c]
      BY <2>4 DEF EditPath, Contents
    <3> QED
      BY <2>1, <3>1 DEF ProvisionTypeOK
  <2> QED
    BY <2>2, <2>3, <2>4 DEF ProvisionNext, EnvProvision, AgentMDSync, Provision, EmitRiskyFix, Recheck,
       ApplySafeFix, FixFails, ProvisionReturns, ProvisionDies, ChangeSetting
<1> QED
  BY <1>1, InitProvisionInv, NextProvisionInv, PTL DEF ProvisionSpec, OwnContentKept

-----------------------------------------------------------------------------
(* The session commands. *)

Known == Sessions \cup {NoSession}
Outcomes == {"none", "success", "failure"}
Stages == {"route", "abort", "delete", "new", "first", "prompt", "get", "answer"}
Commands == [op : Ops, s : Known, p : Dirs, made : Known, kill : Outcomes, res : Outcomes,
             prompt : BOOLEAN, pc : Stages]

ServerTypeOK ==
  /\ server \in [Sessions -> {"none", "live", "gone"}]
  /\ DOMAIN home = Sessions /\ DOMAIN route = Sessions
  /\ cmd = Idle \/ cmd \in Commands

\* The server gives ids in order.
IdsInOrder == \E n \in 0..MaxSessions : Given = 1..n

\* The command in hand is of sessions the server has given, and at the step
\* its operation takes it to.
CommandInv ==
  cmd # Idle =>
    /\ {cmd.s, cmd.made} \subseteq Given \cup {NoSession}
    /\ cmd.pc \in {"route", "abort", "delete", "prompt", "get"} => cmd.s # NoSession
    /\ cmd.pc = "route" => cmd.op # "create"
    /\ cmd.pc \in {"abort", "delete"} => cmd.op \in {"kill", "restart"}
    /\ cmd.pc = "prompt" => cmd.op = "prompt"
    /\ cmd.pc = "get" => cmd.op = "status"
    /\ cmd.pc \in {"new", "first"} => cmd.op \in {"create", "restart"}
    /\ cmd.pc = "first" => cmd.made \notin {NoSession, cmd.s}
    /\ cmd.kill = "success" => cmd.s \in Sessions /\ server[cmd.s] = "gone"
    /\ cmd.pc = "answer" /\ cmd.res = "success" =>
         \/ cmd.op = "kill" /\ server[cmd.s] = "gone" /\ cmd.s # NoSession
         \/ cmd.op = "create" /\ cmd.made # NoSession
         \/ cmd.op = "restart" /\ cmd.made \notin {NoSession, cmd.s}
         \/ cmd.op \in {"prompt", "status"} /\ cmd.s # NoSession

\* An answer says no more than what the server has come to.
TrueAnswer(a) ==
  \/ a.res # "success"
  \/ a.op = "kill" /\ a.s \in Sessions /\ server[a.s] = "gone"
  \/ a.op = "create" /\ a.output \in Given
  \/ a.op = "restart" /\ a.output \in Given /\ a.output # a.s
     /\ (a.kill = "success" => a.s \in Sessions /\ server[a.s] = "gone")
  \/ a.op \in {"prompt", "status"} /\ a.s \in Given

SessionsInv ==
  ServerTypeOK /\ IdsInOrder /\ CommandInv /\ \A a \in answers : TrueAnswer(a)

LEMMA GivenFacts ==
  /\ Given \subseteq Sessions /\ NoSession \notin Given /\ NoSession \notin Sessions
  /\ \A s \in Sessions : s \in Given <=> server[s] # "none"
BY SessionsAssumption DEF Given

\* The next id has not been given.
LEMMA NextIdIsNew ==
  ASSUME IdsInOrder
  PROVE  \E n \in 0..MaxSessions : Given = 1..n /\ NextId = n + 1 /\ NextId \notin Given
<1>1. PICK n \in 0..MaxSessions : Given = 1..n
  BY DEF IdsInOrder
<1>2. \A k \in Nat : Cardinality(1..k) = k
  <2>1. \A k \in Nat : Cardinality(1..k) = IF 1 > k THEN 0 ELSE k - 1 + 1
    BY FS_Interval
  <2> QED
    BY <2>1
<1>3. n \in Nat
  BY SessionsAssumption
<1>4. Cardinality(Given) = n
  BY <1>1, <1>2, <1>3
<1> QED
  BY <1>1, <1>3, <1>4 DEF NextId

\* Sessions only come and go: what was given stays given, and what is gone
\* stays gone, whoever creates or deletes.
ServerGrows ==
  /\ server' \in [Sessions -> {"none", "live", "gone"}]
  /\ Given \subseteq Given' /\ \A s \in Sessions : server[s] = "gone" => server'[s] = "gone"

LEMMA CreateGrows ==
  ASSUME ServerTypeOK, IdsInOrder, NextId \in Sessions, server' = [server EXCEPT ![NextId] = "live"]
  PROVE  ServerGrows /\ IdsInOrder' /\ NextId \in Given' /\ NextId \notin Given
<1>1. PICK n \in 0..MaxSessions : Given = 1..n /\ NextId = n + 1 /\ NextId \notin Given
  BY NextIdIsNew
<1> DEFINE x == NextId
<1>2. x = n + 1 /\ x \in Sessions /\ x \notin Given /\ server' = [server EXCEPT ![x] = "live"]
  BY <1>1
<1> HIDE DEF x
<1>3. /\ server' \in [Sessions -> {"none", "live", "gone"}]
      /\ \A s \in Sessions : server'[s] = IF s = x THEN "live" ELSE server[s]
  BY <1>2 DEF ServerTypeOK
<1>4. Given' = Given \cup {x}
  BY <1>2, <1>3 DEF Given
<1>5. Given' = 1..(n + 1) /\ n + 1 \in 0..MaxSessions
  BY <1>1, <1>2, <1>4, SessionsAssumption DEF Sessions
<1>6. server[x] = "none"
  BY <1>2 DEF Given
<1> QED
  BY <1>2, <1>3, <1>4, <1>5, <1>6 DEF ServerGrows, IdsInOrder, x

LEMMA DeleteGrows ==
  ASSUME ServerTypeOK, IdsInOrder, NEW s \in Sessions, server[s] = "live",
         server' = [server EXCEPT ![s] = "gone"]
  PROVE  ServerGrows /\ IdsInOrder' /\ server'[s] = "gone"
<1>1. /\ server' \in [Sessions -> {"none", "live", "gone"}]
      /\ \A x \in Sessions : server'[x] = IF x = s THEN "gone" ELSE server[x]
  BY DEF ServerTypeOK
<1>2. Given' = Given
  BY <1>1 DEF Given
<1> QED
  BY <1>1, <1>2 DEF ServerGrows, IdsInOrder

LEMMA SameGrows ==
  ASSUME ServerTypeOK, IdsInOrder, UNCHANGED server
  PROVE  ServerGrows /\ IdsInOrder'
BY DEF ServerTypeOK, IdsInOrder, ServerGrows, Given

LEMMA AnswersStayTrue ==
  ASSUME ServerGrows, NEW a, TrueAnswer(a)
  PROVE  TrueAnswer(a)'
BY DEF ServerGrows, TrueAnswer

LEMMA CommandStays ==
  ASSUME ServerTypeOK, CommandInv, ServerGrows, UNCHANGED cmd
  PROVE  CommandInv'
BY GivenFacts DEF ServerTypeOK, CommandInv, ServerGrows, Commands, Known

LEMMA InitSessionsInv == SessionsInit => SessionsInv
<1> SUFFICES ASSUME SessionsInit PROVE SessionsInv
  OBVIOUS
<1>1. Given = 1..0 /\ 0 \in 0..MaxSessions
  BY SessionsAssumption DEF SessionsInit, Given
<1> QED
  BY <1>1 DEF SessionsInit, SessionsInv, ServerTypeOK, IdsInOrder, CommandInv

\* Steps of a command that leave the server alone.
LEMMA CallSteps ==
  ASSUME ServerTypeOK, CommandInv, ClientForSession \/ AbortSession \/ PromptSession \/ GetStatus
  PROVE  /\ cmd' \in Commands /\ CommandInv' /\ DOMAIN route' = Sessions
         /\ UNCHANGED <<server, home, answers>>
<1>1. cmd # Idle /\ cmd \in Commands
  BY DEF ServerTypeOK, ClientForSession, AbortSession, PromptSession, GetStatus, At, Idle
<1>2. UNCHANGED <<server, home, answers>> /\ DOMAIN route' = Sessions /\ Given' = Given
  BY DEF ServerTypeOK, ClientForSession, AbortSession, PromptSession, GetStatus, Record, Given
<1>3. ASSUME Fails, cmd.pc \in {"route", "abort"}
      PROVE  cmd' \in Commands /\ CommandInv'
  <2>1. CASE cmd.op = "restart"
    <3>1. cmd' = [cmd EXCEPT !.pc = "new", !.kill = "failure"]
      BY <1>3, <2>1 DEF Fails, KillReturns
    <3>2. /\ cmd' \in Commands /\ cmd'.op = "restart" /\ cmd'.s = cmd.s /\ cmd'.made = cmd.made
          /\ cmd'.pc = "new" /\ cmd'.kill = "failure"
      BY <1>1, <2>1, <3>1 DEF Commands, Outcomes, Stages
    <3> QED
      BY <1>1, <1>2, <3>2 DEF CommandInv
  <2>2. CASE cmd.op # "restart"
    <3>1. cmd' = [cmd EXCEPT !.pc = "answer", !.res = "failure"]
      BY <1>3, <2>2 DEF Fails, KillReturns, Result
    <3>2. /\ cmd' \in Commands /\ cmd'.op = cmd.op /\ cmd'.s = cmd.s /\ cmd'.made = cmd.made
          /\ cmd'.pc = "answer" /\ cmd'.res = "failure" /\ cmd'.kill = cmd.kill
      BY <1>1, <3>1 DEF Commands, Outcomes, Stages
    <3> QED
      BY <1>1, <1>2, <3>2 DEF CommandInv
  <2> QED
    BY <2>1, <2>2
<1>4. ASSUME NEW r \in {"success", "failure"}, Result(r), cmd.pc \in {"prompt", "first", "get"}
      PROVE  cmd' \in Commands /\ CommandInv'
  <2>1. /\ cmd' \in Commands /\ cmd'.op = cmd.op /\ cmd'.s = cmd.s /\ cmd'.made = cmd.made
        /\ cmd'.pc = "answer" /\ cmd'.res = r /\ cmd'.kill = cmd.kill
    BY <1>1, <1>4 DEF Result, Commands, Outcomes, Stages
  <2> QED
    BY <1>1, <1>2, <1>4, <2>1 DEF CommandInv
<1>5. ASSUME NEW st \in {"abort", "prompt", "get", "delete"}, Goto(st), cmd.pc \in {"route", "abort"},
             st \in {"abort", "delete"} => cmd.op \in {"kill", "restart"},
             st = "prompt" => cmd.op = "prompt", st = "get" => cmd.op = "status"
      PROVE  cmd' \in Commands /\ CommandInv'
  <2>1. /\ cmd' \in Commands /\ cmd'.op = cmd.op /\ cmd'.s = cmd.s /\ cmd'.made = cmd.made
        /\ cmd'.pc = st /\ cmd'.res = cmd.res /\ cmd'.kill = cmd.kill
    BY <1>1, <1>5 DEF Goto, Commands, Stages
  <2> QED
    BY <1>1, <1>2, <1>5, <2>1 DEF CommandInv
<1>6. CASE ClientForSession
  <2>1. cmd.pc = "route" /\ cmd.op \in Ops /\ cmd.op # "create"
    BY <1>1, <1>6 DEF ClientForSession, At, Commands, CommandInv
  <2> QED
    BY <1>1, <1>2, <1>3, <1>5, <1>6, <2>1 DEF ClientForSession, At, Ops
<1>7. CASE AbortSession
  BY <1>1, <1>2, <1>3, <1>5, <1>7 DEF AbortSession, At, CommandInv
<1>8. CASE PromptSession \/ GetStatus
  BY <1>1, <1>2, <1>4, <1>8 DEF PromptSession, GetStatus, At
<1> QED
  BY <1>2, <1>6, <1>7, <1>8

\* DeleteSession: success is told only after the session went.
LEMMA DeleteStep ==
  ASSUME ServerTypeOK, IdsInOrder, CommandInv, DeleteSession
  PROVE  ServerGrows /\ IdsInOrder' /\ cmd' \in Commands /\ CommandInv'
<1>1. /\ cmd \in Commands /\ cmd # Idle /\ cmd.pc = "delete" /\ cmd.op \in {"kill", "restart"}
      /\ cmd.s \in Sessions /\ cmd.s \in Given
  BY GivenFacts DEF ServerTypeOK, CommandInv, DeleteSession, At, Idle
<1>2. ServerGrows /\ IdsInOrder'
  <2>1. CASE UNCHANGED server
    BY <2>1, SameGrows
  <2>2. CASE server[cmd.s] = "live" /\ server' = [server EXCEPT ![cmd.s] = "gone"]
    BY <1>1, <2>2, DeleteGrows
  <2> QED
    BY <2>1, <2>2 DEF DeleteSession
<1>3. PICK r \in {"success", "failure"} :
        KillReturns(r) /\ (r = "success" => server'[cmd.s] = "gone")
  <2>1. CASE KillReturns("failure")
    BY <2>1
  <2>2. CASE KillReturns("success") /\ server' = [server EXCEPT ![cmd.s] = "gone"]
    BY <1>1, <2>2 DEF ServerTypeOK
  <2> QED
    BY <2>1, <2>2 DEF DeleteSession
<1>4. CASE cmd.op = "restart"
  <2>1. /\ cmd' \in Commands /\ cmd'.op = "restart" /\ cmd'.s = cmd.s /\ cmd'.made = cmd.made
        /\ cmd'.pc = "new" /\ cmd'.kill = r
    BY <1>1, <1>3, <1>4 DEF KillReturns, Commands, Outcomes, Stages
  <2> QED
    BY <1>1, <1>2, <1>3, <2>1 DEF CommandInv, ServerGrows
<1>5. CASE cmd.op = "kill"
  <2>1. /\ cmd' \in Commands /\ cmd'.op = "kill" /\ cmd'.s = cmd.s /\ cmd'.made = cmd.made
        /\ cmd'.pc = "answer" /\ cmd'.res = r /\ cmd'.kill = cmd.kill
    BY <1>1, <1>3, <1>5 DEF KillReturns, Commands, Outcomes, Stages
  <2> QED
    BY <1>1, <1>2, <1>3, <2>1 DEF CommandInv, ServerGrows
<1> QED
  BY <1>1, <1>2, <1>4, <1>5

\* CreateSession: the id told is one the server has just given.
LEMMA NewStep ==
  ASSUME ServerTypeOK, IdsInOrder, CommandInv, NewSession
  PROVE  /\ ServerGrows /\ IdsInOrder' /\ cmd' \in Commands /\ CommandInv'
         /\ DOMAIN home' = Sessions /\ DOMAIN route' = Sessions
<1>1. /\ cmd \in Commands /\ cmd # Idle /\ cmd.pc = "new" /\ cmd.op \in {"create", "restart"}
      /\ {cmd.s, cmd.made} \subseteq Given \cup {NoSession}
  <2>1. At("new")
    BY DEF NewSession
  <2>2. cmd.pc = "new" /\ cmd # Idle
    BY <2>1 DEF At, Idle
  <2> QED
    BY <2>2 DEF ServerTypeOK, CommandInv
<1>2. DOMAIN home' = Sessions /\ DOMAIN route' = Sessions
  BY DEF ServerTypeOK, NewSession, Record
<1>3. ServerGrows /\ IdsInOrder'
  <2>1. CASE UNCHANGED server
    BY <2>1, SameGrows
  <2>2. CASE NextId \in Sessions /\ server' = [server EXCEPT ![NextId] = "live"]
    BY <2>2, CreateGrows
  <2> QED
    BY <2>1, <2>2 DEF NewSession
<1>4. CASE Result("failure")
  <2>1. /\ cmd' \in Commands /\ cmd'.op = cmd.op /\ cmd'.s = cmd.s /\ cmd'.made = cmd.made
        /\ cmd'.pc = "answer" /\ cmd'.res = "failure" /\ cmd'.kill = cmd.kill
    BY <1>1, <1>4 DEF Result, Commands, Outcomes, Stages
  <2>2. CommandInv'
    BY <1>1, <1>3, <2>1 DEF CommandInv, ServerGrows
  <2> QED
    BY <1>2, <1>3, <2>1, <2>2
<1>5. ASSUME NEW s \in Sessions \cap {NextId}, server' = [server EXCEPT ![s] = "live"],
             cmd' = [cmd EXCEPT !.made = s, !.pc = IF cmd.prompt THEN "first" ELSE "answer",
                                !.res = IF cmd.prompt THEN "none" ELSE "success"]
      PROVE  cmd' \in Commands /\ CommandInv'
  <2>1. s \in Sessions /\ s \in Given' /\ s \notin Given /\ s # NoSession
    BY <1>5, CreateGrows, SessionsAssumption
  <2>2. cmd' \in Commands
    BY <1>1, <1>5 DEF Commands, Outcomes, Stages, Known
  <2>3. /\ cmd'.op = cmd.op /\ cmd'.s = cmd.s /\ cmd'.made = s
        /\ cmd'.pc \in {"first", "answer"} /\ cmd'.kill = cmd.kill
    BY <1>1, <1>5 DEF Commands
  <2>4. cmd.s # s
    BY <1>1, <2>1
  <2> QED
    BY <1>1, <1>3, <2>1, <2>2, <2>3, <2>4 DEF CommandInv, ServerGrows
<1> QED
  BY <1>2, <1>3, <1>4, <1>5 DEF NewSession

LEMMA NextSessionsInv == SessionsInv /\ [SessionsNext]_sessionVars => SessionsInv'
<1> SUFFICES ASSUME SessionsInv, [SessionsNext]_sessionVars PROVE SessionsInv'
  OBVIOUS
<1>0. ServerTypeOK /\ IdsInOrder /\ CommandInv /\ \A a \in answers : TrueAnswer(a)
  BY DEF SessionsInv
<1>1. ASSUME ServerGrows, IdsInOrder', DOMAIN home' = Sessions, DOMAIN route' = Sessions,
             cmd' = Idle \/ cmd' \in Commands, CommandInv', UNCHANGED answers
      PROVE  SessionsInv'
  <2>1. ServerTypeOK'
    BY <1>1 DEF ServerTypeOK, ServerGrows
  <2>2. \A a \in answers' : TrueAnswer(a)'
    BY <1>0, <1>1, AnswersStayTrue
  <2> QED
    BY <1>1, <2>1, <2>2 DEF SessionsInv
<1>2. ASSUME NEW op \in Ops, NEW s \in Given \cup {NoSession}, NEW p \in Dirs, NEW prompt \in BOOLEAN,
             TakeCommand(op, s, p, prompt)
      PROVE  SessionsInv'
  <2>1. UNCHANGED <<server, home, route, answers>> /\ Given' = Given
    BY <1>2 DEF TakeCommand, Given
  <2>2. cmd' \in Commands
    <3>1. s \in Known /\ NoSession \in Known /\ (op = "restart" \/ prompt) \in BOOLEAN
      BY GivenFacts DEF Known
    <3> QED
      BY <1>2, <3>1 DEF TakeCommand, Commands, Outcomes, Stages
  <2>3. /\ cmd'.op = op /\ cmd'.s = s /\ cmd'.made = NoSession /\ cmd'.kill = "none"
        /\ cmd'.res \in {"none", "failure"}
        /\ cmd'.pc \in {"new", "route", "answer"}
        /\ cmd'.pc = "route" => op # "create" /\ s # NoSession
        /\ cmd'.pc = "new" => op \in {"create", "restart"}
    BY <1>2 DEF TakeCommand
  <2>4. CommandInv'
    BY <2>1, <2>3 DEF CommandInv
  <2> QED
    BY <1>0, <1>1, <2>1, <2>2, <2>4, SameGrows DEF ServerTypeOK
<1>3. CASE ClientForSession \/ AbortSession \/ PromptSession \/ GetStatus
  <2>1. /\ cmd' \in Commands /\ CommandInv' /\ DOMAIN route' = Sessions
        /\ UNCHANGED <<server, home, answers>>
    BY <1>0, <1>3, CallSteps
  <2> QED
    BY <1>0, <1>1, <2>1, SameGrows DEF ServerTypeOK
<1>4. CASE DeleteSession
  <2>1. UNCHANGED <<home, route, answers>>
    BY <1>4 DEF DeleteSession
  <2> QED
    BY <1>0, <1>1, <1>4, <2>1, DeleteStep DEF ServerTypeOK
<1>5. CASE NewSession
  <2>1. UNCHANGED answers
    BY <1>5 DEF NewSession
  <2> QED
    BY <1>0, <1>1, <1>5, <2>1, NewStep
<1>6. CASE SendResult
  <2> DEFINE a == [op |-> cmd.op, s |-> cmd.s, res |-> cmd.res, kill |-> cmd.kill,
                   output |-> IF cmd.res = "success" THEN cmd.made ELSE NoSession]
  <2>1. /\ cmd.pc = "answer" /\ cmd' = Idle /\ answers' \subseteq answers \cup {a}
        /\ UNCHANGED <<server, home, route>>
    BY <1>6 DEF SendResult, At
  <2>2. cmd \in Commands /\ cmd # Idle
    BY <1>0, <2>1 DEF ServerTypeOK, Idle
  <2>3. TrueAnswer(a)
    <3>1. /\ a.op = cmd.op /\ a.s = cmd.s /\ a.res = cmd.res /\ a.kill = cmd.kill
          /\ cmd.res = "success" => a.output = cmd.made
      OBVIOUS
    <3> HIDE DEF a
    <3> QED
      BY <1>0, <2>1, <2>2, <3>1, GivenFacts DEF CommandInv, TrueAnswer
  <2> HIDE DEF a
  <2>4. ServerGrows /\ IdsInOrder'
    BY <1>0, <2>1, SameGrows
  <2>5. \A x \in answers' : TrueAnswer(x)'
    BY <1>0, <2>1, <2>3, <2>4, AnswersStayTrue
  <2>6. CommandInv'
    BY <2>1 DEF CommandInv, Idle
  <2>7. ServerTypeOK'
    BY <1>0, <2>1 DEF ServerTypeOK, Idle
  <2> QED
    BY <2>4, <2>5, <2>6, <2>7 DEF SessionsInv
<1>7. CASE ListSessions \/ RestartAgent
  <2>1. /\ UNCHANGED <<server, home, answers>> /\ DOMAIN route' = Sessions
        /\ cmd' = Idle
    BY <1>7 DEF ListSessions, RestartAgent
  <2>2. CommandInv'
    BY <2>1 DEF CommandInv, Idle
  <2> QED
    BY <1>0, <1>1, <2>1, <2>2, SameGrows DEF ServerTypeOK
<1>8. ASSUME NEW s \in Sessions, OthersDelete(s)
      PROVE  SessionsInv'
  <2>1. ServerGrows /\ IdsInOrder' /\ UNCHANGED <<home, route, cmd, answers>>
    BY <1>0, <1>8, DeleteGrows DEF OthersDelete
  <2> QED
    BY <1>0, <1>1, <2>1, CommandStays DEF ServerTypeOK
<1>9. ASSUME NEW p \in Dirs, OthersCreate(p)
      PROVE  SessionsInv'
  <2>1. ServerGrows /\ IdsInOrder' /\ UNCHANGED <<route, cmd, answers>>
    BY <1>0, <1>9, CreateGrows DEF OthersCreate
  <2>2. DOMAIN home' = Sessions
    BY <1>0, <1>9 DEF OthersCreate, ServerTypeOK
  <2> QED
    BY <1>0, <1>1, <2>1, <2>2, CommandStays DEF ServerTypeOK
<1>10. CASE UNCHANGED sessionVars
  <2>1. ServerGrows /\ IdsInOrder' /\ UNCHANGED <<home, route, cmd, answers>>
    BY <1>0, <1>10, SameGrows DEF sessionVars
  <2> QED
    BY <1>0, <1>1, <2>1, CommandStays DEF ServerTypeOK
<1> QED
  BY <1>2, <1>3, <1>4, <1>5, <1>6, <1>7, <1>8, <1>9, <1>10 DEF SessionsNext

\* A command answered with success did what it says, for any number of
\* sessions, commands and failed calls, and whatever others do to the
\* server and however often the agent is restarted.
THEOREM SuccessIsTrue == SessionsSpec => []AnswersAreTrue
<1>1. SessionsInv => AnswersAreTrue
  <2> SUFFICES ASSUME SessionsInv, NEW a \in answers, a.res = "success"
               PROVE  CASE a.op = "kill" -> server[a.s] = "gone"
                        [] a.op = "create" -> a.output # NoSession /\ server[a.output] # "none"
                        [] a.op = "restart" ->
                             /\ a.output \notin {NoSession, a.s} /\ server[a.output] # "none"
                             /\ a.kill = "success" => server[a.s] = "gone"
                        [] OTHER -> server[a.s] # "none"
    BY DEF AnswersAreTrue
  <2>1. TrueAnswer(a)
    BY DEF SessionsInv
  <2> QED
    BY <2>1, GivenFacts DEF TrueAnswer
<1> QED
  BY <1>1, InitSessionsInv, NextSessionsInv, PTL DEF SessionsSpec
=============================================================================
