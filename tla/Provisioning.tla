---------------------------- MODULE Provisioning -----------------------------
(***************************************************************************)
(* The agent's Provisioner (provision.go), which repairs what a project's  *)
(* manifest asks for, and the EnvChecker (envcheck.go), which reports on   *)
(* it; env_provision and agentmd_sync run the first, one at a time (the    *)
(* client's read loop runs the handlers). People work in the same          *)
(* directory meanwhile.                                                    *)
(*                                                                         *)
(* An item's content is abstracted to who made it; the rc file to the      *)
(* number of markers of each variable in it.                               *)
(***************************************************************************)
EXTENDS Integers, Sequences, SequencesExt

CONSTANTS Manifest,   \* the items, in the order of detectDrift
          KindOf,     \* KindOf[i]: what the item is
          MaxEdits    \* bound on what people change

Items == Range(Manifest)
OfKind(K) == {i \in Items : KindOf[i] \in K}

AgentMD == "AGENT.md"
FileKinds == {"agentmd", "file", "dir", "doc", "hook"}   \* what a fix writes as a file
Paths == OfKind(FileKinds \cup {"slashdir", "recommended"})
Settings == OfKind({"env", "runtime", "gitconfig"})
IsSafeCategory(i) == KindOf[i] \in FileKinds \cup {"slashdir", "env"}

ASSUME ManifestAssumption ==
  /\ Manifest \in Seq(Items) /\ Items = Paths \cup Settings
  /\ AgentMD \in OfKind({"agentmd"})
  /\ MaxEdits \in Nat

VARIABLES
  disk,     \* disk[i]: "absent", "made" by a fix, "own" or "bare" (own and
            \* not executable), or "dir"
  present,  \* settings the agent's process finds
  marks,    \* marks[v]: markers of variable v in the rc file
  pc,       \* "idle", "run", or "write" (between os.Stat and the write)
  todo,     \* drift items not yet handled
  pending,  \* result.Pending
  status,   \* result.Status of the last run
  full,     \* the run is of the whole manifest (env_provision)
  edits,
  undone,   \* history: items people removed since the run started
  raced     \* history: items people made between os.Stat and the write

nodeVars == <<disk, present, marks, pc, todo, pending, status, full, edits, undone, raced>>

-----------------------------------------------------------------------------
(* EnvChecker.Check; it changes nothing. *)

\* Runtimes and tools, by their version.
CheckRuntime == OfKind({"runtime"}) \ present
CheckEnvVars == OfKind({"env"}) \ present
CheckAgentConfig == {i \in OfKind({"agentmd"}) : disk[i] = "absent"}
CheckContext ==
  {i \in OfKind({"file"}) : disk[i] = "absent"} \cup
  {i \in OfKind({"dir", "slashdir"}) : disk[i] # "dir"}
CheckGit ==
  {i \in OfKind({"hook"}) : disk[i] \in {"absent", "bare"}} \cup
  (OfKind({"gitconfig"}) \ present)
CheckDocs == {i \in OfKind({"doc"}) : disk[i] = "absent"}

Failing ==
  CheckRuntime \cup CheckEnvVars \cup CheckAgentConfig \cup CheckContext \cup
  CheckGit \cup CheckDocs
Warned == {i \in OfKind({"recommended"}) : disk[i] = "absent"}

DetermineStatus ==
  IF Failing # {} THEN "missing" ELSE IF Warned # {} THEN "degraded" ELSE "ready"

-----------------------------------------------------------------------------
(* Provisioner.Provision *)

\* Runtimes are never looked for: they always drift. Git settings and
\* recommended documents are not looked at.
Drifts(i) ==
  \/ KindOf[i] \in FileKinds \cup {"slashdir"} /\ disk[i] = "absent"
  \/ KindOf[i] = "env" /\ i \notin present
  \/ KindOf[i] = "runtime"

\* detectDrift goes through the manifest and appends what drifts.
DetectDrift(manifest) ==
  LET found[n \in 0..Len(manifest)] ==
        IF n = 0 THEN <<>>
        ELSE IF Drifts(manifest[n]) THEN Append(found[n - 1], manifest[n]) ELSE found[n - 1]
  IN found[Len(manifest)]

Provision(manifest) ==
  /\ pc = "idle"
  /\ pc' = "run" /\ todo' = DetectDrift(manifest)
  /\ pending' = {} /\ status' = "none" /\ undone' = {}
  /\ UNCHANGED <<disk, present, marks, raced, edits>>

EnvProvision == Provision(Manifest) /\ full' = TRUE

\* AGENT.md exists: nothing is done. Otherwise a manifest with it alone.
AgentMDSync ==
  /\ disk[AgentMD] = "absent"
  /\ Provision(<<AgentMD>>) /\ full' = FALSE

\* emitRiskyFix
EmitRiskyFix ==
  /\ pc = "run" /\ todo # <<>> /\ ~ IsSafeCategory(Head(todo))
  /\ pending' = pending \cup {Head(todo)}
  /\ todo' = Tail(todo)
  /\ UNCHANGED <<disk, present, marks, pc, status, full, undone, raced, edits>>

\* Mutant of Recheck: what detectDrift found is taken for granted.
RecheckNothing ==
  /\ pc = "run" /\ todo # <<>> /\ IsSafeCategory(Head(todo))
  /\ pc' = "write" /\ UNCHANGED todo
  /\ raced' = {}
  /\ UNCHANGED <<disk, present, marks, pending, status, full, undone, edits>>

\* Mutant of Recheck: the marker in the rc file is not looked for.
RecheckPaths ==
  /\ pc = "run" /\ todo # <<>> /\ IsSafeCategory(Head(todo))
  /\ IF Head(todo) \in Paths /\ disk[Head(todo)] # "absent"
       THEN todo' = Tail(todo) /\ UNCHANGED pc
       ELSE pc' = "write" /\ UNCHANGED todo
  /\ raced' = {}
  /\ UNCHANGED <<disk, present, marks, pending, status, full, undone, edits>>

\* Each fix looks again: os.Stat, or the marker in the rc file.
Recheck ==
  /\ pc = "run" /\ todo # <<>> /\ IsSafeCategory(Head(todo))
  /\ LET i == Head(todo)
     IN IF IF i \in Paths THEN disk[i] # "absent" ELSE marks[i] > 0
          THEN todo' = Tail(todo) /\ UNCHANGED pc
          ELSE pc' = "write" /\ UNCHANGED todo
  /\ raced' = {}
  /\ UNCHANGED <<disk, present, marks, pending, status, full, undone, edits>>

\* createAgentMD, createDoc, installGitHook, createContextItem: a file,
\* written over what is there now, or a directory for a name that ends in a
\* slash. It fails on something of the other kind.
WritePath(i) ==
  \/ /\ KindOf[i] = "slashdir" /\ disk[i] \in {"absent", "dir"}
     /\ disk' = [disk EXCEPT ![i] = "dir"]
     /\ UNCHANGED marks
  \/ /\ KindOf[i] \in FileKinds /\ disk[i] # "dir"
     /\ disk' = [disk EXCEPT ![i] = "made"]
     /\ UNCHANGED marks

InjectEnvVar(i) ==
  /\ KindOf[i] = "env"
  /\ marks' = [marks EXCEPT ![i] = @ + 1]
  /\ UNCHANGED disk

ApplySafeFix ==
  /\ pc = "write"
  /\ WritePath(Head(todo)) \/ InjectEnvVar(Head(todo))
  /\ pc' = "run" /\ todo' = Tail(todo)
  /\ UNCHANGED <<present, pending, status, full, undone, raced, edits>>

\* A write that is cut short has happened, for the next stat, or not.
Torn == UNCHANGED <<disk, marks>> \/ WritePath(Head(todo)) \/ InjectEnvVar(Head(todo))

\* Mutant of FixFails: the run goes on with the next item.
SkipFailedFix ==
  /\ pc = "write" /\ Torn
  /\ pc' = "run" /\ todo' = Tail(todo)
  /\ UNCHANGED <<present, pending, status, full, undone, raced, edits>>

\* A fix that fails ends the run.
FixFails ==
  /\ pc = "write" /\ Torn
  /\ pc' = "idle" /\ todo' = <<>> /\ status' = "failed"
  /\ UNCHANGED <<present, pending, full, undone, raced, edits>>

ProvisionReturns ==
  /\ pc = "run" /\ todo = <<>>
  /\ pc' = "idle"
  /\ status' = IF pending # {} THEN "partial" ELSE "completed"
  /\ UNCHANGED <<disk, present, marks, todo, pending, full, undone, raced, edits>>

\* The agent dies in the middle of a run.
ProvisionDies ==
  /\ pc # "idle"
  /\ IF pc = "write" THEN Torn ELSE UNCHANGED <<disk, marks>>
  /\ pc' = "idle" /\ todo' = <<>> /\ status' = "none" /\ pending' = {}
  /\ UNCHANGED <<present, full, undone, raced, edits>>

-----------------------------------------------------------------------------
\* People write, replace and remove files, install and configure.
EditPath(i) ==
  /\ edits < MaxEdits /\ edits' = edits + 1
  /\ disk' \in {[disk EXCEPT ![i] = c] : c \in {"absent", "own"} \cup
                  (IF KindOf[i] = "hook" THEN {"bare"} ELSE {}) \cup
                  (IF KindOf[i] \in {"dir", "slashdir"} THEN {"dir"} ELSE {})}
  /\ undone' = IF disk'[i] = "absent" THEN undone \cup {i} ELSE undone
  /\ raced' = IF pc = "write" /\ i = Head(todo) THEN {i} ELSE raced
  /\ UNCHANGED <<present, marks, pc, todo, pending, status, full>>

ChangeSetting(i) ==
  /\ edits < MaxEdits /\ edits' = edits + 1
  /\ present' = IF i \in present THEN present \ {i} ELSE present \cup {i}
  /\ undone' = undone \cup (present \cap {i})
  /\ UNCHANGED <<disk, marks, pc, todo, pending, status, full, raced>>

ProvisionInit ==
  /\ disk = [i \in Paths |-> "absent"]
  /\ present = {} /\ marks = [i \in OfKind({"env"}) |-> 0]
  /\ pc = "idle" /\ todo = <<>> /\ pending = {} /\ status = "none" /\ full = FALSE
  /\ edits = 0 /\ undone = {} /\ raced = {}

ProvisionNext ==
  \/ EnvProvision \/ AgentMDSync \/ EmitRiskyFix \/ Recheck \/ ApplySafeFix
  \/ FixFails \/ ProvisionReturns \/ ProvisionDies
  \/ \E i \in Paths : EditPath(i)
  \/ \E i \in Settings : ChangeSetting(i)

ProvisionSpec == ProvisionInit /\ [][ProvisionNext]_nodeVars

-----------------------------------------------------------------------------
\* After an env_provision that did not fail, what the checker still reports
\* as failing is what people removed or put there since, what needs a
\* person's approval, a variable whose marker is in the rc file, or a
\* directory that was made as a file because its name has no slash
\* (applySafeFix and checkContext disagree there).
ProvisionedPassesCheck ==
  (pc = "idle" /\ full /\ status \in {"completed", "partial"}) =>
    \A i \in Failing \ undone :
      \/ ~ IsSafeCategory(i)
      \/ KindOf[i] = "env" /\ marks[i] > 0
      \/ KindOf[i] = "dir" /\ disk[i] = "made"
      \/ i \in Paths /\ disk[i] \in {"own", "bare"}

\* A variable is put into the rc file once, through runs that fail, are cut
\* short and are repeated while the process still lacks the variable
\* (injectEnvVar).
MarkerOnce == \A v \in DOMAIN marks : marks[v] <= 1

\* What people put into the directory is not overwritten, also when they do
\* so after the drift was detected; only what they make between a fix's own
\* os.Stat and its write is (createAgentMD, createDoc, installGitHook).
OwnContentKept ==
  [][\A i \in Paths : disk[i] \in {"own", "bare"} /\ disk'[i] = "made" => i \in raced]_nodeVars
=============================================================================
