---------------------------- MODULE PolicyEngine -----------------------------
(***************************************************************************)
(* The policy engine (policy_engine.go): on every tick one goroutine asks  *)
(* the tracker for all sessions and applies three policies to each; an     *)
(* intervention is a command to the dispatcher, limited by a retry count   *)
(* with a reset window. Stop cancels the context and waits 250 ms.         *)
(*                                                                         *)
(* Whether a policy is enabled and its threshold reached is a choice of    *)
(* the model, and so is the outcome of the command.                        *)
(***************************************************************************)
EXTENDS Integers, Sequences

CONSTANTS Watched,      \* sessions the tracker may list
          Policies,     \* the policies, in the order they are applied
          MaxRetries,   \* MaxRetries[p]: failures allowed in a row
          ResetWindow,  \* ResetWindow[p]: time after which they are forgotten
          MaxTime,      \* bound on the clock
          MaxAttempts   \* bound on interventions

PolicyNames == {Policies[i] : i \in DOMAIN Policies}
Keys == Watched \X PolicyNames

ASSUME PolicyAssumption ==
  /\ Policies \in Seq(PolicyNames) /\ Policies # <<>>
  /\ MaxRetries \in [PolicyNames -> Nat \ {0}]
  /\ ResetWindow \in [PolicyNames -> Nat \ {0}]
  /\ {MaxTime, MaxAttempts} \subseteq Nat

VARIABLES
  clock,
  engine,     \* the goroutine: "off", "select", "pass", "check", "dispatch", "ended"
  left,       \* sessions of this pass still to be evaluated
  session,    \* the session under evaluation
  at,         \* index of the policy being applied to it
  since,      \* "now" as tryIntervention took it
  retries,    \* retries[<<s, p>>]: [count, lastAttempt]
  cancelled,  \* p.ctx is done
  stop,       \* Stop: "idle", "waiting", "returned"
  eventSeq,   \* number of the last policy event
  attempts,   \* commands dispatched
  failed,     \* history: times of the failures of a key since its last success
  afterStop   \* history: commands dispatched after the cancellation

stopVars == <<cancelled, stop>>
ledger == <<retries, eventSeq, attempts, failed, afterStop>>
policyVars == <<clock, engine, left, session, at, since, stopVars, ledger>>

Key == <<session, Policies[at]>>
Cap == MaxRetries[Policies[at]]

\* On to the session's next policy, or to the next session.
Advance ==
  /\ engine' = IF at < Len(Policies) THEN "check" ELSE "pass"
  /\ at' = IF at < Len(Policies) THEN at + 1 ELSE 1

\* emitPolicyEvent, n times.
Emit(n) == eventSeq' = eventSeq + n

-----------------------------------------------------------------------------
PolicyStart ==
  /\ engine = "off"
  /\ engine' = "select"
  /\ UNCHANGED <<clock, left, session, at, since, stopVars, ledger>>

\* A tick: runChecks copies the tracker's sessions.
PolicyTick ==
  /\ engine = "select" /\ ~ cancelled
  /\ engine' = "pass"
  /\ left' \in SUBSET Watched
  /\ UNCHANGED <<clock, session, at, since, stopVars, ledger>>

\* Mutant of EvaluateSession: the loop does not look at the context.
EvaluateRegardless(s) ==
  /\ engine = "pass"
  /\ s \in left
  /\ left' = left \ {s}
  /\ session' = s
  /\ engine' = "check"
  /\ UNCHANGED <<clock, at, since, stopVars, ledger>>

\* runChecks: the next session, unless the context is done.
EvaluateSession(s) ==
  /\ engine = "pass" /\ ~ cancelled
  /\ s \in left
  /\ left' = left \ {s}
  /\ session' = s
  /\ engine' = "check"
  /\ UNCHANGED <<clock, at, since, stopVars, ledger>>

\* The pass is over; the select sees the context.
PassEnds ==
  /\ \/ engine = "pass" /\ (left = {} \/ cancelled)
     \/ engine = "select" /\ cancelled
  /\ engine' = IF cancelled THEN "ended" ELSE "select"
  /\ left' = {}
  /\ UNCHANGED <<clock, session, at, since, stopVars, ledger>>

\* evaluateResumeOnIdle, evaluateRestartOnCompaction, evaluateKillOnCost:
\* the policy is off or its threshold is not reached.
NotDue ==
  /\ engine = "check"
  /\ Advance
  /\ UNCHANGED <<clock, left, session, since, stopVars, ledger>>

Exhausted == retries[Key].count >= Cap
WindowOver == clock - retries[Key].lastAttempt >= ResetWindow[Policies[at]]

\* Mutant of CanAttempt: any later time counts as the end of the window.
CanAttemptEarly ==
  /\ engine = "check" /\ attempts < MaxAttempts
  /\ ~ Exhausted \/ clock > retries[Key].lastAttempt
  /\ retries' = IF Exhausted THEN [retries EXCEPT ![Key].count = 0] ELSE retries
  /\ since' = clock
  /\ engine' = "dispatch"
  /\ attempts' = attempts + 1
  /\ afterStop' = afterStop + (IF cancelled THEN 1 ELSE 0)
  /\ UNCHANGED <<clock, left, session, at, stopVars, eventSeq, failed>>

\* canAttempt: below the cap, or the reset window has passed since the
\* last attempt and the count starts again; then the command is dispatched.
CanAttempt ==
  /\ engine = "check" /\ attempts < MaxAttempts
  /\ ~ Exhausted \/ WindowOver
  /\ retries' = IF Exhausted THEN [retries EXCEPT ![Key].count = 0] ELSE retries
  /\ since' = clock
  /\ engine' = "dispatch"
  /\ attempts' = attempts + 1
  /\ afterStop' = afterStop + (IF cancelled THEN 1 ELSE 0)
  /\ UNCHANGED <<clock, left, session, at, stopVars, eventSeq, failed>>

Refuse ==
  /\ engine = "check"
  /\ Exhausted /\ ~ WindowOver
  /\ Advance
  /\ UNCHANGED <<clock, left, session, since, stopVars, ledger>>

\* The command failed or could not be dispatched: markFailure, a
\* policy.action event, and at the cap policy.alert and policy.retry_cap.
InterventionFails ==
  /\ engine = "dispatch"
  /\ LET count == retries[Key].count + 1
     IN /\ retries' = [retries EXCEPT ![Key] = [count |-> count, lastAttempt |-> since]]
        /\ Emit(IF count >= Cap THEN 3 ELSE 1)
  /\ failed' = [failed EXCEPT ![Key] = Append(@, since)]
  /\ Advance
  /\ UNCHANGED <<clock, left, session, since, stopVars, attempts, afterStop>>

\* markSuccess and a policy.action event.
InterventionSucceeds ==
  /\ engine = "dispatch"
  /\ retries' = [retries EXCEPT ![Key].count = 0]
  /\ Emit(1)
  /\ failed' = [failed EXCEPT ![Key] = <<>>]
  /\ Advance
  /\ UNCHANGED <<clock, left, session, since, stopVars, attempts, afterStop>>

PolicyStop ==
  /\ stop = "idle"
  /\ stop' = "waiting"
  /\ cancelled' = TRUE
  /\ UNCHANGED <<clock, engine, left, session, at, since, ledger>>

\* The goroutine has ended, or 250 ms are over.
PolicyStopReturns ==
  /\ stop = "waiting"
  /\ stop' = "returned"
  /\ UNCHANGED <<clock, engine, left, session, at, since, cancelled, ledger>>

PolicyTime ==
  /\ clock < MaxTime
  /\ clock' = clock + 1
  /\ UNCHANGED <<engine, left, session, at, since, stopVars, ledger>>

PolicyInit ==
  /\ clock = 0 /\ engine = "off" /\ left = {} /\ at = 1 /\ since = 0
  /\ session = (CHOOSE s \in Watched : TRUE)
  /\ retries = [k \in Keys |-> [count |-> 0, lastAttempt |-> 0]]
  /\ cancelled = FALSE /\ stop = "idle"
  /\ eventSeq = 0 /\ attempts = 0
  /\ failed = [k \in Keys |-> <<>>] /\ afterStop = 0

PolicyNext ==
  \/ PolicyStart \/ PolicyTick \/ PassEnds
  \/ \E s \in Watched : EvaluateSession(s)
  \/ NotDue \/ CanAttempt \/ Refuse \/ InterventionFails \/ InterventionSucceeds
  \/ PolicyStop \/ PolicyStopReturns \/ PolicyTime

PolicySpec == PolicyInit /\ [][PolicyNext]_policyVars

-----------------------------------------------------------------------------
\* Of one policy on one session, more failures in a row than its retry cap
\* always span at least its reset window, over any passes, clock readings
\* and resets (canAttempt measures from the attempt markFailure recorded).
RetryBudget ==
  \A k \in Keys : \A i \in DOMAIN failed[k] :
    i > MaxRetries[k[2]] =>
      failed[k][i] - failed[k][i - MaxRetries[k[2]]] >= ResetWindow[k[2]]

\* After Stop has cancelled the context, at most the policies of the
\* session under evaluation are still dispatched, however many sessions the
\* pass has left (the context is looked at once per session).
FewAfterStop == afterStop <= Len(Policies)
=============================================================================
