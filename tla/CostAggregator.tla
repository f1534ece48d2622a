--------------------------- MODULE CostAggregator ----------------------------
(***************************************************************************)
(* The cost aggregator (cost.go): polls of the providers, one goroutine    *)
(* per provider, with retries; a successful poll replaces the provider's   *)
(* daily buckets in one transaction, a failed one marks it degraded and    *)
(* estimates the cost of its sessions. Polls run in the loop Start begins, *)
(* in PollOnce, and in a second loop when Start follows a Stop that gave   *)
(* up waiting; reports read the table meanwhile.                           *)
(*                                                                         *)
(* One model and one day stand for every bucket of a provider. The         *)
(* amounts of a response are given per project.                            *)
(***************************************************************************)
EXTENDS Integers, FiniteSets, FiniteSetsExt

CONSTANTS Providers,    \* the enabled providers
          Accounts,     \* projects a provider bills for
          Pollers,      \* callers of pollCycle: loops of Start, calls of PollOnce
          MaxRetry,     \* cfg.MaxRetries
          MaxUsage      \* bound on what a project uses

ASSUME CostAssumption == /\ MaxRetry \in Nat /\ MaxUsage \in Nat
                         /\ IsFiniteSet(Accounts)

VARIABLES
  usage,      \* usage[p][a]: what provider p has billed account a today
  costs,      \* costs[p]: the bucket in the costs table
  degraded,   \* providers marked degraded
  estimated,  \* providers whose sessions carry an estimate
  poller,     \* poller[w]: "off", "cycle", "wait" (for the ticker)
  loop,       \* the poller Start began and Stop would cancel, or NoLoop
  alive,      \* alive[w]: the context of w is not cancelled
  fetch,      \* fetch[w][p]: pollProvider: "off", "fetch", "retry", "fail",
              \* "estimate", "clear", "persist"
  attempt,    \* attempt[w][p]: index of the present request
  rows,       \* rows[w][p]: the amounts of the response
  report      \* provider totals of a report under way

loopVars == <<poller, loop, alive>>
pollVars == <<fetch, attempt, rows>>
costVars == <<usage, costs, degraded, estimated, loopVars, pollVars, report>>

NoLoop == "none"
NoReport == <<>>
Total(amounts) == MapThenSumSet(LAMBDA a : amounts[a], Accounts)
Step(w, p, pc) == fetch' = [fetch EXCEPT ![w][p] = pc]

-----------------------------------------------------------------------------
\* pollCycle: a goroutine per provider.
BeginCycle(w) ==
  /\ poller' = [poller EXCEPT ![w] = "cycle"]
  /\ fetch' = [fetch EXCEPT ![w] = [p \in Providers |-> "fetch"]]
  /\ attempt' = [attempt EXCEPT ![w] = [p \in Providers |-> 0]]

\* Start, unless it is running: the loop polls at once.
CostStart(w) ==
  /\ loop = NoLoop /\ poller[w] = "off"
  /\ loop' = w
  /\ alive' = [alive EXCEPT ![w] = TRUE]
  /\ BeginCycle(w)
  /\ UNCHANGED <<usage, costs, degraded, estimated, rows, report>>

\* Stop: the context is cancelled; Stop waits two seconds at most, so that
\* the loop may still be at work when it has returned.
CostStop ==
  /\ loop # NoLoop
  /\ alive' = [alive EXCEPT ![loop] = FALSE]
  /\ loop' = NoLoop
  /\ UNCHANGED <<usage, costs, degraded, estimated, poller, pollVars, report>>

PollOnce(w) ==
  /\ poller[w] = "off" /\ w # loop
  /\ alive' = [alive EXCEPT ![w] = TRUE]
  /\ BeginCycle(w)
  /\ UNCHANGED <<usage, costs, degraded, estimated, loop, rows, report>>

\* wg.Wait: all providers are done.
EndCycle(w) ==
  /\ poller[w] = "cycle"
  /\ \A p \in Providers : fetch[w][p] = "off"
  /\ poller' = [poller EXCEPT ![w] = IF w = loop \/ ~ alive[w] THEN "wait" ELSE "off"]
  /\ UNCHANGED <<usage, costs, degraded, estimated, loop, alive, pollVars, report>>

\* run: the ticker, or the end of the context (either when both are ready).
CostTick(w) ==
  /\ poller[w] = "wait"
  /\ \/ BeginCycle(w)
     \/ ~ alive[w] /\ poller' = [poller EXCEPT ![w] = "off"] /\ UNCHANGED <<fetch, attempt>>
  /\ UNCHANGED <<usage, costs, degraded, estimated, loop, alive, rows, report>>

\* A response: the provider's amounts as they are now.
FetchSucceeds(w, p) ==
  /\ fetch[w][p] = "fetch" /\ alive[w]
  /\ rows' = [rows EXCEPT ![w][p] = usage[p]]
  /\ Step(w, p, "clear")
  /\ UNCHANGED <<usage, costs, degraded, estimated, loopVars, attempt, report>>

\* An error: final (a client error, a malformed body) or the last attempt,
\* or one to be retried.
FetchFails(w, p) ==
  /\ fetch[w][p] = "fetch"
  /\ \E retryable \in BOOLEAN :
       Step(w, p, IF ~ retryable \/ attempt[w][p] = MaxRetry THEN "fail" ELSE "retry")
  /\ UNCHANGED <<usage, costs, degraded, estimated, loopVars, attempt, rows, report>>

\* The context is looked at before the pause, not during it.
Retry(w, p) ==
  /\ fetch[w][p] = "retry"
  /\ IF alive[w]
       THEN Step(w, p, "fetch") /\ attempt' = [attempt EXCEPT ![w][p] = @ + 1]
       ELSE Step(w, p, "fail") /\ UNCHANGED attempt
  /\ UNCHANGED <<usage, costs, degraded, estimated, loopVars, rows, report>>

SetDegraded(w, p) ==
  /\ fetch[w][p] = "fail"
  /\ degraded' = degraded \cup {p}
  /\ Step(w, p, "estimate")
  /\ UNCHANGED <<usage, costs, estimated, loopVars, attempt, rows, report>>

\* applySessionEstimateFallback: the sessions of the provider's models get
\* tokens times rate as their cost; nothing is written to the table.
ApplySessionEstimateFallback(w, p) ==
  /\ fetch[w][p] = "estimate"
  /\ estimated' = estimated \cup {p}
  /\ Step(w, p, "off")
  /\ UNCHANGED <<usage, costs, degraded, loopVars, attempt, rows, report>>

ClearDegraded(w, p) ==
  /\ fetch[w][p] = "clear"
  /\ degraded' = degraded \ {p}
  /\ Step(w, p, "persist")
  /\ UNCHANGED <<usage, costs, estimated, loopVars, attempt, rows, report>>

\* Mutant of PersistDailyBuckets: the amounts are added to the bucket.
PersistAdding(w, p) ==
  /\ fetch[w][p] = "persist"
  /\ costs' = [costs EXCEPT ![p] = @ + Total(rows[w][p])]
  /\ Step(w, p, "off")
  /\ UNCHANGED <<usage, degraded, estimated, loopVars, attempt, rows, report>>

\* persistDailyBuckets: the rows of a bucket are summed, and replace it in
\* a transaction.
PersistDailyBuckets(w, p) ==
  /\ fetch[w][p] = "persist"
  /\ costs' = [costs EXCEPT ![p] = Total(rows[w][p])]
  /\ Step(w, p, "off")
  /\ UNCHANGED <<usage, degraded, estimated, loopVars, attempt, rows, report>>

\* The transaction fails and is rolled back, or the response has no row and
\* there is none; the provider stays cleared.
PersistFails(w, p) ==
  /\ fetch[w][p] = "persist"
  /\ Step(w, p, "off")
  /\ UNCHANGED <<usage, costs, degraded, estimated, loopVars, attempt, rows, report>>

\* Report: the totals by provider, ...
ReportProviders ==
  /\ report = NoReport
  /\ report' = costs
  /\ UNCHANGED <<usage, costs, degraded, estimated, loopVars, pollVars>>

\* ... then, from another query, those by model and the grand total.
ReportModels ==
  /\ report # NoReport
  /\ report' = NoReport
  /\ UNCHANGED <<usage, costs, degraded, estimated, loopVars, pollVars>>

\* Sessions go on using the provider.
Spend(p, a) ==
  /\ usage[p][a] < MaxUsage
  /\ usage' = [usage EXCEPT ![p][a] = @ + 1]
  /\ UNCHANGED <<costs, degraded, estimated, loopVars, pollVars, report>>

CostInit ==
  /\ usage = [p \in Providers |-> [a \in Accounts |-> 0]]
  /\ costs = [p \in Providers |-> 0]
  /\ degraded = {} /\ estimated = {}
  /\ poller = [w \in Pollers |-> "off"] /\ loop = NoLoop
  /\ alive = [w \in Pollers |-> TRUE]
  /\ fetch = [w \in Pollers |-> [p \in Providers |-> "off"]]
  /\ attempt = [w \in Pollers |-> [p \in Providers |-> 0]]
  /\ rows = [w \in Pollers |-> usage]
  /\ report = NoReport

PollProvider(w, p) ==
  \/ FetchSucceeds(w, p) \/ FetchFails(w, p) \/ Retry(w, p)
  \/ SetDegraded(w, p) \/ ApplySessionEstimateFallback(w, p)
  \/ ClearDegraded(w, p) \/ PersistDailyBuckets(w, p) \/ PersistFails(w, p)

CostNext ==
  \/ \E w \in Pollers :
       \/ CostStart(w) \/ PollOnce(w) \/ EndCycle(w) \/ CostTick(w)
       \/ \E p \in Providers : PollProvider(w, p)
  \/ CostStop \/ ReportProviders \/ ReportModels
  \/ \E p \in Providers, a \in Accounts : Spend(p, a)

CostSpec == CostInit /\ [][CostNext]_costVars

-----------------------------------------------------------------------------
\* The table, and a report taken from it, never claim more than a provider
\* has billed, whatever is polled again, retried, interrupted by Stop or
\* polled by two loops at a time (buckets are replaced as a whole, and rows
\* of one bucket are summed once).
CostsNeverAhead ==
  \A p \in Providers : /\ costs[p] <= Total(usage[p])
                       /\ report # NoReport => report[p] <= Total(usage[p])
=============================================================================
