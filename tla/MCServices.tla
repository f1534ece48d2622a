----------------------------- MODULE MCServices ------------------------------
(* The services of supervisor and agent that share no state with each       *)
(* other: a behaviour runs one of them, and the others stay as they are.    *)
EXTENDS PolicyEngine, DependencyGraph, CostAggregator, Provisioning, AgentSessions, Migrations

CONSTANTS w1, w2, p1, p2, p3

ThreePolicies == <<"resume_on_idle", "restart_on_compaction", "kill_on_cost">>
SmallCaps == [p \in PolicyNames |-> IF p = "resume_on_idle" THEN 2 ELSE 1]
SmallWindows == [p \in PolicyNames |-> 2]

\* One item of every kind, in the order of detectDrift.
NodeManifest ==
  <<"AGENT.md", "src", "docs/", "SPEC.md", "pre-commit", "TOKEN", "node", "user.name">>
NodeKinds ==
  ("AGENT.md" :> "agentmd") @@ ("src" :> "dir") @@ ("docs/" :> "slashdir") @@
  ("SPEC.md" :> "doc") @@ ("pre-commit" :> "hook") @@ ("TOKEN" :> "env") @@
  ("node" :> "runtime") @@ ("user.name" :> "gitconfig")

VARIABLE service

services == <<policyVars, graphVars, costVars, nodeVars, sessionVars, schemaVars>>

MCInit ==
  /\ PolicyInit /\ CostInit /\ ProvisionInit /\ SessionsInit /\ MigrationsInit
  /\ service \in {"policy", "graph", "cost", "provision", "sessions", "migrations"}
  /\ GraphInit
  /\ service # "graph" => graph = [p \in Projects |-> {}]

MCNext ==
  /\ UNCHANGED service
  /\ \/ /\ service = "policy" /\ PolicyNext
        /\ UNCHANGED <<graphVars, costVars, nodeVars, sessionVars, schemaVars>>
     \/ /\ service = "graph" /\ GraphNext
        /\ UNCHANGED <<policyVars, costVars, nodeVars, sessionVars, schemaVars>>
     \/ /\ service = "cost" /\ CostNext
        /\ UNCHANGED <<policyVars, graphVars, nodeVars, sessionVars, schemaVars>>
     \/ /\ service = "provision" /\ ProvisionNext
        /\ UNCHANGED <<policyVars, graphVars, costVars, sessionVars, schemaVars>>
     \/ /\ service = "sessions" /\ SessionsNext
        /\ UNCHANGED <<policyVars, graphVars, costVars, nodeVars, schemaVars>>
     \/ /\ service = "migrations" /\ MigrationsNext
        /\ UNCHANGED <<policyVars, graphVars, costVars, nodeVars, sessionVars>>

MCSpec == MCInit /\ [][MCNext]_<<service, services>>
=============================================================================
