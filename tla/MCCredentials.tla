---------------------------- MODULE MCCredentials ----------------------------
(* The way of credentials to an agent and the way of its reports back, each *)
(* on its own: a behaviour runs one of them, and the other stays as it is.  *)
EXTENDS CredentialPush, CredentialReports

CONSTANTS k1, k2

\* Two requests with one key and one with another.
RequestKeys == (1 :> k1) @@ (2 :> k1) @@ (3 :> k2)

VARIABLE path

MCInit ==
  /\ PushInit /\ ReportsInit
  /\ path \in {"push", "reports"}
  /\ path = "push" => adapter = "claude" /\ host = "in"

MCNext ==
  /\ UNCHANGED path
  /\ \/ path = "push" /\ PushNext /\ UNCHANGED reportVars
     \/ path = "reports" /\ ReportsNext /\ UNCHANGED pushVars

MCSpec == MCInit /\ [][MCNext]_<<path, pushVars, reportVars>> /\ (path = "reports" => ReportsFairness)
=============================================================================
