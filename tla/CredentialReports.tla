-------------------------- MODULE CredentialReports --------------------------
(***************************************************************************)
(* What the supervisor knows of an agent's credentials: the credential     *)
(* version, which the agent reports once on every connection               *)
(* (RegisterCredentialSyncOnReconnect), and the state of its tools, which  *)
(* AuthReporter sends on every tick. Both reach the registry through the   *)
(* connection's read pump, as a read and a later write of the node's       *)
(* entry, while Hub.Run's Register replaces the entry; the pump of an      *)
(* older connection may still be at work.                                  *)
(*                                                                         *)
(* Connections are numbered. One tool stands for all. AuthStates is a Go   *)
(* map, shared by every copy of the entry: the entry holds a reference.    *)
(* The database does not fail here.                                        *)
(***************************************************************************)
EXTENDS Integers, Sequences

CONSTANTS MaxConns,     \* bound on connections
          Expected,     \* cfg.Credentials.Version
          Hosts,        \* what may be found on the host, see below
          NoState,      \* no report yet
          MaxChanges    \* bound on pushes, tool changes and agent restarts

Epochs == 1..MaxConns
Refs == 0..(MaxConns + 1)   \* 0 is the nil map

ASSUME ReportsAssumption ==
  /\ MaxConns \in Nat \ {0} /\ MaxChanges \in Nat
  /\ Expected \in Nat \ {0}
  /\ Hosts \subseteq {"absent", "in", "out", "broken", "hangs"}

VARIABLES
  link,       \* the agent's connection, or 0
  greeted,    \* its on-connect hook has run
  last,       \* the last connection made
  hub,        \* hub[e]: "none", "registering" (taken by Run), "done"
  up,         \* up[e]: messages on their way to the supervisor
  pump,       \* pump[e]: <<>>, or the message and the entry read for it
  entry,      \* the registry's entry: [sync, version, auth], auth a reference
  maps,       \* maps[i]: the tool's state in the AuthStates map i
  known,      \* the node has a row
  version,    \* the applier's version
  adapter,    \* the adapter that checks the tool
  host,       \* the tool: "absent", logged "in" or "out", "broken" (its auth
              \* file malformed, its status command failing), "hangs" (the
              \* file unreadable, the command hanging)
  lastState,  \* the reporter's lastState
  changes,
  reported,   \* history: reported[e]: the version reported on e
  handled,    \* history: the connection whose version was written last
  stale       \* history: a pump older than the last connection wrote after it

agentVars == <<link, greeted, last, version, adapter, host, lastState, changes, reported>>
reportVars == <<agentVars, hub, up, pump, entry, maps, known, handled, stale>>

Fresh == [sync |-> "unknown", version |-> 0, auth |-> 0]

-----------------------------------------------------------------------------
(* The agent. *)

AgentConnects ==
  /\ link = 0 /\ last < MaxConns
  /\ last' = last + 1 /\ link' = last + 1 /\ greeted' = FALSE
  /\ UNCHANGED <<version, adapter, host, lastState, changes, reported, hub, up, pump, entry, maps, known,
                 handled, stale>>

VersionReport == [type |-> "sync", value |-> version]

\* The on-connect hook of RegisterCredentialSyncOnReconnect.
ReportVersion ==
  /\ link # 0 /\ ~ greeted
  /\ greeted' = TRUE
  /\ up' = [up EXCEPT ![link] = Append(@, VersionReport)]
  /\ reported' = [reported EXCEPT ![link] = version]
  /\ UNCHANGED <<link, last, version, adapter, host, lastState, changes, hub, pump, entry, maps, known,
                 handled, stale>>

\* The adapter of opencode looks for the command and reads the auth file.
CheckOpencode == CASE host = "absent" -> "not_installed"
                   [] host = "in" -> "authenticated"
                   [] host = "out" -> "unauthenticated"
                   [] host \in {"broken", "hangs"} -> "error"

\* RunAuthCheck: the status command with a timeout of ten seconds.
RunAuthCheck == CASE host = "hangs" -> "timedOut"
                  [] host = "absent" -> "notFound"
                  [] host = "in" -> "exit0"
                  [] host \in {"out", "broken"} -> "exit1"

\* Those of claude and codex go by its exit code: any but 0 is taken for a
\* tool that is logged out.
CheckCommand == CASE RunAuthCheck = "timedOut" -> "error"
                  [] RunAuthCheck = "notFound" -> "not_installed"
                  [] RunAuthCheck = "exit0" -> "authenticated"
                  [] OTHER -> "unauthenticated"

CheckAuth == IF adapter = "opencode" THEN CheckOpencode ELSE CheckCommand

\* Mutant of ReportTools: a report is sent when the state has changed.
ReportToolsChanged ==
  /\ link # 0 /\ lastState # CheckAuth
  /\ up' = [up EXCEPT ![link] = Append(@, [type |-> "auth", value |-> CheckAuth])]
  /\ lastState' = CheckAuth
  /\ UNCHANGED <<link, greeted, last, version, adapter, host, changes, reported, hub, pump, entry,
                 maps, known, handled, stale>>

\* A tick of AuthReporter: runCheck, updateLastState and sendReports; the
\* reports are sent whether or not they changed, and a failing send is
\* logged. At most one report is in transit (the bound on "up").
ReportTools ==
  /\ link # 0
  /\ \A i \in DOMAIN up[link] : up[link][i].type # "auth"
  /\ up' = [up EXCEPT ![link] = Append(@, [type |-> "auth", value |-> CheckAuth])]
  /\ lastState' = CheckAuth
  /\ UNCHANGED <<link, greeted, last, version, adapter, host, changes, reported, hub, pump, entry,
                 maps, known, handled, stale>>

\* A push is applied (read after the hook has run), somebody logs in or out
\* with the tool, or the agent is restarted.
AgentChanges ==
  /\ changes < MaxChanges
  /\ changes' = changes + 1
  /\ \/ /\ link # 0 /\ greeted
        /\ version' = Expected
        /\ UNCHANGED <<host, lastState, link, up>>
     \/ /\ host' \in Hosts \ {host}
        /\ UNCHANGED <<version, lastState, link, up>>
     \/ /\ version' = 0 /\ lastState' = NoState /\ link' = 0
        /\ up' = [e \in Epochs |-> IF e = link THEN <<>> ELSE up[e]]
        /\ UNCHANGED host
  /\ UNCHANGED <<greeted, last, adapter, reported, hub, pump, entry, maps, known, handled, stale>>

\* The connection is lost with what is on it.
Disconnect ==
  /\ link # 0
  /\ link' = 0
  /\ up' = [up EXCEPT ![link] = <<>>]
  /\ UNCHANGED <<greeted, last, version, adapter, host, lastState, changes, reported, hub, pump, entry,
                 maps, known, handled, stale>>

-----------------------------------------------------------------------------
(* The supervisor. *)

\* Run takes a connection from h.register, and ServeWS starts its pumps.
Admit(e) ==
  /\ hub[e] = "none" /\ e <= last
  /\ \A x \in Epochs : x < e => hub[x] = "done"
  /\ hub' = [hub EXCEPT ![e] = "registering"]
  /\ stale' = FALSE
  /\ UNCHANGED <<agentVars, up, pump, entry, maps, known, handled>>

\* registerNodeOnline: Register replaces the entry by a fresh one.
RegisterFresh(e) ==
  /\ hub[e] = "registering"
  /\ hub' = [hub EXCEPT ![e] = "done"]
  /\ entry' = Fresh /\ known' = TRUE
  /\ UNCHANGED <<agentVars, up, pump, maps, handled, stale>>

\* The read pump takes a message; the entry is copied under the lock, and
\* without a row the message is dropped.
PumpReads(e) ==
  /\ hub[e] # "none" /\ pump[e] = <<>> /\ up[e] # <<>>
  /\ pump' = [pump EXCEPT ![e] = IF known THEN <<Head(up[e]), entry>> ELSE <<>>]
  /\ up' = [up EXCEPT ![e] = Tail(@)]
  /\ UNCHANGED <<agentVars, hub, entry, maps, known, handled, stale>>

\* Mutant of ReconcileCredentialVersion: the version before the expected one is in sync too.
ReconcileAtLeast(copy, v) ==
  [copy EXCEPT !.version = v, !.sync = IF v >= Expected - 1 THEN "in_sync" ELSE "drift_detected"]

\* HandleCredentialSyncMessage: the copy with the version is written back.
ReconcileCredentialVersion(copy, v) ==
  [copy EXCEPT !.version = v, !.sync = IF v = Expected THEN "in_sync" ELSE "drift_detected"]

\* A map nobody refers to.
FreshRef ==
  CHOOSE i \in Refs \ {0, entry.auth} : \A e \in Epochs : pump[e] = <<>> \/ pump[e][2].auth # i

\* HandleAuthStateMessage: the state goes into the copy's map, which is made
\* for a nil one, and the copy is written back.
UpdateAuthState(copy, s) ==
  LET i == IF copy.auth = 0 THEN FreshRef ELSE copy.auth
  IN /\ maps' = [maps EXCEPT ![i] = s]
     /\ entry' = [copy EXCEPT !.auth = i]

PumpWrites(e) ==
  /\ pump[e] # <<>>
  /\ LET m == pump[e][1]
         copy == pump[e][2]
     IN \/ /\ m.type = "sync"
           /\ entry' = ReconcileCredentialVersion(copy, m.value)
           /\ handled' = e
           /\ UNCHANGED maps
        \/ /\ m.type = "auth"
           /\ UpdateAuthState(copy, m.value)
           /\ UNCHANGED handled
  /\ stale' = (stale \/ \E x \in Epochs : x > e /\ hub[x] # "none")
  /\ pump' = [pump EXCEPT ![e] = <<>>]
  /\ UNCHANGED <<agentVars, hub, up, known>>

ReportsInit ==
  /\ link = 0 /\ greeted = FALSE /\ last = 0
  /\ hub = [e \in Epochs |-> "none"] /\ up = [e \in Epochs |-> <<>>]
  /\ pump = [e \in Epochs |-> <<>>]
  /\ entry = Fresh /\ maps = [i \in Refs |-> NoState] /\ known = FALSE
  /\ version = 0 /\ host \in Hosts /\ adapter \in {"opencode", "claude"} /\ lastState = NoState
  /\ changes = 0
  /\ reported = [e \in Epochs |-> 0] /\ handled = 0 /\ stale = FALSE

Receive(e) == Admit(e) \/ RegisterFresh(e) \/ PumpReads(e) \/ PumpWrites(e)

ReportsNext ==
  \/ AgentConnects \/ ReportVersion \/ ReportTools \/ AgentChanges \/ Disconnect
  \/ \E e \in Epochs : Receive(e)

\* The hook runs, the reporter's ticker fires, and Run and the pumps are
\* scheduled.
ReportsFairness ==
  /\ WF_reportVars(ReportVersion) /\ WF_reportVars(ReportTools)
  /\ \A e \in Epochs : /\ WF_reportVars(Admit(e)) /\ WF_reportVars(RegisterFresh(e))
                       /\ WF_reportVars(PumpReads(e)) /\ WF_reportVars(PumpWrites(e))

ReportsSpec == ReportsInit /\ [][ReportsNext]_reportVars /\ ReportsFairness

-----------------------------------------------------------------------------
\* Once the version report of the last connection was written, the entry
\* shows that version or none, and "in_sync" for the expected version only,
\* however Register, the two steps of the pump and the reports of tools
\* interleave, unless the pump of an older connection writes meanwhile
\* (ReconcileCredentialVersion, Register).
SyncStatusHonest ==
  \A e \in Epochs :
    (/\ hub[e] # "none" /\ \A x \in Epochs : x > e => hub[x] = "none"
     /\ handled = e /\ ~ stale /\ entry.sync # "unknown")
      => /\ entry.version = reported[e]
         /\ entry.sync = "in_sync" <=> entry.version = Expected

\* If the agent stays connected and the tool no longer changes, the registry
\* comes to show what its adapter finds, and keeps showing it, also when a report was
\* dropped, undone by Register or overtaken by an older pump (the reporter
\* sends on every tick, whether or not anything changed).
AuthArrives ==
  \A h \in Hosts : <>[](link # 0 /\ host = h) => <>[](maps[entry.auth] = CheckAuth)

\* An agent that stays connected and has been pushed the expected version
\* is not shown as drifting for ever ("To clear the drift status, you can:
\* 1. Push credentials from supervisor").
PushClearsDrift ==
  <>[](link # 0 /\ version = Expected) => []<>(entry.sync # "drift_detected")
=============================================================================
