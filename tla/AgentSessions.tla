---------------------------- MODULE AgentSessions ----------------------------
(***************************************************************************)
(* The session commands of an agent (session_commands.go) over the adapter *)
(* of its opencode servers (opencode_adapter.go). Commands are handled one *)
(* at a time; every call to the server may fail before or after it had its *)
(* effect. Others create and delete sessions on the server too, and the    *)
(* agent may be restarted.                                                 *)
(*                                                                         *)
(* sessionStatuses is written by the adapter and read by nobody: left out. *)
(***************************************************************************)
EXTENDS Integers, FiniteSets

CONSTANTS MaxSessions,   \* bound on the ids the server gives
          Dirs,          \* projects of this agent
          NoDir, NoSession,
          MaxCommands    \* bound on commands

Sessions == 1..MaxSessions

ASSUME SessionsAssumption ==
  /\ NoDir \notin Dirs /\ NoSession \notin Sessions
  /\ MaxSessions \in Nat /\ MaxCommands \in Nat

VARIABLES
  server,    \* server[s]: "none", "live", "gone"
  home,      \* home[s]: the project the session was created in
  route,     \* route[s]: sessionProjects, or NoDir
  cmd,       \* the command in hand
  given,     \* commands so far
  answers    \* results sent

sessionVars == <<server, home, route, cmd, given, answers>>

Ops == {"create", "prompt", "kill", "status", "restart"}
Given == {s \in Sessions : server[s] # "none"}
NextId == Cardinality(Given) + 1
Idle == [pc |-> "idle"]

At(pc) == cmd.pc = pc
Goto(pc) == cmd' = [cmd EXCEPT !.pc = pc]
Result(res) == cmd' = [cmd EXCEPT !.pc = "answer", !.res = res]
Record(s, p) == route' = [route EXCEPT ![s] = p]

-----------------------------------------------------------------------------
\* HandleSessionCommand and executeSessionCommand take a command; without a
\* session id it is refused, but for create and restart.
TakeCommand(op, s, p, prompt) ==
  /\ cmd = Idle /\ given < MaxCommands
  /\ given' = given + 1
  /\ cmd' = [op |-> op, s |-> s, p |-> p, made |-> NoSession, kill |-> "none",
             res |-> IF s = NoSession /\ op \in {"prompt", "kill", "status"} THEN "failure"
                     ELSE "none",
             prompt |-> (op = "restart" \/ prompt),
             pc |-> IF op = "create" THEN "new"
                    ELSE IF s # NoSession THEN "route"
                    ELSE IF op = "restart" THEN "new" ELSE "answer"]
  /\ UNCHANGED <<server, home, route, answers>>

\* KillSession returns; restart_session ignores its error.
KillReturns(res) ==
  cmd' = IF cmd.op = "restart" THEN [cmd EXCEPT !.pc = "new", !.kill = res]
         ELSE [cmd EXCEPT !.pc = "answer", !.res = res]

\* An error of the call in hand.
Fails == IF cmd.op \in {"kill", "restart"} THEN KillReturns("failure") ELSE Result("failure")

\* clientForSession: the recorded project, or the one that knows the
\* session.
ClientForSession ==
  /\ At("route")
  /\ LET s == cmd.s
         next == CASE cmd.op \in {"kill", "restart"} -> "abort"
                   [] cmd.op = "prompt" -> "prompt"
                   [] cmd.op = "status" -> "get"
     IN \/ route[s] # NoDir /\ Goto(next) /\ UNCHANGED route
        \/ route[s] = NoDir /\ server[s] = "live" /\ Record(s, home[s]) /\ Goto(next)
        \/ route[s] = NoDir /\ Fails /\ UNCHANGED route   \* not found, or an error
  /\ UNCHANGED <<server, home, given, answers>>

\* Abort; a session that is not found is left to Delete.
AbortSession ==
  /\ At("abort")
  /\ Goto("delete") \/ Fails
  /\ UNCHANGED <<server, home, route, given, answers>>

\* Mutant of DeleteSession: a session that cannot be deleted counts as
\* deleted.
DeleteRegardless ==
  /\ At("delete")
  /\ \/ server' = [server EXCEPT ![cmd.s] = "gone"] /\ server[cmd.s] = "live"
     \/ UNCHANGED server
  /\ KillReturns("success")
  /\ UNCHANGED <<home, route, given, answers>>

DeleteSession ==
  /\ At("delete")
  /\ \/ /\ server[cmd.s] = "live" /\ route[cmd.s] = home[cmd.s]
        /\ server' = [server EXCEPT ![cmd.s] = "gone"]
        /\ KillReturns("success") \/ KillReturns("failure")
     \/ UNCHANGED server /\ KillReturns("failure")
  /\ UNCHANGED <<home, route, given, answers>>

\* CreateSession: New, and the session is recorded under its project.
NewSession ==
  /\ At("new")
  /\ \/ \E s \in Sessions \cap {NextId} :
          /\ server' = [server EXCEPT ![s] = "live"] /\ home' = [home EXCEPT ![s] = cmd.p]
          /\ \/ /\ Record(s, cmd.p)
                /\ cmd' = [cmd EXCEPT !.made = s, !.pc = IF cmd.prompt THEN "first" ELSE "answer",
                                      !.res = IF cmd.prompt THEN "none" ELSE "success"]
             \/ Result("failure") /\ UNCHANGED route
     \/ Result("failure") /\ UNCHANGED <<server, home, route>>
  /\ UNCHANGED <<given, answers>>

\* PromptSession, of a prompt command or (pc "first") of CreateSession.
PromptSession ==
  /\ At("prompt") \/ At("first")
  /\ LET s == IF At("first") THEN cmd.made ELSE cmd.s
     IN \/ server[s] = "live" /\ route[s] = home[s] /\ Result("success")
        \/ Result("failure")
  /\ UNCHANGED <<server, home, route, given, answers>>

GetStatus ==
  /\ At("get")
  /\ \/ server[cmd.s] = "live" /\ route[cmd.s] = home[cmd.s] /\ Result("success")
     \/ Result("failure")
  /\ UNCHANGED <<server, home, route, given, answers>>

\* sendSessionCommandResult; if it fails, the handler's error is logged and
\* nobody is told.
SendResult ==
  /\ At("answer")
  /\ cmd' = Idle
  /\ answers' = answers \cup {[op |-> cmd.op, s |-> cmd.s, res |-> cmd.res, kill |-> cmd.kill,
                               output |-> IF cmd.res = "success" THEN cmd.made ELSE NoSession]}
     \/ UNCHANGED answers
  /\ UNCHANGED <<server, home, route, given>>

\* ListSessions records every session it is shown.
ListSessions ==
  /\ cmd = Idle
  /\ route' = [s \in Sessions |-> IF server[s] = "live" THEN home[s] ELSE route[s]]
  /\ UNCHANGED <<server, home, cmd, given, answers>>

\* The agent restarts; the server and its sessions stay.
RestartAgent ==
  /\ cmd' = Idle /\ route' = [s \in Sessions |-> NoDir]
  /\ UNCHANGED <<server, home, given, answers>>

\* Somebody else works with the server.
OthersCreate(p) ==
  /\ NextId \in Sessions
  /\ server' = [server EXCEPT ![NextId] = "live"] /\ home' = [home EXCEPT ![NextId] = p]
  /\ UNCHANGED <<route, cmd, given, answers>>

OthersDelete(s) ==
  /\ server[s] = "live"
  /\ server' = [server EXCEPT ![s] = "gone"]
  /\ UNCHANGED <<home, route, cmd, given, answers>>

SessionsInit ==
  /\ server = [s \in Sessions |-> "none"]
  /\ home = [s \in Sessions |-> NoDir] /\ route = [s \in Sessions |-> NoDir]
  /\ cmd = Idle /\ given = 0 /\ answers = {}

SessionsNext ==
  \/ \E op \in Ops, s \in Given \cup {NoSession}, p \in Dirs, prompt \in BOOLEAN :
       TakeCommand(op, s, p, prompt)
  \/ ClientForSession \/ AbortSession \/ DeleteSession \/ NewSession \/ PromptSession
  \/ GetStatus \/ SendResult \/ ListSessions \/ RestartAgent
  \/ \E s \in Sessions : OthersDelete(s)
  \/ \E p \in Dirs : OthersCreate(p)

SessionsSpec == SessionsInit /\ [][SessionsNext]_sessionVars

-----------------------------------------------------------------------------
\* A command answered with success did what it says, whatever calls failed
\* on the way: a killed session is gone for good, a created one exists and
\* its id is told, and a restarted one is gone unless its kill failed
\* (KillSession, CreateSession, restart_session).
AnswersAreTrue ==
  \A a \in answers : a.res = "success" =>
    CASE a.op = "kill" -> server[a.s] = "gone"
      [] a.op = "create" -> a.output # NoSession /\ server[a.output] # "none"
      [] a.op = "restart" ->
           /\ a.output \notin {NoSession, a.s} /\ server[a.output] # "none"
           /\ a.kill = "success" => server[a.s] = "gone"
      [] OTHER -> server[a.s] # "none"
=============================================================================
