--------------------------- MODULE DependencyGraph ---------------------------
(***************************************************************************)
(* The dependency graph between projects (depgraph.go): the depth-first    *)
(* search with which NewDependencyGraph rejects cycles, as a machine with  *)
(* the call stack in "path", and the questions answered from an accepted   *)
(* graph and the tracker's sessions. Go ranges over maps in any order, so  *)
(* roots are taken in any order; so are the dependencies of a project.     *)
(***************************************************************************)
EXTENDS Integers, Sequences

CONSTANTS Projects,     \* every project named in the configuration
          Statuses      \* the session statuses considered

Failed == {"error", "unreachable"}

ASSUME GraphAssumption == Statuses \subseteq {"running", "idle"} \cup Failed

VARIABLES
  graph,      \* graph[p]: what p depends on
  verdict,    \* Validate: "open", "ok", or "cycle"
  visited,    \* nodes the search has entered
  inStack,    \* nodes on the present path, as inStack records it
  path,       \* the nodes of the calls under way
  untried,    \* untried[p]: dependencies of p the loop has not come to
  cycle,      \* the cycle reported
  tracked,    \* tracked[p]: the statuses of p's sessions
  ready       \* the last answer of TriggerDependents

graphVars == <<graph, verdict, visited, inStack, path, untried, cycle, tracked, ready>>

Top == path[Len(path)]

-----------------------------------------------------------------------------
\* The prologue of detectCycleDFS, called from Validate or from itself.
Enter(p) ==
  /\ visited' = visited \cup {p}
  /\ inStack' = inStack \cup {p}
  /\ path' = Append(path, p)

\* Validate's loop: the next project that was not visited.
ValidateNext(p) ==
  /\ verdict = "open" /\ path = <<>>
  /\ p \notin visited
  /\ Enter(p)
  /\ UNCHANGED <<graph, verdict, untried, cycle, tracked, ready>>

ValidateDone ==
  /\ verdict = "open" /\ path = <<>>
  /\ visited = Projects
  /\ verdict' = "ok"
  /\ UNCHANGED <<graph, visited, inStack, path, untried, cycle, tracked, ready>>

\* The loop over the dependencies takes the next one.
Try(q) ==
  /\ verdict = "open" /\ path # <<>>
  /\ q \in untried[Top]
  /\ untried' = [untried EXCEPT ![Top] = @ \ {q}]
  /\ UNCHANGED <<graph, tracked, ready>>

Descend(q) ==
  /\ Try(q) /\ q \notin visited
  /\ Enter(q)
  /\ UNCHANGED <<verdict, cycle>>

OnPath(q) == q \in inStack /\ \E i \in DOMAIN path : path[i] = q

\* Mutant of BackEdge: the whole path is reported.
BackEdgeFromRoot(q) ==
  /\ Try(q) /\ q \in visited /\ OnPath(q)
  /\ cycle' = Append(path, q)
  /\ verdict' = "cycle"
  /\ UNCHANGED <<visited, inStack, path>>

\* A dependency on the path: the path from it, closed, is the cycle.
BackEdge(q) ==
  /\ Try(q) /\ q \in visited /\ OnPath(q)
  /\ LET start == CHOOSE i \in DOMAIN path : path[i] = q
     IN cycle' = Append(SubSeq(path, start, Len(path)), q)
  /\ verdict' = "cycle"
  /\ UNCHANGED <<visited, inStack, path>>

\* A dependency the search has left for good.
CrossEdge(q) ==
  /\ Try(q) /\ q \in visited /\ ~ OnPath(q)
  /\ UNCHANGED <<verdict, cycle, visited, inStack, path>>

\* Mutant of Leave: the marks of the callers are taken back too.
LeaveUnmarked ==
  /\ verdict = "open" /\ path # <<>>
  /\ untried[Top] = {}
  /\ inStack' = {}
  /\ path' = SubSeq(path, 1, Len(path) - 1)
  /\ UNCHANGED <<graph, verdict, visited, untried, cycle, tracked, ready>>

\* The loop has ended without a cycle and the call returns.
Leave ==
  /\ verdict = "open" /\ path # <<>>
  /\ untried[Top] = {}
  /\ inStack' = inStack \ {Top}
  /\ path' = SubSeq(path, 1, Len(path) - 1)
  /\ UNCHANGED <<graph, verdict, visited, untried, cycle, tracked, ready>>

-----------------------------------------------------------------------------
\* A session of the project is neither failed nor unreachable (a running
\* one counts as completed).
HasCompletedSession(p) == tracked[p] \ Failed # {}

IsReady(p) == \A dep \in graph[p] : HasCompletedSession(dep)

\* TriggerDependents: the dependents of a project, by the reverse graph,
\* that are ready.
TriggerDependents(p) ==
  /\ verdict = "ok"
  /\ ready' = {d \in Projects : p \in graph[d] /\ IsReady(d)}
  /\ UNCHANGED <<graph, verdict, visited, inStack, path, untried, cycle, tracked>>

\* Sessions of a project come, change and go.
SessionsChange(p) ==
  /\ verdict = "ok"
  /\ \E S \in SUBSET Statuses : tracked' = [tracked EXCEPT ![p] = S]
  /\ UNCHANGED <<graph, verdict, visited, inStack, path, untried, cycle, ready>>

\* Any configuration.
GraphInit ==
  /\ graph \in [Projects -> SUBSET Projects]
  /\ verdict = "open"
  /\ visited = {} /\ inStack = {} /\ path = <<>>
  /\ untried = graph
  /\ cycle = <<>>
  /\ tracked = [p \in Projects |-> {}]
  /\ ready = {}

GraphNext ==
  \/ ValidateDone \/ Leave
  \/ \E p \in Projects :
       \/ ValidateNext(p) \/ Descend(p) \/ BackEdge(p) \/ CrossEdge(p)
       \/ TriggerDependents(p) \/ SessionsChange(p)

GraphSpec == GraphInit /\ [][GraphNext]_graphVars

-----------------------------------------------------------------------------
SomeoneCanStart ==
  \/ \A p \in Projects : HasCompletedSession(p)
  \/ \E p \in Projects : ~ HasCompletedSession(p) /\ IsReady(p)

IsCycle(c) ==
  /\ Len(c) > 1
  /\ c[1] = c[Len(c)]
  /\ \A i \in 1..(Len(c) - 1) : c[i + 1] \in graph[c[i]]

\* An accepted graph never leaves the projects waiting for each other:
\* whatever sessions there are, a project that has none completed is ready,
\* until all have one. A graph is rejected for a real cycle: the path
\* reported follows dependencies back to its start. (detectCycleDFS must
\* find every cycle, in any order of iteration, take no shared dependency
\* for one, and cut off the way that led to it; IsReady must ask for no
\* more than the graph says.)
ValidateDecides ==
  /\ verdict = "ok" => SomeoneCanStart
  /\ verdict = "cycle" => IsCycle(cycle)
=============================================================================
