--------------------------- MODULE OrderedDelivery ---------------------------
(***************************************************************************)
(* What the event pipeline promises its consumers: for every agent the     *)
(* sequence numbers handed on are 1, 2, 3, ... with none missing, repeated *)
(* or out of order.  One step may hand on a whole run of them.             *)
(***************************************************************************)
EXTENDS Naturals, Sequences

CONSTANTS Agents,   \* node ids
          MaxSeq    \* bound on the sequence numbers an agent uses

VARIABLE log        \* log[a]: the sequence numbers handed on for agent a

Init == log = [a \in Agents |-> << >>]

\* Hand on the next n sequence numbers of agent a.
Deliver(a, n) ==
  /\ Len(log[a]) + n <= MaxSeq
  /\ log' = [log EXCEPT ![a] = [i \in 1..Len(@) + n |->
                                  IF i <= Len(@) THEN @[i] ELSE i]]

Next == \E a \in Agents, n \in 1..MaxSeq : Deliver(a, n)

Spec == Init /\ [][Next]_log
=============================================================================
