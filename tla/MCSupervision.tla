---------------------------- MODULE MCSupervision ----------------------------
(* Instances of Supervision for TLC.                                       *)
EXTENDS Supervision

CONSTANTS n1, s1, s2, c1, c2, k1

\* One node with all sessions, which reconnects.
OneHome == [s \in Sessions |-> n1]
OnePeer == [c \in Conns |-> n1]
=============================================================================
