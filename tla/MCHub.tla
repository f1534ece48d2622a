-------------------------------- MODULE MCHub --------------------------------
(* Instances of Hub for TLC.                                               *)
EXTENDS Hub

CONSTANTS n1, c1, c2, k1

\* One node that reconnects.
OneNode == [c \in Conns |-> n1]
=============================================================================
