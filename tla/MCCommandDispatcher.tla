------------------------- MODULE MCCommandDispatcher -------------------------
(* Instances of CommandDispatcher for TLC.                                 *)
EXTENDS CommandDispatcher, TLC

CONSTANTS c1, c2, c3, i1, i2, i3, k1

\* Generated ids: every call has its own.
OwnIds == (c1 :> i1) @@ (c2 :> i2) @@ (c3 :> i3)

\* Two calls of one key, one call without a key.
TwoOfOneKey == (c1 :> k1) @@ (c2 :> k1) @@ (c3 :> NoKey)

\* All calls have one key, one id.
OneKey == [c \in Calls |-> k1]
OneId == [c \in Calls |-> i1]
=============================================================================
