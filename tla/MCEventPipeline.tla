--------------------------- MODULE MCEventPipeline ---------------------------
(* Instances of EventPipeline for TLC.                                     *)
EXTENDS EventPipeline, TLC

CONSTANTS a1, c1

\* One agent, one goroutine.
OneConn == c1 :> a1
=============================================================================
