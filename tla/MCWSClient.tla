----------------------------- MODULE MCWSClient -----------------------------
(* Instances of WSClient for TLC.                                          *)
EXTENDS WSClient

CONSTANTS s1, s2
=============================================================================
