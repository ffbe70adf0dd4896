------------------------------ MODULE MCWatch -------------------------------
(* Small instances of Watch for TLC.                                       *)
EXTENDS Watch

CONSTANTS p1, p2
=============================================================================
