------------------------------- MODULE MCHub --------------------------------
(* Small instances of Hub for TLC.                                         *)
EXTENDS Hub

CONSTANTS tap, fs, c1, none
=============================================================================
