----------------------------- MODULE MCSession ------------------------------
(* Instances of Session for TLC: both systems, both users, any failure.    *)
EXTENDS Session
=============================================================================
