------------------------------ MODULE MCPaths -------------------------------
(* Paths over a few names for TLC.                                         *)
EXTENDS Paths

Names == {"", ".", "..", "a", "ab", "..a", "data"}
NameExtends == {<<"a", "ab">>, <<"..", "..">>, <<"..", "..a">>}
Watched == {<<>>, <<"a">>, <<"a", "a">>, <<"data">>, <<"data", "a">>}
Volume == <<"data", "a">>
=============================================================================
