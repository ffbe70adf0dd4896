----------------------------- MODULE Selection ------------------------------
(***************************************************************************)
(* The loop that goes through a list and keeps the elements of a set, as a *)
(* function of how many it has seen: SelectSeq for a set, in a form that   *)
(* can be reasoned about.                                                  *)
(***************************************************************************)
EXTENDS Naturals, Sequences

Only(list, T) ==
    LET only[i \in 0 .. Len(list)] ==
          IF i = 0 THEN <<>>
          ELSE IF list[i] \in T THEN Append(only[i - 1], list[i]) ELSE only[i - 1]
    IN  only[Len(list)]
=============================================================================
