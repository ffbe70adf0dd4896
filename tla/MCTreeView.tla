----------------------------- MODULE MCTreeView -----------------------------
(* A directory docs with one file note, next to one file todo.             *)
EXTENDS TreeView

CONSTANTS root, docs, note, todo

MCOrder == <<docs, note, todo>>
MCParent == [p \in {docs, note, todo} |-> IF p = note THEN docs ELSE root]
=============================================================================
