----------------------------- MODULE MCTapLinux -----------------------------
(* Small instances of TapLinux for TLC.                                    *)
EXTENDS TapLinux

CONSTANTS tap, ui, p1, editor, indexer, notes, dump, nofile
=============================================================================
