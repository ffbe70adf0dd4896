------------------------------- MODULE Hooks --------------------------------
(***************************************************************************)
(* "agentflash hooks --apply" (main.go): read Claude's settings file, drop *)
(* the entries that post to our address, append ours, write the file.      *)
(*                                                                         *)
(* The file belongs to others too: the user, Claude, and another           *)
(* agentflash with its own address.  Nothing locks it, and os.WriteFile    *)
(* truncates before it writes.                                             *)
(*                                                                         *)
(* A command is known by the address it posts to, or is one of the user's  *)
(* own; an entry is a matcher with a set of commands.  The keys outside    *)
(* "hooks" are one value, and the layout of the text only says whether it  *)
(* is the one json.MarshalIndent produces.                                 *)
(***************************************************************************)
EXTENDS Naturals, Sequences, SequencesExt, Selection

CONSTANTS
    Urls,           \* addresses of agentflash instances, one command line each
    Events,         \* hook events of buildHooksMap
    Matched,        \* those with the matcher ".*"
    Own,            \* commands of the user
    NotAList,       \* a value of an event that is no JSON array
    NoKeys,         \* no keys outside "hooks"
    UserFiles       \* files the user may save

Entry == [matcher : {".*", ""}, cmds : SUBSET (Urls \cup Own)]

NoHooks == [e \in Events |-> <<>>]
File(kind) == [kind |-> kind, pretty |-> FALSE, keys |-> NoKeys, hooks |-> NoHooks]

\* Only what holds settings has anything in it.
IsFile(f) ==
    /\ f.kind \in {"missing", "empty", "broken", "settings"}
    /\ f.pretty \in BOOLEAN
    /\ \A e \in Events : f.hooks[e] = NotAList \/ f.hooks[e] \in Seq(Entry)
    /\ f.kind # "settings" => f = File(f.kind)

ASSUME HooksAssumption ==
    /\ Matched \subseteq Events /\ Own \cap Urls = {}
    /\ NotAList \notin Seq(Entry)
    /\ \A f \in UserFiles : IsFile(f)

VARIABLES
    disk,           \* the settings file
    pc,             \* per address: "idle" | "merge" | "writing"
    seen,           \* per address: the file as os.ReadFile returned it in this run
    owed,           \* history: the file the user last saved
    applied,        \* history: addresses applied since then
    latest,         \* history: the last of these, as a set
    disturbed       \* history: since then, a run overlapped another writer or was cut off

runVars == <<pc, seen>>
history == <<owed, applied, latest, disturbed>>
vars == <<disk, runVars, history>>

Init ==
    /\ disk \in UserFiles \cup {File("missing")}
    /\ pc = [u \in Urls |-> "idle"]
    /\ seen = [u \in Urls |-> File("missing")]
    /\ owed = disk /\ applied = {} /\ latest = {} /\ disturbed = FALSE

-----------------------------------------------------------------------------
(* The merge.                                                              *)

\* buildHooksMap: one entry with one command for every event.
Ours(u, event) == [matcher |-> IF event \in Matched THEN ".*" ELSE "", cmds |-> {u}]

\* Mutant of ReferencesURL: only an entry that holds nothing else is ours.
ReferencesURLAlone(entry, u) == entry.cmds = {u}

\* entryReferencesURL: one of the commands is enough.
ReferencesURL(entry, u) == u \in entry.cmds

\* A value that is no array is treated as an empty one; "hooks" that is no
\* object counts as such a value for every event.
Existing(value) == IF value = NotAList THEN <<>> ELSE value

\* Mutants of MergeEvent: old entries of ours stay; what follows one is lost.
MergeEventAppending(value, u, event) == Append(Existing(value), Ours(u, event))
MergeEventBreaking(value, u, event) ==
    LET old == Existing(value)
        IsOurs(e) == ReferencesURL(e, u)
        first == SelectInSeq(old, IsOurs)
    IN  Append(IF first = 0 THEN old ELSE SubSeq(old, 1, first - 1), Ours(u, event))

\* applyHooks goes through the existing entries and keeps the others' (Selection).
MergeEvent(value, u, event) ==
    Append(Only(Existing(value), {e \in Entry : ~ReferencesURL(e, u)}), Ours(u, event))

\* Mutant of Merged: the hooks of what was read are replaced, nothing else.
MergedInPlace(file, u) ==
    [file EXCEPT !.hooks = [e \in Events |-> MergeEvent(file.hooks[e], u, e)]]

\* The text applyHooks writes for what it read.  A missing or empty file is
\* taken as no settings.
Merged(file, u) ==
    [kind |-> "settings", pretty |-> TRUE, keys |-> file.keys,
     hooks |-> [e \in Events |-> MergeEvent(file.hooks[e], u, e)]]

-----------------------------------------------------------------------------
(* A run of applyHooks.                                                    *)

Others(u) == {v \in Urls \ {u} : pc[v] # "idle"}

\* os.ReadFile
Read(u) ==
    /\ pc[u] = "idle"
    /\ pc' = [pc EXCEPT ![u] = "merge"]
    /\ seen' = [seen EXCEPT ![u] = disk]
    /\ disturbed' = (disturbed \/ Others(u) # {})
    /\ UNCHANGED <<disk, owed, applied, latest>>

\* Mutant of Parses: a file that does not parse is taken as no settings.
ParsesAlways(u) == TRUE

\* json.Unmarshal accepts what was read.
Parses(u) == seen[u].kind # "broken"

Return(u) ==
    /\ pc' = [pc EXCEPT ![u] = "idle"]
    /\ seen' = [seen EXCEPT ![u] = File("missing")]

\* The file does not parse: applyHooks refuses to overwrite it.
Refuse(u) ==
    /\ pc[u] = "merge" /\ ~Parses(u)
    /\ Return(u)
    /\ UNCHANGED <<disk, history>>

Done(u) ==
    /\ Return(u)
    /\ applied' = applied \cup {u}
    /\ latest' = {u}
    /\ UNCHANGED <<owed, disturbed>>

\* The merge yields the text that was read: nothing to write.
UpToDate(u) ==
    /\ pc[u] = "merge" /\ Parses(u)
    /\ Merged(seen[u], u) = seen[u]
    /\ Done(u)
    /\ UNCHANGED disk

\* os.WriteFile opens the file and truncates it ...
Truncate(u) ==
    /\ pc[u] = "merge" /\ Parses(u)
    /\ Merged(seen[u], u) # seen[u]
    /\ disk' = File("empty")
    /\ pc' = [pc EXCEPT ![u] = "writing"]
    /\ UNCHANGED <<seen, history>>

\* ... and writes from its start; the end of a longer text that another
\* writer put there in the meantime remains.
Write(u) ==
    /\ pc[u] = "writing"
    /\ \/ disk' = Merged(seen[u], u)
       \/ disk.kind # "empty" /\ disk' = File("broken")
    /\ Done(u)

\* The run ends early: it is killed, or the disk is full.
CutOff(u) ==
    /\ pc[u] = "writing"
    /\ disk' \in {disk, File("broken")}
    /\ Return(u)
    /\ disturbed' = TRUE
    /\ UNCHANGED <<owed, applied, latest>>

\* The user, or Claude, replaces the file.
UserSaves ==
    /\ disk' \in UserFiles
    /\ owed' = disk' /\ applied' = {} /\ latest' = {}
    /\ disturbed' = (\E u \in Urls : pc[u] # "idle")
    /\ UNCHANGED runVars

Apply(u) == Read(u) \/ Refuse(u) \/ UpToDate(u) \/ Truncate(u) \/ Write(u) \/ CutOff(u)

Next == UserSaves \/ \E u \in Urls : Apply(u)

Spec == Init /\ [][Next]_vars
-----------------------------------------------------------------------------
(* What is on disk, what the runs have read, what the user saved.          *)
TypeOK ==
    /\ IsFile(disk) /\ IsFile(owed)
    /\ \A u \in Urls : IsFile(seen[u])
    /\ pc \in [Urls -> {"idle", "merge", "writing"}]
    /\ latest \subseteq applied /\ applied \subseteq Urls
    /\ disturbed \in BOOLEAN

Quiet == ~disturbed /\ \A u \in Urls : pc[u] # "writing"

Unrelated(value) == Only(Existing(value), {e \in Entry : e.cmds \cap Urls = {}})

(***************************************************************************)
(* Between runs that nothing disturbed, the file still holds what is not   *)
(* agentflash's: the keys outside "hooks", and in every event the entries  *)
(* that mention no address, in the user's order (applyHooks).              *)
(***************************************************************************)
UnrelatedKept ==
    Quiet =>
        /\ disk.keys = owed.keys
        /\ \A e \in Events : Unrelated(disk.hooks[e]) = Unrelated(owed.hooks[e])

(***************************************************************************)
(* An address that was applied is in every event once, in an entry of its  *)
(* own, whatever older entries the file held and whichever other address   *)
(* was applied before or after ("Existing entries pointing at our own URL  *)
(* are replaced", main.go:119).                                            *)
(***************************************************************************)
AppliedOnce ==
    Quiet =>
        \A u \in applied, e \in Events :
            Only(disk.hooks[e], {n \in Entry : u \in n.cmds}) = <<Ours(u, e)>>

(***************************************************************************)
(* A file that does not parse stays as the user left it, whatever is       *)
(* applied ("refusing to overwrite").                                      *)
(***************************************************************************)
BrokenIsKept == Quiet /\ owed.kind = "broken" => disk = owed

(***************************************************************************)
(* Applying the address that was applied last writes nothing (the check    *)
(* for identical content).                                                 *)
(***************************************************************************)
ReapplyWritesNothing ==
    [][\A u \in Urls :
         pc[u] = "merge" /\ pc'[u] = "writing" /\ ~disturbed => u \notin latest]_vars

(***************************************************************************)
(* "other unrelated hooks under the same event are kept" (main.go:120):    *)
(* every command of the user is still in the event it was in.              *)
(***************************************************************************)
Commands(value) == UNION {entry.cmds : entry \in ToSet(Existing(value))} \cap Own

OwnHooksKept ==
    Quiet => \A e \in Events : Commands(owed.hooks[e]) \subseteq Commands(disk.hooks[e])
=============================================================================
