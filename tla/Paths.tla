------------------------------- MODULE Paths --------------------------------
(***************************************************************************)
(* The path of a file as the parts of the program see it: the filter of    *)
(* the taps, the announcement of the watcher, the browser that turns it    *)
(* into a request, the tree endpoint, and the hook endpoint.               *)
(*                                                                         *)
(* An absolute path is the sequence of its segments, "/a/b" is             *)
(* <<"a", "b">> and "/" is <<>>; a relative one likewise.  Before it is    *)
(* cleaned a path may have the segments "" (a doubled slash), "." and "..".*)
(***************************************************************************)
EXTENDS Naturals, SequencesExt

CONSTANTS
    Seg,            \* segments
    Extends,        \* pairs <<s, t>> such that the name t begins with the name s
    Roots,          \* watched directories, clean
    DataVolume,     \* macDataVolume, clean
    MaxSegs         \* bound on the segments of a path

\* A segment of a clean path.
Name == Seg \ {"", ".", ".."}

ASSUME PathsAssumption ==
    /\ {"", ".", ".."} \subseteq Seg
    /\ Extends \subseteq Seg \X Seg
    /\ Roots \subseteq Seq(Name)
    /\ DataVolume \in Seq(Name) \ {<<>>}
    /\ MaxSegs \in Nat

VARIABLES
    mac,            \* which of the two builds
    root,           \* the watched directory
    raw             \* a path as the system reports it

vars == <<mac, root, raw>>

Init ==
    /\ mac \in BOOLEAN
    /\ root \in Roots
    /\ raw = <<>>

Next ==
    \E s \in Seg :
        /\ Len(raw) < MaxSegs
        /\ raw' = Append(raw, s)
        /\ UNCHANGED <<mac, root>>

Spec == Init /\ [][Next]_vars
-----------------------------------------------------------------------------
(* Operations on paths.                                                    *)

\* One more segment behind the clean path q.
Resolve(q, s) ==
    CASE s \in {"", "."} -> q
      [] s = ".." -> IF q = <<>> THEN q ELSE Front(q)
      [] OTHER -> Append(q, s)

\* path.Clean and filepath.Clean of an absolute path.
Clean(p) ==
    LET clean[i \in 0 .. Len(p)] == IF i = 0 THEN <<>> ELSE Resolve(clean[i - 1], p[i])
    IN  clean[Len(p)]

\* The text of the clean path p begins with that of d and a slash.  If d is
\* "/" that makes two slashes.
HasPrefixSlash(p, d) == d # <<>> /\ IsStrictPrefix(d, p)

After(p, d) == SubSeq(p, Len(d) + 1, Len(p))

\* The taps' and the watcher's normalizePath.
normalizePath(p) == IF mac /\ HasPrefixSlash(p, DataVolume) THEN After(p, DataVolume) ELSE p

\* Mutant of pathIn: the prefix has no slash at its end.
pathInNoSlash(p, dir) ==
    \/ IsPrefix(dir, p)
    \/ /\ dir # <<>> /\ Len(p) >= Len(dir)
       /\ SubSeq(p, 1, Len(dir) - 1) = SubSeq(dir, 1, Len(dir) - 1)
       /\ <<dir[Len(dir)], p[Len(dir)]>> \in Extends

\* No slash is added to "/".
pathIn(p, dir) == p = dir \/ dir = <<>> \/ HasPrefixSlash(p, dir)

TapKeeps(p) == pathIn(normalizePath(Clean(p)), root)

\* Mutant of parentDir: the first slash is looked for, not the last.
parentDirFirst(p) == p

\* The watcher's; a path with its only slash in front is returned as it is.
parentDir(p) == IF Len(p) <= 1 THEN p ELSE Front(p)

\* The browser's: null, here {}, or the set of the path relative to the root.
relFromFull(p) ==
    IF p = root THEN {<<>>} ELSE IF HasPrefixSlash(p, root) THEN {After(p, root)} ELSE {}

parentRel(rel) == IF rel = <<>> THEN rel ELSE Front(rel)

\* treeHandler: the directory it lists, as a set that is empty if it refuses.
Listed(rel) ==
    LET absolute == Len(rel) > 1 /\ rel[1] = ""
        clean == Clean(root \o rel)
    IN  {d \in {clean} : ~absolute /\ (d = root \/ HasPrefixSlash(d, root))}

\* filepath.Rel gives ".." and more for a path that is not below the root.
cwdInside(cwd) ==
    LET abs == Clean(cwd)
        rel == After(abs, root)
    IN  abs = root \/ (IsStrictPrefix(root, abs) /\ <<"..", rel[1]>> \notin Extends)
-----------------------------------------------------------------------------
\* A root that is "/" or lies on the data volume is not served (README).
Served == root # <<>> /\ (mac => ~IsPrefix(DataVolume, root))

File == normalizePath(Clean(raw))

(***************************************************************************)
(* Every part agrees on what is inside: the tap reports a path if and only *)
(* if the browser can place it and the endpoint lists its row's directory, *)
(* and the hook endpoint takes a session there, unless the first name      *)
(* below the root begins with two dots or the path is on the data volume   *)
(* (tap.go:57-59, claudehook.go:59-75, tree.go:47, app.js:527-533).        *)
(***************************************************************************)
SameInside ==
    Served =>
        /\ TapKeeps(raw) <=> relFromFull(File) # {}
        /\ \A rel \in relFromFull(File) : Listed(rel) = {File}
        /\ \A d \in Listed(raw) : d = normalizePath(d) => TapKeeps(d)
        /\ cwdInside(raw) => IsPrefix(root, Clean(raw))
        /\ TapKeeps(raw) /\ File = Clean(raw)
              => cwdInside(raw) \/ \E s \in Seg : <<"..", s>> \in Extends /\ s = After(File, root)[1]

(***************************************************************************)
(* A change below the root makes the browser ask for the directory it      *)
(* happened in, and the endpoint list that one, whether the notice is the  *)
(* dirchange of the watcher or the write event of tap or watcher           *)
(* (server.go:125-140, app.js:97-99, 551-555, tree.go:34-50).              *)
(***************************************************************************)
NoticeListsDirectory ==
    Served /\ IsStrictPrefix(root, File) =>
        LET dir == Front(File)
        IN  /\ {Listed(rel) : rel \in relFromFull(parentDir(File))} = {{dir}}
            /\ {Listed(parentRel(rel)) : rel \in relFromFull(File)} = {{dir}}
=============================================================================
