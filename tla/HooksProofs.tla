---------------------------- MODULE HooksProofs -----------------------------
(***************************************************************************)
(* Theorems about the hook installer for every set of addresses, events,   *)
(* commands and files of the user, and any number and interleaving of      *)
(* runs: what a run that nothing disturbs keeps, adds and leaves alone.    *)
(***************************************************************************)
EXTENDS Hooks, SequenceInduction
-----------------------------------------------------------------------------
(***************************************************************************)
(* The merge of one event (MergeEvent).                                    *)
(***************************************************************************)
Mine(u) == {n \in Entry : u \in n.cmds}
NotMine(u) == {e \in Entry : ~ReferencesURL(e, u)}
Foreign == {e \in Entry : e.cmds \cap Urls = {}}

\* What a merge for one address leaves of each kind of entry.
LEMMA MergeOne ==
    ASSUME NEW u \in Urls, NEW e \in Events, NEW value, value = NotAList \/ value \in Seq(Entry)
    PROVE  LET m == MergeEvent(value, u, e)
           IN  /\ m \in Seq(Entry)
               /\ Unrelated(m) = Unrelated(value)
               /\ MergeEvent(m, u, e) = m
               /\ Only(m, Mine(u)) = <<Ours(u, e)>>
               /\ \A w \in Urls \ {u} :
                     value \in Seq(Entry) /\ Only(value, Mine(w)) = <<Ours(w, e)>>
                         => Only(m, Mine(w)) = <<Ours(w, e)>>
<1> DEFINE old == Existing(value)
           left == Only(old, NotMine(u))
           o == Ours(u, e)
           m == MergeEvent(value, u, e)
           nil == <<>>
<1>1. old \in Seq(Entry) /\ (value \in Seq(Entry) => old = value)
  BY EmptySeq, HooksAssumption DEF Existing
<1>2. m = Append(left, o)
  BY DEF MergeEvent, NotMine
<1>3. o \in Entry /\ o.cmds = {u}
  BY DEF Ours, Entry
<1> HIDE DEF old, o, m
<1>4. left \in Seq(Entry)
  BY <1>1, OnlyAppend
<1>5. m \in Seq(Entry) /\ Existing(m) = m
  <2>1. m \in Seq(Entry)
    BY <1>2, <1>3, <1>4, AppendProperties
  <2> QED
    BY <2>1, HooksAssumption DEF Existing
<1>6. ASSUME NEW B PROVE Only(left, B) = Only(old, NotMine(u) \cap B)
  BY <1>1, OnlyTwice
<1> HIDE DEF left
<1>7. ASSUME NEW B, o \notin B PROVE Only(m, B) = Only(old, NotMine(u) \cap B)
  <2>1. Only(m, B) = Only(left, B)
    BY <1>2, <1>3, <1>4, <1>7, OnlyOneMore
  <2> QED
    BY <1>6, <2>1
<1>8. Only(m, Foreign) = Only(old, Foreign)
  <2>1. o \notin Foreign /\ NotMine(u) \cap Foreign = Foreign
    BY <1>3 DEF Foreign, NotMine, ReferencesURL
  <2> QED
    BY <1>7, <2>1
<1>9. Unrelated(m) = Unrelated(value)
  BY <1>5, <1>8 DEF Unrelated, Foreign, old
<1>10. MergeEvent(m, u, e) = m
  <2>1. o \notin NotMine(u) /\ NotMine(u) \cap NotMine(u) = NotMine(u)
    BY <1>3 DEF NotMine, ReferencesURL
  <2>2. Only(m, NotMine(u)) = left
    BY <1>7, <2>1 DEF left
  <2>3. MergeEvent(m, u, e) = Append(Only(m, NotMine(u)), o)
    BY <1>5 DEF MergeEvent, NotMine, o
  <2> QED
    BY <1>2, <2>2, <2>3
<1>11. Only(m, Mine(u)) = <<o>>
  <2>1. o \in Mine(u) /\ NotMine(u) \cap Mine(u) = {}
    BY <1>3 DEF NotMine, Mine, ReferencesURL
  <2>2. Only(left, Mine(u)) = Only(old, {})
    BY <1>6, <2>1
  <2>3. Only(old, {}) = nil
    BY <1>1, OnlyNone
  <2>4. Only(m, Mine(u)) = Append(Only(left, Mine(u)), o)
    BY <1>2, <1>3, <1>4, <2>1, OnlyOneMore
  <2>5. Append(nil, o) = <<o>>
    OBVIOUS
  <2> HIDE DEF nil
  <2> QED
    BY <2>2, <2>3, <2>4, <2>5
<1>12. ASSUME NEW w \in Urls \ {u}, value \in Seq(Entry), Only(value, Mine(w)) = <<Ours(w, e)>>
       PROVE  Only(m, Mine(w)) = <<Ours(w, e)>>
  <2> DEFINE p == Ours(w, e)
  <2>1. p \in Entry /\ p \in NotMine(u) /\ o \notin Mine(w)
    BY <1>3 DEF Mine, NotMine, Ours, Entry, ReferencesURL
  <2>2. Only(m, Mine(w)) = Only(old, NotMine(u) \cap Mine(w))
    BY <1>7, <2>1
  <2>3. NotMine(u) \cap Mine(w) = Mine(w) \cap NotMine(u)
    OBVIOUS
  <2>4. Only(old, Mine(w) \cap NotMine(u)) = Only(Only(old, Mine(w)), NotMine(u))
    BY <1>1, OnlyTwice
  <2>5. Only(old, Mine(w)) = <<p>>
    BY <1>1, <1>12
  <2>6. Only(<<p>>, NotMine(u)) = <<p>>
    <3>1. <<p>> = Append(nil, p) /\ nil \in Seq(Entry) /\ Only(nil, NotMine(u)) = nil
      BY EmptySeq, OnlyAppend
    <3> HIDE DEF p, nil
    <3>2. Only(Append(nil, p), NotMine(u)) = Append(Only(nil, NotMine(u)), p)
      BY <2>1, <3>1, OnlyOneMore
    <3> QED
      BY <3>1, <3>2
  <2> QED
    BY <2>2, <2>3, <2>4, <2>5, <2>6
<1> QED
  BY <1>5, <1>9, <1>10, <1>11, <1>12 DEF m, o
-----------------------------------------------------------------------------
(***************************************************************************)
(* Types.                                                                  *)
(***************************************************************************)
TypeInv == TypeOK /\ DOMAIN seen = Urls

\* A file with nothing in it.
LEMMA BareFile ==
    ASSUME NEW kind \in {"missing", "empty", "broken"}
    PROVE  IsFile(File(kind))
<1> DEFINE f == File(kind)
           nil == <<>>
<1>1. nil \in Seq(Entry)
  BY EmptySeq
<1>2. f.kind = kind /\ f.pretty = FALSE /\ \A e \in Events : f.hooks[e] = nil
  BY DEF File, NoHooks
<1> HIDE DEF f, nil
<1>3. /\ f.kind \in {"missing", "empty", "broken", "settings"}
      /\ f.pretty \in BOOLEAN
      /\ \A e \in Events : f.hooks[e] \in Seq(Entry)
  BY <1>1, <1>2
<1>4. f = File(f.kind)
  BY <1>2 DEF f
<1> QED
  BY <1>3, <1>4 DEF IsFile, f

\* What a run writes is a file.
LEMMA MergedFile ==
    ASSUME NEW u \in Urls, NEW f, IsFile(f)
    PROVE  /\ IsFile(Merged(f, u))
           /\ Merged(f, u).kind = "settings" /\ Merged(f, u).keys = f.keys
           /\ \A e \in Events : Merged(f, u).hooks[e] = MergeEvent(f.hooks[e], u, e)
<1> DEFINE g == Merged(f, u)
<1>1. /\ g.kind = "settings" /\ g.pretty = TRUE /\ g.keys = f.keys
      /\ \A e \in Events : g.hooks[e] = MergeEvent(f.hooks[e], u, e)
  BY DEF Merged
<1> HIDE DEF g
<1>2. ASSUME NEW e \in Events PROVE g.hooks[e] \in Seq(Entry)
  BY <1>1, MergeOne DEF IsFile
<1>3. IsFile(g)
  BY <1>1, <1>2 DEF IsFile
<1> QED
  BY <1>1, <1>3 DEF g

\* The types hold before the first run.
LEMMA InitTypeInv == Init => TypeInv
<1> SUFFICES ASSUME Init PROVE TypeInv
  OBVIOUS
<1>1. IsFile(File("missing")) /\ \A f \in UserFiles : IsFile(f)
  BY BareFile, HooksAssumption
<1>2. IsFile(disk) /\ IsFile(owed)
  BY <1>1 DEF Init
<1>3. seen = [u \in Urls |-> File("missing")]
  BY DEF Init
<1>4. DOMAIN seen = Urls /\ \A u \in Urls : IsFile(seen[u])
  BY <1>1, <1>3
<1>5. pc \in [Urls -> {"idle", "merge", "writing"}]
  BY DEF Init
<1>6. latest \subseteq applied /\ applied \subseteq Urls /\ disturbed \in BOOLEAN
  BY DEF Init
<1> QED
  BY <1>2, <1>4, <1>5, <1>6 DEF TypeInv, TypeOK

\* Every step keeps the types.
LEMMA NextTypeInv == TypeInv /\ [Next]_vars => TypeInv'
<1> SUFFICES ASSUME TypeInv, [Next]_vars PROVE TypeInv'
  OBVIOUS
<1> USE DEF TypeInv, TypeOK
<1>1. IsFile(File("missing")) /\ IsFile(File("empty")) /\ IsFile(File("broken"))
  BY BareFile
<1>2. ASSUME NEW u \in Urls, NEW f, IsFile(f), seen' = [seen EXCEPT ![u] = f]
      PROVE  DOMAIN seen' = Urls /\ \A v \in Urls : IsFile(seen'[v])
  BY <1>2
<1>3. ASSUME NEW u \in Urls, NEW x \in {"idle", "merge", "writing"}, pc' = [pc EXCEPT ![u] = x]
      PROVE  pc' \in [Urls -> {"idle", "merge", "writing"}]
  BY <1>3
<1>4. ASSUME NEW u \in Urls, Return(u)
      PROVE  /\ DOMAIN seen' = Urls /\ \A v \in Urls : IsFile(seen'[v])
             /\ pc' \in [Urls -> {"idle", "merge", "writing"}]
  BY <1>1, <1>2, <1>3, <1>4 DEF Return
<1>5. ASSUME NEW u \in Urls, Read(u) PROVE TypeInv'
  <2>1. /\ pc' = [pc EXCEPT ![u] = "merge"] /\ seen' = [seen EXCEPT ![u] = disk]
        /\ disturbed' \in BOOLEAN
        /\ UNCHANGED <<disk, owed, applied, latest>>
    BY <1>5 DEF Read
  <2>2. IsFile(disk)
    OBVIOUS
  <2> QED
    BY <1>2, <1>3, <2>1, <2>2
<1>6. ASSUME NEW u \in Urls, Refuse(u) PROVE TypeInv'
  BY <1>4, <1>6 DEF Refuse, history
<1>7. ASSUME NEW u \in Urls, UpToDate(u) PROVE TypeInv'
  BY <1>4, <1>7 DEF UpToDate, Done
<1>8. ASSUME NEW u \in Urls, Truncate(u) PROVE TypeInv'
  BY <1>1, <1>3, <1>8 DEF Truncate, history
<1>9. ASSUME NEW u \in Urls, Write(u) PROVE TypeInv'
  <2>1. IsFile(Merged(seen[u], u))
    BY MergedFile
  <2>2. IsFile(disk')
    BY <1>1, <1>9, <2>1 DEF Write
  <2> QED
    BY <1>4, <1>9, <2>2 DEF Write, Done
<1>10. ASSUME NEW u \in Urls, CutOff(u) PROVE TypeInv'
  BY <1>1, <1>4, <1>10 DEF CutOff
<1>11. CASE UserSaves
  <2>1. IsFile(disk')
    BY <1>11, HooksAssumption DEF UserSaves
  <2>2. owed' = disk' /\ applied' = {} /\ latest' = {} /\ disturbed' \in BOOLEAN
        /\ UNCHANGED <<pc, seen>>
    BY <1>11 DEF UserSaves, runVars
  <2> QED
    BY <2>1, <2>2
<1>12. CASE UNCHANGED vars
  BY <1>12 DEF vars, runVars, history
<1> QED
  BY <1>5, <1>6, <1>7, <1>8, <1>9, <1>10, <1>11, <1>12 DEF Next, Apply

(***************************************************************************)
(* Type correctness of the installer among other writers of the file.      *)
(***************************************************************************)
THEOREM TypeCorrect == Spec => []TypeOK
<1>1. TypeInv => TypeOK
  BY DEF TypeInv
<1> QED
  BY <1>1, InitTypeInv, NextTypeInv, PTL DEF Spec
-----------------------------------------------------------------------------
(***************************************************************************)
(* What f must hold when the user last saved file o, the addresses of done *)
(* were applied since then, and those of last were applied last.           *)
(***************************************************************************)
Good(f, o, done, last) ==
    /\ f.keys = o.keys
    /\ \A e \in Events : Unrelated(f.hooks[e]) = Unrelated(o.hooks[e])
    /\ \A u \in done, e \in Events :
          f.hooks[e] \in Seq(Entry) /\ Only(f.hooks[e], Mine(u)) = <<Ours(u, e)>>
    /\ o.kind = "broken" => f = o
    /\ \A u \in last : Merged(f, u) = f

(***************************************************************************)
(* Until something is disturbed there is one run at most: it has read what *)
(* is on disk, and what it will write stands for the file while that is    *)
(* empty.                                                                  *)
(***************************************************************************)
Alone ==
    ~disturbed =>
        /\ \A u, v \in Urls : pc[u] # "idle" /\ pc[v] # "idle" => u = v
        /\ (\A u \in Urls : pc[u] # "writing") => Good(disk, owed, applied, latest)
        /\ \A u \in Urls : pc[u] = "merge" => seen[u] = disk
        /\ \A u \in Urls : pc[u] = "writing" =>
              /\ disk.kind = "empty" /\ seen[u].kind # "broken"
              /\ Good(seen[u], owed, applied, latest)

\* A good file stays good when an address is applied, and the file that has
\* been merged is merged for good.
LEMMA GoodMerged ==
    ASSUME NEW u \in Urls, NEW f, NEW o, NEW done \in SUBSET Urls, NEW last,
           IsFile(f), f.kind # "broken", Good(f, o, done, last)
    PROVE  Good(Merged(f, u), o, done \cup {u}, {u})
<1> DEFINE g == Merged(f, u)
<1>1. /\ g.kind = "settings" /\ g.keys = f.keys
      /\ \A e \in Events : g.hooks[e] = MergeEvent(f.hooks[e], u, e)
  BY MergedFile
<1>2. \A e \in Events : f.hooks[e] = NotAList \/ f.hooks[e] \in Seq(Entry)
  BY DEF IsFile
<1>3. Merged(g, u) = g
  <2>1. ASSUME NEW e \in Events PROVE MergeEvent(g.hooks[e], u, e) = g.hooks[e]
    BY <1>1, <1>2, MergeOne
  <2>2. [e \in Events |-> MergeEvent(g.hooks[e], u, e)]
          = [e \in Events |-> MergeEvent(f.hooks[e], u, e)]
    BY <1>1, <2>1
  <2>3. /\ g = [kind |-> "settings", pretty |-> TRUE, keys |-> f.keys,
                hooks |-> [e \in Events |-> MergeEvent(f.hooks[e], u, e)]]
        /\ Merged(g, u) = [kind |-> "settings", pretty |-> TRUE, keys |-> g.keys,
                           hooks |-> [e \in Events |-> MergeEvent(g.hooks[e], u, e)]]
    BY DEF Merged
  <2> HIDE DEF g
  <2> QED
    BY <1>1, <2>2, <2>3
<1> HIDE DEF g
<1>4. ASSUME NEW e \in Events PROVE Unrelated(g.hooks[e]) = Unrelated(o.hooks[e])
  <2>1. Unrelated(g.hooks[e]) = Unrelated(f.hooks[e])
    BY <1>1, <1>2, MergeOne
  <2> QED
    BY <2>1 DEF Good
<1>5. ASSUME NEW w \in done \cup {u}, NEW e \in Events
      PROVE  g.hooks[e] \in Seq(Entry) /\ Only(g.hooks[e], Mine(w)) = <<Ours(w, e)>>
  <2>1. CASE w = u
    BY <1>1, <1>2, <2>1, MergeOne
  <2>2. CASE w # u
    <3>1. /\ w \in Urls \ {u} /\ f.hooks[e] \in Seq(Entry)
          /\ Only(f.hooks[e], Mine(w)) = <<Ours(w, e)>>
      BY <2>2 DEF Good
    <3> QED
      BY <1>1, <3>1, MergeOne
  <2> QED
    BY <2>1, <2>2
<1>6. g.keys = o.keys /\ o.kind # "broken"
  BY <1>1 DEF Good
<1> QED
  BY <1>3, <1>4, <1>5, <1>6 DEF Good, g

\* Nothing has been disturbed before the first run.
LEMMA InitAlone == Init => Alone
<1> SUFFICES ASSUME Init PROVE Alone
  OBVIOUS
<1>1. owed = disk /\ applied = {} /\ latest = {} /\ \A u \in Urls : pc[u] = "idle"
  BY DEF Init
<1>2. Good(disk, owed, applied, latest)
  BY <1>1 DEF Good
<1> QED
  BY <1>1, <1>2 DEF Alone

(***************************************************************************)
(* Every step keeps Alone, or disturbs.                                    *)
(***************************************************************************)
LEMMA NextAlone == TypeInv /\ Alone /\ [Next]_vars => Alone'
<1> SUFFICES ASSUME TypeInv, Alone, [Next]_vars, ~disturbed' PROVE Alone'
  BY DEF Alone
<1>1. pc \in [Urls -> {"idle", "merge", "writing"}] /\ DOMAIN seen = Urls
      /\ applied \in SUBSET Urls /\ \A u \in Urls : IsFile(seen[u])
  BY DEF TypeInv, TypeOK
<1>2. ASSUME NEW u \in Urls, Read(u) PROVE Alone'
  <2>1. /\ ~disturbed /\ \A v \in Urls \ {u} : pc[v] = "idle"
        /\ pc[u] = "idle"
        /\ pc' = [pc EXCEPT ![u] = "merge"] /\ seen' = [seen EXCEPT ![u] = disk]
        /\ UNCHANGED <<disk, owed, applied, latest>>
    BY <1>2 DEF Read, Others
  <2>2. Good(disk, owed, applied, latest)
    <3>1. \A v \in Urls : pc[v] # "writing"
      BY <2>1
    <3> QED
      BY <2>1, <3>1 DEF Alone
  <2>3. /\ pc'[u] = "merge" /\ seen'[u] = disk /\ \A v \in Urls \ {u} : pc'[v] = "idle"
    BY <1>1, <2>1
  <2> QED
    BY <2>1, <2>2, <2>3 DEF Alone
<1>3. ASSUME NEW u \in Urls, pc[u] # "idle", ~disturbed
      PROVE  \A v \in Urls \ {u} : pc[v] = "idle"
  BY <1>3 DEF Alone
<1>4. ASSUME NEW u \in Urls, Return(u)
      PROVE  pc'[u] = "idle" /\ \A v \in Urls \ {u} : pc'[v] = pc[v]
  BY <1>1, <1>4 DEF Return
<1>5. ASSUME NEW u \in Urls, \A v \in Urls : pc'[v] = "idle", Good(disk', owed', applied', latest')
      PROVE  Alone'
  BY <1>5 DEF Alone
<1>6. ASSUME NEW u \in Urls, Refuse(u) PROVE Alone'
  <2>1. /\ pc[u] = "merge" /\ ~disturbed /\ Return(u)
        /\ UNCHANGED <<disk, owed, applied, latest>>
    BY <1>6 DEF Refuse, history
  <2>2. \A v \in Urls \ {u} : pc[v] = "idle"
    BY <1>3, <2>1
  <2>3. Good(disk, owed, applied, latest)
    BY <2>1, <2>2 DEF Alone
  <2>4. \A v \in Urls : pc'[v] = "idle"
    BY <1>4, <2>1, <2>2
  <2> QED
    BY <1>5, <2>1, <2>3, <2>4
<1>7. ASSUME NEW u \in Urls, UpToDate(u) PROVE Alone'
  <2>1. /\ pc[u] = "merge" /\ ~disturbed /\ Return(u) /\ seen[u].kind # "broken"
        /\ Merged(seen[u], u) = seen[u]
        /\ applied' = applied \cup {u} /\ latest' = {u} /\ owed' = owed /\ disk' = disk
    BY <1>7 DEF UpToDate, Done, Parses
  <2>2. \A v \in Urls \ {u} : pc[v] = "idle"
    BY <1>3, <2>1
  <2>3. Good(disk, owed, applied, latest) /\ seen[u] = disk
    BY <2>1, <2>2 DEF Alone
  <2>4. Good(Merged(disk, u), owed, applied \cup {u}, {u})
    BY <1>1, <2>1, <2>3, GoodMerged
  <2>5. \A v \in Urls : pc'[v] = "idle"
    BY <1>4, <2>1, <2>2
  <2> QED
    BY <1>5, <2>1, <2>3, <2>4, <2>5
<1>8. ASSUME NEW u \in Urls, Truncate(u) PROVE Alone'
  <2>1. /\ pc[u] = "merge" /\ ~disturbed /\ seen[u].kind # "broken"
        /\ disk' = File("empty") /\ pc' = [pc EXCEPT ![u] = "writing"]
        /\ UNCHANGED <<seen, owed, applied, latest>>
    BY <1>8 DEF Truncate, Parses, history
  <2>2. \A v \in Urls \ {u} : pc[v] = "idle"
    BY <1>3, <2>1
  <2>3. Good(seen[u], owed, applied, latest)
    BY <2>1, <2>2 DEF Alone
  <2>4. pc'[u] = "writing" /\ \A v \in Urls \ {u} : pc'[v] = "idle"
    BY <1>1, <2>1, <2>2
  <2>5. disk'.kind = "empty"
    BY <2>1 DEF File
  <2> QED
    BY <2>1, <2>3, <2>4, <2>5 DEF Alone
<1>9. ASSUME NEW u \in Urls, Write(u) PROVE Alone'
  <2>1. /\ pc[u] = "writing" /\ ~disturbed /\ Return(u)
        /\ applied' = applied \cup {u} /\ latest' = {u} /\ owed' = owed
        /\ disk' = Merged(seen[u], u) \/ disk.kind # "empty"
    BY <1>9 DEF Write, Done
  <2>2. \A v \in Urls \ {u} : pc[v] = "idle"
    BY <1>3, <2>1
  <2>3. /\ disk.kind = "empty" /\ seen[u].kind # "broken"
        /\ Good(seen[u], owed, applied, latest)
    BY <2>1 DEF Alone
  <2>4. Good(Merged(seen[u], u), owed, applied \cup {u}, {u})
    BY <1>1, <2>3, GoodMerged
  <2>5. \A v \in Urls : pc'[v] = "idle"
    BY <1>4, <2>1, <2>2
  <2> QED
    BY <1>5, <2>1, <2>3, <2>4, <2>5
<1>10. ASSUME NEW u \in Urls, CutOff(u) PROVE Alone'
  BY <1>10 DEF CutOff
<1>11. CASE UserSaves
  <2>1. owed' = disk' /\ applied' = {} /\ latest' = {} /\ \A u \in Urls : pc'[u] = "idle"
    BY <1>11 DEF UserSaves, runVars
  <2>2. Good(disk', owed', applied', latest')
    BY <2>1 DEF Good
  <2> QED
    BY <2>1, <2>2 DEF Alone
<1>12. CASE UNCHANGED vars
  BY <1>12 DEF vars, runVars, history, Alone
<1> QED
  BY <1>2, <1>6, <1>7, <1>8, <1>9, <1>10, <1>11, <1>12 DEF Next, Apply

\* Together they are inductive.
LEMMA AlwaysAlone == Spec => [](TypeInv /\ Alone)
BY InitTypeInv, InitAlone, NextTypeInv, NextAlone, PTL DEF Spec

\* Between runs that nothing disturbed, the file is good.
LEMMA QuietIsGood == TypeInv /\ Alone /\ Quiet => Good(disk, owed, applied, latest)
BY DEF Alone, Quiet

(***************************************************************************)
(* What is not agentflash's survives every run that nothing disturbs: the  *)
(* keys outside "hooks" and, in order, the entries that mention no address *)
(* (applyHooks).                                                           *)
(***************************************************************************)
THEOREM UnrelatedSurvive == Spec => []UnrelatedKept
<1>1. TypeInv /\ Alone => UnrelatedKept
  BY QuietIsGood DEF UnrelatedKept, Good
<1> QED
  BY <1>1, AlwaysAlone, PTL

(***************************************************************************)
(* An address that was applied is in every event once, in an entry of its  *)
(* own (main.go:119).                                                      *)
(***************************************************************************)
THEOREM AppliedCorrect == Spec => []AppliedOnce
<1>1. TypeInv /\ Alone => AppliedOnce
  BY QuietIsGood DEF AppliedOnce, Good, Mine
<1> QED
  BY <1>1, AlwaysAlone, PTL

(***************************************************************************)
(* A file that does not parse is left alone.                               *)
(***************************************************************************)
THEOREM BrokenSurvives == Spec => []BrokenIsKept
<1>1. TypeInv /\ Alone => BrokenIsKept
  BY QuietIsGood DEF BrokenIsKept, Good
<1> QED
  BY <1>1, AlwaysAlone, PTL

(***************************************************************************)
(* Applying again what was applied last writes nothing.                    *)
(***************************************************************************)
THEOREM ReapplyIsIdle == Spec => ReapplyWritesNothing
<1> DEFINE Idle == \A u \in Urls :
                     pc[u] = "merge" /\ pc'[u] = "writing" /\ ~disturbed => u \notin latest
<1>1. TypeInv /\ Alone /\ [Next]_vars => [Idle]_vars
  <2> SUFFICES ASSUME TypeInv, Alone, Next, NEW u \in Urls,
                      pc[u] = "merge", pc'[u] = "writing", ~disturbed
               PROVE  u \notin latest
    OBVIOUS
  <2>1. pc \in [Urls -> {"idle", "merge", "writing"}]
    BY DEF TypeInv, TypeOK
  <2>2. Truncate(u)
    <3>1. pc'[u] # pc[u]
      OBVIOUS
    <3>2. PICK v \in Urls : Truncate(v)
      BY <2>1, <3>1 DEF Next, UserSaves, runVars, Apply, Read, Refuse, UpToDate, Done, Write,
                        CutOff, Return
    <3>3. v = u
      BY <2>1, <3>1, <3>2 DEF Truncate
    <3> QED
      BY <3>2, <3>3
  <2>3. Merged(seen[u], u) # seen[u]
    BY <2>2 DEF Truncate
  <2>4. \A v \in Urls : pc[v] # "writing"
    BY DEF Alone
  <2>5. seen[u] = disk /\ Good(disk, owed, applied, latest)
    BY <2>4 DEF Alone
  <2> QED
    BY <2>3, <2>5 DEF Good
<1> QED
  BY <1>1, AlwaysAlone, PTL DEF Spec, ReapplyWritesNothing
=============================================================================
