----------------------------- MODULE TreeProofs -----------------------------
(***************************************************************************)
(* Theorems about the live tree, for every directory, every bound and every *)
(* interleaving of the requests, their answers, the notices and the user.  *)
(***************************************************************************)
EXTENDS TreeView, SequenceInduction

(***************************************************************************)
(* Sequences: a set of positions has a last one, a function on 1 .. n is a *)
(* sequence, and what RemoveAt and the append of a mapped sequence leave.  *)
(***************************************************************************)
LEMMA LastPosition ==
    ASSUME NEW n \in Nat, NEW P, P \subseteq 1 .. n, P # {}
    PROVE  \E k \in P : \A j \in P : j <= k
<1> DEFINE T == {m \in Nat : \A Q \in SUBSET (1 .. m) : Q # {} => \E k \in Q : \A j \in Q : j <= k}
<1>1. 0 \in T
  <2>1. 1 .. 0 = {}
    OBVIOUS
  <2> QED
    BY <2>1
<1>2. ASSUME NEW m \in Nat, m \in T PROVE m + 1 \in T
  <2> SUFFICES ASSUME NEW Q \in SUBSET (1 .. m + 1), Q # {}
               PROVE  \E k \in Q : \A j \in Q : j <= k
    OBVIOUS
  <2>1. CASE m + 1 \in Q
    BY <2>1
  <2>2. CASE m + 1 \notin Q
    <3>1. Q \in SUBSET (1 .. m)
      BY <2>2
    <3> QED
      BY <1>2, <3>1
  <2> QED
    BY <2>1, <2>2
<1>3. Nat \subseteq T
  <2> HIDE DEF T
  <2> QED
    BY <1>1, <1>2, SetInduction
<1> QED
  BY <1>3

LEMMA FunctionIsSeq ==
    ASSUME NEW S, NEW n \in Nat, NEW f \in [1 .. n -> S]
    PROVE  f \in Seq(S) /\ Len(f) = n /\ DOMAIN f = 1 .. n
<1>1. f \in Seq(S)
  BY SeqDef
<1>2. Len(f) \in Nat /\ DOMAIN f = 1 .. Len(f)
  BY <1>1, LenProperties
<1>3. Len(f) = n
  BY <1>2
<1> QED
  BY <1>1, <1>2, <1>3

LEMMA AppendRange ==
    ASSUME NEW S, NEW s \in Seq(S), NEW e \in S
    PROVE  Range(Append(s, e)) = Range(s) \cup {e}
<1> DEFINE t == Append(s, e)
<1>1. /\ Len(s) \in Nat /\ DOMAIN s = 1 .. Len(s) /\ DOMAIN t = 1 .. Len(s) + 1
      /\ (\A i \in 1 .. Len(s) : t[i] = s[i]) /\ t[Len(s) + 1] = e
  BY AppendProperties, LenProperties
<1> HIDE DEF t
<1>2. /\ Len(s) + 1 \in 1 .. Len(s) + 1 /\ 1 .. Len(s) \subseteq 1 .. Len(s) + 1
      /\ \A i \in 1 .. Len(s) + 1 : i = Len(s) + 1 \/ i \in 1 .. Len(s)
  BY <1>1
<1>3. Range(t) \subseteq Range(s) \cup {e}
  BY <1>1, <1>2 DEF Range
<1>4. Range(s) \subseteq Range(t) /\ e \in Range(t)
  BY <1>1, <1>2 DEF Range
<1> QED
  BY <1>3, <1>4 DEF t

LEMMA RemoveAtLeaves ==
    ASSUME NEW S, NEW s \in Seq(S), NEW i \in 1 .. Len(s)
    PROVE  /\ RemoveAt(s, i) \in Seq(S) /\ Len(RemoveAt(s, i)) = Len(s) - 1
           /\ DOMAIN RemoveAt(s, i) = 1 .. Len(s) - 1
           /\ \A j \in 1 .. Len(s) - 1 : RemoveAt(s, i)[j] = IF j < i THEN s[j] ELSE s[j + 1]
<1> DEFINE a == SubSeq(s, 1, i - 1)
           b == SubSeq(s, i + 1, Len(s))
           n == Len(s)
<1>1. n \in Nat /\ i \in 1 .. n /\ \A j \in 1 .. n : s[j] \in S
  BY LenProperties, ElementOfSeq
<1> HIDE DEF n
<1>2. /\ a \in Seq(S) /\ Len(a) = i - 1 /\ \A j \in 1 .. i - 1 : a[j] = s[j]
  <2>1. (\A j \in 1 .. i - 1 : s[j] \in S) /\ 1 \in Int /\ i - 1 \in Int
    BY <1>1
  <2>2. /\ a \in Seq(S) /\ Len(a) = IF 1 <= i - 1 THEN i - 1 - 1 + 1 ELSE 0
        /\ \A j \in 1 .. i - 1 - 1 + 1 : a[j] = s[1 + j - 1]
    BY <2>1, SubSeqProperties
  <2> HIDE DEF a
  <2>3. i - 1 - 1 + 1 = i - 1 /\ \A j \in 1 .. i - 1 : 1 + j - 1 = j
    BY <1>1
  <2> QED
    BY <1>1, <2>2, <2>3
<1>3. /\ b \in Seq(S) /\ Len(b) = n - i /\ \A j \in 1 .. n - i : b[j] = s[i + j]
  <2>1. (\A j \in i + 1 .. n : s[j] \in S) /\ i + 1 \in Int /\ n \in Int
    BY <1>1
  <2>2. /\ b \in Seq(S) /\ Len(b) = IF i + 1 <= n THEN n - (i + 1) + 1 ELSE 0
        /\ \A j \in 1 .. n - (i + 1) + 1 : b[j] = s[(i + 1) + j - 1]
    BY <2>1, SubSeqProperties DEF n
  <2> HIDE DEF b
  <2>3. n - (i + 1) + 1 = n - i /\ \A j \in 1 .. n - i : (i + 1) + j - 1 = i + j
    BY <1>1
  <2> QED
    BY <1>1, <2>2, <2>3
<1> DEFINE c == a \o b
<1> HIDE DEF a, b
<1>4. /\ c \in Seq(S) /\ Len(c) = Len(a) + Len(b)
      /\ \A j \in 1 .. Len(a) + Len(b) : c[j] = IF j <= Len(a) THEN a[j] ELSE b[j - Len(a)]
  BY <1>2, <1>3, ConcatProperties
<1>5. RemoveAt(s, i) = c
  BY DEF RemoveAt, a, b, n
<1> HIDE DEF c
<1>6. Len(c) = n - 1
  BY <1>1, <1>2, <1>3, <1>4
<1>7. DOMAIN c = 1 .. n - 1
  BY <1>4, <1>6, LenProperties
<1>8. ASSUME NEW j \in 1 .. n - 1 PROVE c[j] = IF j < i THEN s[j] ELSE s[j + 1]
  <2>1. c[j] = IF j <= i - 1 THEN a[j] ELSE b[j - (i - 1)]
    BY <1>1, <1>2, <1>3, <1>4
  <2>2. CASE j < i
    BY <1>1, <1>2, <2>1, <2>2
  <2>3. CASE ~(j < i)
    <3>1. j - (i - 1) \in 1 .. n - i /\ i + (j - (i - 1)) = j + 1 /\ ~(j <= i - 1)
      BY <1>1, <2>3
    <3> QED
      BY <1>3, <2>1, <2>3, <3>1
  <2> QED
    BY <2>2, <2>3
<1> QED
  BY <1>4, <1>5, <1>6, <1>7, <1>8 DEF n
-----------------------------------------------------------------------------
(***************************************************************************)
(* Types.  Every list of rows holds nodes that were made, the registered   *)
(* node of a path has that path, only directories are opened, and answers  *)
(* are applied to nodes that exist.                                        *)
(***************************************************************************)
KidsMade == \A n \in DOMAIN node : node[n].kids \in Seq(DOMAIN node)
Named == \A p \in Path \cup {Root} : reg[p] # 0 => node[reg[p]].path = p

ViewOK ==
    /\ node \in Seq(Node)
    /\ reg \in [Path \cup {Root} -> 0 .. Len(node)]
    /\ KidsMade /\ Named

OpenOK ==
    /\ 1 \in DOMAIN node /\ node[1].path = Root
    /\ \A n \in DOMAIN node : node[n].expanded \/ node[n].ul => node[n].path \in AnyDir

ReqsOK ==
    /\ reqs \in Seq(Request)
    /\ \A i \in DOMAIN reqs : /\ reqs[i].to \in DOMAIN node
                             /\ reqs[i].answer \in Seq(Path) \cup {Unread, Failed}

DirNodes == {m \in DOMAIN node : node[m].path \in DirPath}
QueueOK == expandQ \in Seq(DirNodes)

RestOK ==
    /\ disk \subseteq Path /\ removed \subseteq DirPath /\ changes \in 0 .. MaxChanges
    /\ notices \in Seq(AnyDir)
    /\ pending \subseteq AnyDir /\ timer \in BOOLEAN
    /\ sweepQ \in Seq(AnyDir)
    /\ loops \subseteq {"expand", "sweep"} /\ sweeps \in 0 .. MaxSweeps
    /\ skipped \subseteq DOMAIN node

TypeInv == ViewOK /\ OpenOK /\ ReqsOK /\ QueueOK /\ RestOK

LEMMA PathTypes ==
    /\ Root \notin Path /\ AnyDir \subseteq Path \cup {Root} /\ DirPath \subseteq Path
    /\ Order \in Seq(Path) /\ IsInjective(Order) /\ Range(Order) = Path
    /\ \A p \in Path : Parent[p] \in AnyDir
    /\ Unread \in Seq(Path \cup {Root}) /\ Failed \in Seq(Path \cup {Root})
    /\ Unread \notin Seq(Path) /\ Failed \notin Seq(Path) /\ Unread # Failed
<1>1. Unread \in Seq(Path \cup {Root}) /\ Failed \in Seq(Path \cup {Root})
  BY DEF Unread, Failed
<1>2. Len(Unread) = 2 /\ Len(Failed) = 1 /\ Unread[1] = Root /\ Failed[1] = Root
  BY DEF Unread, Failed
<1>3. Root \notin Path
  BY TreeViewAssumption
<1>4. ASSUME NEW s \in Seq(Path), Len(s) >= 1 PROVE s[1] # Root
  BY <1>3, <1>4, ElementOfSeq, LenProperties
<1>5. Unread \notin Seq(Path) /\ Failed \notin Seq(Path) /\ Unread # Failed
  BY SMTT(30), <1>2, <1>4
<1> QED
  BY <1>1, <1>3, <1>5, TreeViewAssumption DEF Path, AnyDir

\* A node is one of its four fields; replacing some in a sequence of nodes.
LEMMA NodeFields ==
    ASSUME NEW s \in Seq(Node)
    PROVE  /\ Len(s) \in Nat /\ DOMAIN s = 1 .. Len(s)
           /\ \A m \in DOMAIN s : /\ s[m] \in Node
                                  /\ s[m].path \in Path \cup {Root}
                                  /\ s[m].expanded \in BOOLEAN /\ s[m].ul \in BOOLEAN
                                  /\ s[m].kids \in Seq(Nat)
<1>1. \A m \in DOMAIN s : s[m] \in Node
  BY LenProperties, ElementOfSeq
<1> QED
  BY <1>1, LenProperties DEF Node

LEMMA SetKids ==
    ASSUME NEW s \in Seq(Node), NEW n \in DOMAIN s, NEW x \in Seq(Nat)
    PROVE  LET t == [s EXCEPT ![n].kids = x]
           IN  /\ t \in Seq(Node) /\ Len(t) = Len(s) /\ DOMAIN t = DOMAIN s
               /\ \A m \in DOMAIN s : m # n => t[m] = s[m]
               /\ t[n].path = s[n].path /\ t[n].expanded = s[n].expanded
               /\ t[n].ul = s[n].ul /\ t[n].kids = x
<1> DEFINE e == [s[n] EXCEPT !.kids = x]
           t == [s EXCEPT ![n] = e]
<1>1. s[n] \in Node /\ n \in 1 .. Len(s) /\ DOMAIN s = 1 .. Len(s)
  BY NodeFields
<1>2. /\ e \in Node /\ e.path = s[n].path /\ e.expanded = s[n].expanded
      /\ e.ul = s[n].ul /\ e.kids = x
  BY <1>1 DEF Node
<1> HIDE DEF e
<1>3. /\ t \in Seq(Node) /\ Len(t) = Len(s)
      /\ \A j \in 1 .. Len(s) : t[j] = IF j = n THEN e ELSE s[j]
  BY <1>1, <1>2, ExceptSeq
<1>4. [s EXCEPT ![n].kids = x] = t
  BY DEF e
<1> HIDE DEF t
<1>5. DOMAIN t = DOMAIN s
  BY <1>1, <1>3, LenProperties
<1> QED
  BY <1>1, <1>2, <1>3, <1>4, <1>5

\* makeNode for every path of a list.
LEMMA NodesMade ==
    ASSUME node \in Seq(Node), NEW made \in Seq(Path)
    PROVE  /\ WithNew(made) \in Seq(Node) /\ Len(WithNew(made)) = Len(node) + Len(made)
           /\ DOMAIN WithNew(made) = 1 .. Len(node) + Len(made)
           /\ \A m \in DOMAIN node : WithNew(made)[m] = node[m]
           /\ \A k \in DOMAIN made : WithNew(made)[Len(node) + k] = NewNode(made[k])
<1> DEFINE f == [k \in DOMAIN made |-> NewNode(made[k])]
           t == node \o f
<1>1. Len(made) \in Nat /\ DOMAIN made = 1 .. Len(made) /\ \A k \in DOMAIN made : made[k] \in Path
  BY LenProperties, ElementOfSeq
<1>2. Len(node) \in Nat /\ DOMAIN node = 1 .. Len(node)
  BY LenProperties
<1>3. \A p \in Path : NewNode(p) \in Node
  <2>1. <<>> \in Seq(Nat)
    BY EmptySeq
  <2> QED
    BY <2>1 DEF NewNode, Node
<1>4. f \in [1 .. Len(made) -> Node]
  BY <1>1, <1>3
<1>5. \A k \in DOMAIN made : f[k] = NewNode(made[k])
  OBVIOUS
<1> HIDE DEF f
<1>6. f \in Seq(Node) /\ Len(f) = Len(made)
  BY <1>1, <1>4, FunctionIsSeq
<1>7. /\ t \in Seq(Node) /\ Len(t) = Len(node) + Len(f)
      /\ \A i \in 1 .. Len(node) + Len(f) : t[i] = IF i <= Len(node) THEN node[i] ELSE f[i - Len(node)]
  BY <1>6, ConcatProperties
<1>8. WithNew(made) = t
  BY DEF WithNew, f
<1> HIDE DEF t
<1>9. DOMAIN t = 1 .. Len(node) + Len(made)
  BY <1>6, <1>7, LenProperties
<1>10. \A m \in DOMAIN node : t[m] = node[m]
  BY <1>1, <1>2, <1>6, <1>7
<1>11. ASSUME NEW k \in DOMAIN made PROVE t[Len(node) + k] = NewNode(made[k])
  <2>1. /\ Len(node) + k \in 1 .. Len(node) + Len(f) /\ ~(Len(node) + k <= Len(node))
        /\ (Len(node) + k) - Len(node) = k
    BY <1>1, <1>2, <1>6
  <2> QED
    BY <1>5, <1>7, <2>1
<1> QED
  BY <1>6, <1>7, <1>8, <1>9, <1>10, <1>11

\* The number of the node made for a path.
LEMMA NumberMade ==
    ASSUME NEW made, NEW p \in Range(made)
    PROVE  \E k \in DOMAIN made : made[k] = p /\ IdOfNew(made, p) = Len(node) + k
<1>1. \E k \in DOMAIN made : made[k] = p
  BY DEF Range
<1> DEFINE c == CHOOSE k \in DOMAIN made : made[k] = p
<1>2. c \in DOMAIN made /\ made[c] = p
  BY <1>1
<1>3. IdOfNew(made, p) = Len(node) + c
  BY DEF IdOfNew
<1> QED
  BY <1>2, <1>3

\* have.get(name) finds a row of that name.
LEMMA RowFound ==
    ASSUME NEW kids, NEW n \in Nat, DOMAIN kids = 1 .. n, NEW p \in Range(PathsOf(kids))
    PROVE  \E k \in DOMAIN kids : RowOf(kids, p) = kids[k] /\ node[kids[k]].path = p
<1> DEFINE P == {k \in DOMAIN kids : PathsOf(kids)[k] = p}
           c == CHOOSE k \in DOMAIN kids : /\ PathsOf(kids)[k] = p
                                           /\ \A j \in DOMAIN kids : PathsOf(kids)[j] = p => j <= k
<1>1. DOMAIN PathsOf(kids) = DOMAIN kids /\ \A k \in DOMAIN kids : PathsOf(kids)[k] = node[kids[k]].path
  BY DEF PathsOf
<1>2. P \subseteq 1 .. n /\ P # {}
  BY <1>1 DEF Range
<1>3. PICK last \in P : \A j \in P : j <= last
  BY <1>2, LastPosition
<1>4. \E k \in DOMAIN kids : /\ PathsOf(kids)[k] = p
                             /\ \A j \in DOMAIN kids : PathsOf(kids)[j] = p => j <= k
  BY <1>3
<1>5. c \in DOMAIN kids /\ PathsOf(kids)[c] = p
  BY <1>4
<1>6. RowOf(kids, p) = kids[c]
  BY DEF RowOf
<1> QED
  BY <1>1, <1>5, <1>6

(***************************************************************************)
(* Rows are added below node n: a node is made and registered for each     *)
(* path of a list, the list of n changes, other paths at most lose theirs. *)
(***************************************************************************)
Grows(n, made) ==
    /\ made \in Seq(Path) /\ n \in DOMAIN node
    /\ node' \in Seq(Node) /\ Len(node') = Len(node) + Len(made)
    /\ \A m \in DOMAIN node : m # n => node'[m] = node[m]
    /\ node'[n].path = node[n].path /\ node'[n].expanded = node[n].expanded
    /\ node'[n].ul = node[n].ul /\ node'[n].kids \in Seq(DOMAIN node')
    /\ \A k \in DOMAIN made : node'[Len(node) + k] = NewNode(made[k])
    /\ reg' = [p \in Path \cup {Root} |-> reg'[p]]
    /\ \A p \in Range(made) : \E k \in DOMAIN made : made[k] = p /\ reg'[p] = Len(node) + k
    /\ \A p \in (Path \cup {Root}) \ Range(made) : reg'[p] \in {reg[p], 0}

\* The list of n, with nodes that exist and new ones.
LEMMA GrownList ==
    ASSUME node \in Seq(Node), NEW made \in Seq(Path), NEW n \in DOMAIN node,
           NEW kids \in Seq(1 .. Len(node) + Len(made)),
           node' = [WithNew(made) EXCEPT ![n].kids = kids]
    PROVE  /\ node' \in Seq(Node) /\ Len(node') = Len(node) + Len(made)
           /\ DOMAIN node' = 1 .. Len(node) + Len(made)
           /\ \A m \in DOMAIN node : m # n => node'[m] = node[m]
           /\ node'[n].path = node[n].path /\ node'[n].expanded = node[n].expanded
           /\ node'[n].ul = node[n].ul /\ node'[n].kids = kids
           /\ \A k \in DOMAIN made : node'[Len(node) + k] = NewNode(made[k])
<1> DEFINE s == WithNew(made)
<1>1. /\ s \in Seq(Node) /\ Len(s) = Len(node) + Len(made)
      /\ DOMAIN s = 1 .. Len(node) + Len(made)
      /\ \A m \in DOMAIN node : s[m] = node[m]
      /\ \A k \in DOMAIN made : s[Len(node) + k] = NewNode(made[k])
  BY NodesMade
<1>2. /\ Len(node) \in Nat /\ DOMAIN node = 1 .. Len(node)
      /\ Len(made) \in Nat /\ DOMAIN made = 1 .. Len(made)
  BY LenProperties
<1>3. kids \in Seq(Nat)
  <2>1. 1 .. Len(node) + Len(made) \subseteq Nat
    BY <1>2
  <2> QED
    BY <2>1, SeqMonotonic
<1>4. n \in DOMAIN s /\ \A m \in DOMAIN node : m \in DOMAIN s
  BY <1>1, <1>2
<1>5. \A k \in DOMAIN made : Len(node) + k \in DOMAIN s /\ Len(node) + k # n
  BY <1>1, <1>2
<1> HIDE DEF s
<1>6. /\ node' \in Seq(Node) /\ Len(node') = Len(s) /\ DOMAIN node' = DOMAIN s
      /\ \A m \in DOMAIN s : m # n => node'[m] = s[m]
      /\ node'[n].path = s[n].path /\ node'[n].expanded = s[n].expanded
      /\ node'[n].ul = s[n].ul /\ node'[n].kids = kids
  BY <1>1, <1>3, <1>4, SetKids DEF s
<1> QED
  BY <1>1, <1>4, <1>5, <1>6

LEMMA AppendGrows ==
    ASSUME ViewOK, NEW n \in DOMAIN node, NEW entries \in Seq(Path),
           AppendRows(n, entries)
    PROVE  Grows(n, entries)
<1> DEFINE ids == [k \in DOMAIN entries |-> Len(node) + k]
           ext == 1 .. Len(node) + Len(entries)
           kids == node[n].kids \o ids
<1>1. /\ Len(node) \in Nat /\ DOMAIN node = 1 .. Len(node) /\ node \in Seq(Node)
      /\ Len(entries) \in Nat /\ DOMAIN entries = 1 .. Len(entries)
  BY LenProperties DEF ViewOK
<1>2. ids \in [1 .. Len(entries) -> ext]
  BY <1>1
<1>3. ids \in Seq(ext)
  BY <1>1, <1>2, FunctionIsSeq
<1>4. node[n].kids \in Seq(ext)
  <2>1. node[n].kids \in Seq(DOMAIN node) /\ DOMAIN node \subseteq ext
    BY <1>1 DEF ViewOK, KidsMade
  <2> QED
    BY <2>1, SeqMonotonic
<1>5. kids \in Seq(ext)
  BY <1>3, <1>4, ConcatProperties
<1>6. node' = [WithNew(entries) EXCEPT ![n].kids = kids]
  <2>1. WithNew(entries)[n] = node[n]
    BY <1>1, NodesMade
  <2> QED
    BY <2>1 DEF AppendRows
<1> HIDE DEF kids, ids
<1>7. /\ node' \in Seq(Node) /\ Len(node') = Len(node) + Len(entries)
      /\ DOMAIN node' = ext
      /\ \A m \in DOMAIN node : m # n => node'[m] = node[m]
      /\ node'[n].path = node[n].path /\ node'[n].expanded = node[n].expanded
      /\ node'[n].ul = node[n].ul /\ node'[n].kids = kids
      /\ \A k \in DOMAIN entries : node'[Len(node) + k] = NewNode(entries[k])
  BY <1>1, <1>5, <1>6, GrownList
<1>8. /\ DOMAIN reg = Path \cup {Root}
      /\ DOMAIN reg' = DOMAIN reg
      /\ \A p \in DOMAIN reg : reg'[p] = IF p \in Range(entries) THEN IdOfNew(entries, p) ELSE reg[p]
  BY DEF AppendRows, ViewOK
<1>9. Range(entries) \subseteq DOMAIN reg
  BY <1>8, RangeOfSeq
<1>10. \A p \in Range(entries) : \E k \in DOMAIN entries : entries[k] = p /\ reg'[p] = Len(node) + k
  <2> TAKE p \in Range(entries)
  <2>1. reg'[p] = IdOfNew(entries, p)
    BY <1>8, <1>9
  <2> QED
    BY <2>1, NumberMade
<1>11. reg' = [p \in Path \cup {Root} |-> reg'[p]]
  BY <1>8 DEF AppendRows
<1> QED
  BY <1>5, <1>7, <1>8, <1>10, <1>11 DEF Grows

\* The paths of the rows in the list of n.
KidPaths(n) == Range(PathsOf(node[n].kids))

LEMMA KidPathsAre ==
    ASSUME ViewOK, NEW n \in DOMAIN node
    PROVE  /\ Len(node[n].kids) \in Nat /\ DOMAIN node[n].kids = 1 .. Len(node[n].kids)
           /\ DOMAIN PathsOf(node[n].kids) = DOMAIN node[n].kids
           /\ \A k \in DOMAIN node[n].kids : /\ node[n].kids[k] \in DOMAIN node
                                             /\ PathsOf(node[n].kids)[k] = node[node[n].kids[k]].path
           /\ KidPaths(n) = {node[c].path : c \in Range(node[n].kids)}
           /\ Range(node[n].kids) \subseteq DOMAIN node
           /\ KidPaths(n) \subseteq Path \cup {Root}
<1> DEFINE kids == node[n].kids
<1>1. kids \in Seq(DOMAIN node)
  BY DEF ViewOK, KidsMade
<1>2. /\ Len(kids) \in Nat /\ DOMAIN kids = 1 .. Len(kids)
      /\ \A k \in DOMAIN kids : kids[k] \in DOMAIN node
  BY <1>1, LenProperties, ElementOfSeq
<1>3. DOMAIN PathsOf(kids) = DOMAIN kids /\ \A k \in DOMAIN kids : PathsOf(kids)[k] = node[kids[k]].path
  BY DEF PathsOf
<1>4. \A m \in DOMAIN node : node[m].path \in Path \cup {Root}
  BY NodeFields DEF ViewOK
<1>5. KidPaths(n) = Range(PathsOf(kids))
  BY DEF KidPaths
<1> HIDE DEF kids
<1>6. KidPaths(n) = {node[c].path : c \in Range(kids)} /\ Range(kids) \subseteq DOMAIN node
  BY <1>2, <1>3, <1>5 DEF Range
<1>7. KidPaths(n) \subseteq Path \cup {Root}
  BY <1>4, <1>6
<1> QED
  BY <1>2, <1>3, <1>6, <1>7 DEF kids

\* The rows that reconcileChildren makes room for.
Missing(n, entries) == Only(entries, Path \ KidPaths(n))

LEMMA MissingAre ==
    ASSUME NEW n, NEW entries \in Seq(Path)
    PROVE  Missing(n, entries) \in Seq(Path) /\ Range(Missing(n, entries)) = Range(entries) \ KidPaths(n)
<1>1. Range(entries) \subseteq Path
  BY RangeOfSeq
<1> QED
  BY <1>1, OnlyRange DEF Missing

LEMMA ReconcileGrows ==
    ASSUME ViewOK, NEW n \in DOMAIN node, NEW entries \in Seq(Path),
           Reconcile(n, entries)
    PROVE  Grows(n, Missing(n, entries))
<1> DEFINE made == Missing(n, entries)
           had  == KidPaths(n)
           gone == had \ Range(entries)
           held == {RowOf(node[n].kids, p) : p \in had}
           rows == [k \in DOMAIN entries |->
                      IF entries[k] \in had THEN RowOf(node[n].kids, entries[k])
                                            ELSE IdOfNew(made, entries[k])]
           rest == Only(node[n].kids, DOMAIN node \ held)
           ext  == 1 .. Len(node) + Len(made)
           kids == rows \o rest
<1>1. made \in Seq(Path) /\ Range(made) = Range(entries) \ had
  BY MissingAre
<1>2. /\ node' = [WithNew(made) EXCEPT ![n].kids = kids]
      /\ reg' = [p \in DOMAIN reg |->
                     IF p \in Range(made) THEN IdOfNew(made, p)
                     ELSE IF p \in Purged(gone) THEN 0 ELSE reg[p]]
  BY DEF Reconcile, Missing, KidPaths
<1> HIDE DEF made
<1>3. /\ Len(node) \in Nat /\ DOMAIN node = 1 .. Len(node) /\ node \in Seq(Node)
      /\ Len(made) \in Nat /\ DOMAIN made = 1 .. Len(made)
      /\ Len(entries) \in Nat /\ DOMAIN entries = 1 .. Len(entries)
  BY <1>1, LenProperties DEF ViewOK
<1>4. DOMAIN node \subseteq ext /\ \A k \in DOMAIN made : Len(node) + k \in ext
  BY <1>3
<1>5. ASSUME NEW k \in DOMAIN entries PROVE rows[k] \in ext
  <2>1. CASE entries[k] \in had
    <3>1. /\ Len(node[n].kids) \in Nat /\ DOMAIN node[n].kids = 1 .. Len(node[n].kids)
          /\ \A i \in DOMAIN node[n].kids : node[n].kids[i] \in DOMAIN node
      BY KidPathsAre
    <3>2. \E i \in DOMAIN node[n].kids : RowOf(node[n].kids, entries[k]) = node[n].kids[i]
      BY <2>1, <3>1, RowFound DEF KidPaths
    <3> QED
      BY <1>4, <2>1, <3>1, <3>2
  <2>2. CASE entries[k] \notin had
    <3>1. entries[k] \in Range(made)
      BY <1>1, <2>2 DEF Range
    <3>2. \E i \in DOMAIN made : IdOfNew(made, entries[k]) = Len(node) + i
      BY <3>1, NumberMade
    <3> QED
      BY <1>4, <2>2, <3>2
  <2> QED
    BY <2>1, <2>2
<1>6. rows \in Seq(ext)
  <2>1. rows \in [1 .. Len(entries) -> ext]
    BY <1>3, <1>5
  <2> HIDE DEF rows
  <2> QED
    BY <1>3, <2>1, FunctionIsSeq
<1>7. rest \in Seq(ext)
  <2>1. node[n].kids \in Seq(DOMAIN node)
    BY DEF ViewOK, KidsMade
  <2>2. rest \in Seq(DOMAIN node)
    BY <2>1, OnlyRange
  <2> HIDE DEF rest
  <2> QED
    BY <1>4, <2>2, SeqMonotonic
<1> HIDE DEF rows, rest
<1>8. kids \in Seq(ext)
  BY <1>6, <1>7, ConcatProperties
<1> HIDE DEF kids
<1>9. /\ node' \in Seq(Node) /\ Len(node') = Len(node) + Len(made)
      /\ DOMAIN node' = ext
      /\ \A m \in DOMAIN node : m # n => node'[m] = node[m]
      /\ node'[n].path = node[n].path /\ node'[n].expanded = node[n].expanded
      /\ node'[n].ul = node[n].ul /\ node'[n].kids = kids
      /\ \A k \in DOMAIN made : node'[Len(node) + k] = NewNode(made[k])
  BY <1>1, <1>2, <1>3, <1>8, GrownList
<1>10. /\ DOMAIN reg = Path \cup {Root}
       /\ DOMAIN reg' = DOMAIN reg
       /\ \A p \in DOMAIN reg : reg'[p] = IF p \in Range(made) THEN IdOfNew(made, p)
                                          ELSE IF p \in Purged(gone) THEN 0 ELSE reg[p]
  BY <1>2 DEF ViewOK
<1>11. Range(made) \subseteq DOMAIN reg
  BY <1>1, <1>10, RangeOfSeq
<1>12. \A p \in Range(made) : \E k \in DOMAIN made : made[k] = p /\ reg'[p] = Len(node) + k
  <2> TAKE p \in Range(made)
  <2>1. reg'[p] = IdOfNew(made, p)
    BY <1>10, <1>11
  <2> QED
    BY <2>1, NumberMade
<1>13. reg' = [p \in Path \cup {Root} |-> reg'[p]]
  BY <1>2, <1>10
<1>14. Grows(n, made)
  BY <1>1, <1>8, <1>9, <1>10, <1>12, <1>13 DEF Grows
<1> QED
  BY <1>14 DEF made

LEMMA ClearGrows ==
    ASSUME ViewOK, NEW n \in DOMAIN node, ClearRows(n)
    PROVE  Grows(n, <<>>)
<1> DEFINE nil == <<>>
<1>1. nil \in Seq(Path) /\ nil \in Seq(Nat) /\ Len(nil) = 0 /\ DOMAIN nil = {}
  BY EmptySeq
<1>2. nil \in Seq(DOMAIN node) /\ Range(nil) = {}
  BY EmptySeq DEF Range
<1>3. node' = [node EXCEPT ![n].kids = nil] /\ reg' = reg
  BY DEF ClearRows
<1>4. node \in Seq(Node) /\ Len(node) \in Nat /\ reg = [p \in Path \cup {Root} |-> reg[p]]
  BY LenProperties DEF ViewOK
<1> HIDE DEF nil
<1>5. /\ node' \in Seq(Node) /\ Len(node') = Len(node) /\ DOMAIN node' = DOMAIN node
      /\ \A m \in DOMAIN node : m # n => node'[m] = node[m]
      /\ node'[n].path = node[n].path /\ node'[n].expanded = node[n].expanded
      /\ node'[n].ul = node[n].ul /\ node'[n].kids = nil
  <2>1. node \in Seq(Node) /\ nil \in Seq(Nat)
    BY <1>1, <1>4
  <2> QED
    BY <1>3, <2>1, SetKids
<1>6. Grows(n, nil)
  <2>1. reg' = [p \in Path \cup {Root} |-> reg'[p]] /\ \A p : reg'[p] \in {reg[p], 0}
    BY <1>3, <1>4
  <2>2. Len(node') = Len(node) + Len(nil) /\ node'[n].kids \in Seq(DOMAIN node')
    BY <1>1, <1>2, <1>4, <1>5
  <2> QED
    BY <1>1, <1>2, <1>5, <2>1, <2>2 DEF Grows
<1> QED
  BY <1>6 DEF nil

\* Nodes keep their path for ever.
PathsStay ==
    /\ DOMAIN node \subseteq DOMAIN node'
    /\ \A m \in DOMAIN node : node'[m].path = node[m].path

\* The old nodes keep all but the list of n, the new ones come behind them.
GrownNodes(n, made) ==
    /\ Len(node) \in Nat /\ DOMAIN node = 1 .. Len(node)
    /\ Len(made) \in Nat /\ DOMAIN made = 1 .. Len(made)
    /\ DOMAIN node' = 1 .. Len(node) + Len(made)
    /\ n \in DOMAIN node /\ DOMAIN node \subseteq DOMAIN node'
    /\ \A k \in DOMAIN made : /\ Len(node) + k \in DOMAIN node'
                              /\ Len(node) + k \notin DOMAIN node
                              /\ made[k] \in Path
                              /\ node'[Len(node) + k].path = made[k]
                              /\ node'[Len(node) + k].kids \in Seq({})
                              /\ node'[Len(node) + k].ul = FALSE
                              /\ node'[Len(node) + k].expanded = FALSE
    /\ \A m \in DOMAIN node' : m \in DOMAIN node \/ \E k \in DOMAIN made : m = Len(node) + k
    /\ \A m \in DOMAIN node : /\ node'[m].path = node[m].path
                              /\ node'[m].expanded = node[m].expanded
                              /\ node'[m].ul = node[m].ul
                              /\ m # n => node'[m].kids = node[m].kids

LEMMA GrowsNodes ==
    ASSUME ViewOK, NEW n, NEW made, Grows(n, made)
    PROVE  GrownNodes(n, made)
<1>1. /\ Len(node) \in Nat /\ DOMAIN node = 1 .. Len(node)
      /\ Len(made) \in Nat /\ DOMAIN made = 1 .. Len(made)
      /\ DOMAIN node' = 1 .. Len(node) + Len(made)
      /\ \A k \in DOMAIN made : made[k] \in Path
  BY LenProperties, ElementOfSeq DEF Grows, ViewOK
<1>2. \A k \in DOMAIN made : node'[Len(node) + k] = NewNode(made[k])
  BY DEF Grows
<1>3. \A p : NewNode(p).path = p /\ NewNode(p).kids \in Seq({}) /\ NewNode(p).ul = FALSE
             /\ NewNode(p).expanded = FALSE
  BY EmptySeq DEF NewNode
<1>4. \A k \in DOMAIN made : Len(node) + k \in DOMAIN node' /\ Len(node) + k \notin DOMAIN node
  BY <1>1
<1>5. ASSUME NEW m \in DOMAIN node', m \notin DOMAIN node
      PROVE  \E k \in DOMAIN made : m = Len(node) + k
  <2>1. m - Len(node) \in DOMAIN made /\ m = Len(node) + (m - Len(node))
    BY <1>1, <1>5
  <2> QED
    BY <2>1
<1>6. n \in DOMAIN node /\ DOMAIN node \subseteq DOMAIN node'
  BY <1>1 DEF Grows
<1>7. \A m \in DOMAIN node : /\ node'[m].path = node[m].path
                             /\ node'[m].expanded = node[m].expanded
                             /\ node'[m].ul = node[m].ul
                             /\ m # n => node'[m].kids = node[m].kids
  BY DEF Grows
<1>8. \A k \in DOMAIN made : /\ node'[Len(node) + k].path = made[k]
                             /\ node'[Len(node) + k].kids \in Seq({})
                             /\ node'[Len(node) + k].ul = FALSE
                             /\ node'[Len(node) + k].expanded = FALSE
  <2> TAKE k \in DOMAIN made
  <2>1. node'[Len(node) + k] = NewNode(made[k])
    BY <1>2
  <2> QED
    BY <1>3, <2>1
<1> QED
  BY <1>1, <1>4, <1>5, <1>6, <1>7, <1>8 DEF GrownNodes

LEMMA GrowsType ==
    ASSUME ViewOK, NEW n, NEW made, Grows(n, made)
    PROVE  ViewOK' /\ PathsStay
<1>0. GrownNodes(n, made)
  BY GrowsNodes
<1>1. /\ Len(node) \in Nat /\ DOMAIN node = 1 .. Len(node)
      /\ Len(made) \in Nat /\ DOMAIN made = 1 .. Len(made)
      /\ DOMAIN node' = 1 .. Len(node) + Len(made)
      /\ n \in DOMAIN node /\ DOMAIN node \subseteq DOMAIN node'
      /\ \A k \in DOMAIN made : /\ Len(node) + k \in DOMAIN node'
                                /\ node'[Len(node) + k].path = made[k]
                                /\ node'[Len(node) + k].kids \in Seq({})
      /\ \A m \in DOMAIN node' : m \in DOMAIN node \/ \E k \in DOMAIN made : m = Len(node) + k
      /\ \A m \in DOMAIN node : /\ node'[m].path = node[m].path
                                /\ m # n => node'[m].kids = node[m].kids
  BY <1>0 DEF GrownNodes
<1>2. /\ node' \in Seq(Node) /\ Len(node') = Len(node) + Len(made)
      /\ node'[n].kids \in Seq(DOMAIN node')
      /\ \A p \in Range(made) : \E k \in DOMAIN made : made[k] = p /\ reg'[p] = Len(node) + k
      /\ \A p \in (Path \cup {Root}) \ Range(made) : reg'[p] \in {reg[p], 0}
  BY DEF Grows
<1>3. ASSUME NEW m \in DOMAIN node' PROVE node'[m].kids \in Seq(DOMAIN node')
  <2>1. CASE m = n
    BY <1>2, <2>1
  <2>2. CASE m \in DOMAIN node /\ m # n
    <3>1. node[m].kids \in Seq(DOMAIN node)
      BY <2>2 DEF ViewOK, KidsMade
    <3>2. node[m].kids \in Seq(DOMAIN node')
      BY <1>1, <3>1, SeqMonotonic
    <3> QED
      BY <1>1, <2>2, <3>2
  <2>3. CASE \E k \in DOMAIN made : m = Len(node) + k
    BY <1>1, <2>3, SeqMonotonic
  <2> QED
    BY <1>1, <2>1, <2>2, <2>3
<1>4. ASSUME NEW p \in Path \cup {Root}
      PROVE  reg'[p] \in 0 .. Len(node') /\ (reg'[p] # 0 => node'[reg'[p]].path = p)
  <2>1. CASE p \in Range(made)
    <3>1. PICK k \in DOMAIN made : made[k] = p /\ reg'[p] = Len(node) + k
      BY <1>2, <2>1
    <3> QED
      BY <1>1, <1>2, <3>1
  <2>2. CASE p \notin Range(made)
    <3>1. reg'[p] = reg[p] \/ reg'[p] = 0
      BY <1>2, <2>2
    <3>2. reg[p] \in 0 .. Len(node) /\ (reg[p] # 0 => node[reg[p]].path = p)
      BY DEF ViewOK, Named
    <3>3. reg[p] # 0 => reg[p] \in DOMAIN node
      BY <1>1, <3>2
    <3> QED
      BY <1>1, <1>2, <3>1, <3>2, <3>3
  <2> QED
    BY <2>1, <2>2
<1>5. reg' \in [Path \cup {Root} -> 0 .. Len(node')]
  <2>1. \E g : reg' = [p \in Path \cup {Root} |-> g[p]]
    BY DEF Grows
  <2> QED
    BY <1>2, <1>4, <2>1
<1>6. ViewOK'
  BY <1>2, <1>3, <1>4, <1>5 DEF ViewOK, KidsMade, Named
<1>7. PathsStay
  BY <1>1 DEF PathsStay
<1> QED
  BY <1>6, <1>7

\* A button or a row is clicked: flags change, no row comes or goes.
Flips ==
    /\ node' \in Seq(Node) /\ Len(node') = Len(node) /\ reg' = reg
    /\ \A m \in DOMAIN node : /\ node'[m].path = node[m].path /\ node'[m].kids = node[m].kids
                              /\ node[m].ul => node'[m].ul

LEMMA FlipsType ==
    ASSUME ViewOK, Flips
    PROVE  ViewOK' /\ PathsStay /\ DOMAIN node' = DOMAIN node
<1>1. DOMAIN node' = 1 .. Len(node) /\ DOMAIN node = 1 .. Len(node)
  BY LenProperties DEF Flips, ViewOK
<1>2. KidsMade'
  BY <1>1 DEF Flips, ViewOK, KidsMade
<1>3. ASSUME NEW p \in Path \cup {Root}, reg'[p] # 0 PROVE node'[reg'[p]].path = p
  <2>1. reg'[p] = reg[p] /\ reg[p] \in 0 .. Len(node) /\ node[reg[p]].path = p
    BY <1>3 DEF Flips, ViewOK, Named
  <2>2. reg[p] \in DOMAIN node
    BY <1>1, <1>3, <2>1, LenProperties DEF ViewOK
  <2> QED
    BY <2>1, <2>2 DEF Flips
<1>4. reg' \in [Path \cup {Root} -> 0 .. Len(node')]
  BY DEF Flips, ViewOK
<1>5. Named'
  BY <1>3 DEF Named
<1>6. PathsStay
  BY <1>1 DEF PathsStay, Flips
<1> QED
  BY <1>1, <1>2, <1>4, <1>5, <1>6 DEF ViewOK, Flips

LEMMA ToggleFlips ==
    ASSUME ViewOK, NEW n \in DOMAIN node, NEW then, Toggle(n, then)
    PROVE  /\ Flips /\ node'[n].ul
           /\ \A m \in DOMAIN node : m # n => node'[m] = node[m]
<1> DEFINE e == [node[n] EXCEPT !.expanded = ~@, !.ul = TRUE]
           t == [node EXCEPT ![n] = e]
<1>1. node[n] \in Node /\ DOMAIN node = 1 .. Len(node) /\ Len(node) \in Nat
  BY NodeFields DEF ViewOK
<1>2. e \in Node /\ e.path = node[n].path /\ e.kids = node[n].kids /\ e.ul = TRUE
  BY <1>1 DEF Node
<1>3. node' = t /\ reg' = reg
  BY DEF Toggle
<1> HIDE DEF e
<1>4. /\ t \in Seq(Node) /\ Len(t) = Len(node)
      /\ \A j \in 1 .. Len(node) : t[j] = IF j = n THEN e ELSE node[j]
  BY <1>1, <1>2, ExceptSeq DEF ViewOK
<1> HIDE DEF t
<1>5. \A m \in DOMAIN node : m # n => node'[m] = node[m]
  BY <1>1, <1>3, <1>4
<1>6. node'[n] = e
  BY <1>1, <1>3, <1>4
<1> QED
  BY <1>1, <1>2, <1>3, <1>4, <1>5, <1>6 DEF Flips

LEMMA CollapseFlips ==
    ASSUME ViewOK, node' = [n \in DOMAIN node |->
                              [node[n] EXCEPT !.expanded = @ /\ n \notin RegisteredDirs]],
           reg' = reg
    PROVE  /\ Flips
           /\ \A m \in DOMAIN node : /\ node'[m].ul = node[m].ul
                                     /\ node'[m].expanded => node[m].expanded
<1>1. DOMAIN node = 1 .. Len(node) /\ Len(node) \in Nat /\ \A m \in DOMAIN node : node[m] \in Node
  BY NodeFields DEF ViewOK
<1>2. ASSUME NEW m \in DOMAIN node
      PROVE  /\ node'[m] \in Node /\ node'[m].path = node[m].path /\ node'[m].kids = node[m].kids
             /\ node'[m].ul = node[m].ul /\ (node'[m].expanded => node[m].expanded)
  <2> DEFINE b == node[m].expanded /\ m \notin RegisteredDirs
             e == [node[m] EXCEPT !.expanded = b]
  <2>1. node'[m] = e
    OBVIOUS
  <2>2. b \in BOOLEAN /\ (b => node[m].expanded)
    OBVIOUS
  <2> HIDE DEF b
  <2>3. e \in Node /\ e.path = node[m].path /\ e.kids = node[m].kids /\ e.ul = node[m].ul
        /\ e.expanded = b
    BY <1>1, <2>2 DEF Node
  <2> QED
    BY <2>1, <2>2, <2>3
<1>3. node' \in [1 .. Len(node) -> Node]
  BY <1>1, <1>2
<1>4. node' \in Seq(Node) /\ Len(node') = Len(node)
  BY <1>1, <1>3, FunctionIsSeq
<1> QED
  BY <1>1, <1>2, <1>4 DEF Flips
-----------------------------------------------------------------------------
(***************************************************************************)
(* Requests.  A new one is unread, and is a refresh of a registered node   *)
(* with a list, the first fetch of a node without one, or the button's     *)
(* request for the root, whose answer is dropped.                          *)
(***************************************************************************)
NewRequest(r) ==
    /\ r \in Request /\ r.answer = Unread
    /\ r.to \in DOMAIN node /\ node[r.to].path = r.dir
    /\ \/ r.use = "refresh" /\ node[r.to].ul
       \/ r.use = "toggle" /\ ~node[r.to].ul /\ ~node[r.to].expanded
       \/ r.use = "ignore" /\ r.dir = Root

\* Requests are put behind those that are out, a first fetch by itself.
MoreAsked ==
    /\ reqs' \in Seq(Request) /\ Len(reqs) \in Nat /\ Len(reqs') \in Nat
    /\ DOMAIN reqs = 1 .. Len(reqs) /\ DOMAIN reqs' = 1 .. Len(reqs')
    /\ Len(reqs) <= Len(reqs')
    /\ \A i \in 1 .. Len(reqs) : reqs'[i] = reqs[i]
    /\ \A i \in Len(reqs) + 1 .. Len(reqs') :
          NewRequest(reqs'[i]) /\ (reqs'[i].use = "toggle" => Len(reqs') = Len(reqs) + 1)

LEMMA NoneAsked ==
    ASSUME ReqsOK, reqs' = reqs
    PROVE  MoreAsked
BY LenProperties DEF ReqsOK, MoreAsked

LEMMA AskFields ==
    ASSUME NEW use \in {"render", "toggle", "refresh", "ignore"}, NEW dir \in AnyDir, NEW to \in Nat,
           NEW then \in {"none", "expand", "sweep"}
    PROVE  LET r == Ask(use, dir, to, then)
           IN  /\ r \in Request /\ r.use = use /\ r.dir = dir /\ r.to = to
               /\ r.then = then /\ r.answer = Unread
<1>1. Unread \in Seq(Path \cup {Root})
  BY PathTypes
<1> QED
  BY <1>1 DEF Ask, Request

LEMMA OneAsked ==
    ASSUME ReqsOK, NEW r, NewRequest(r), reqs' = Append(reqs, r)
    PROVE  MoreAsked /\ \A i \in Len(reqs) + 1 .. Len(reqs') : reqs'[i] = r
<1>1. reqs \in Seq(Request) /\ r \in Request
  BY DEF ReqsOK, NewRequest
<1>2. /\ reqs' \in Seq(Request) /\ Len(reqs') = Len(reqs) + 1
      /\ \A i \in 1 .. Len(reqs) : reqs'[i] = reqs[i]
      /\ reqs'[Len(reqs) + 1] = r
  BY <1>1, AppendProperties
<1>3. /\ Len(reqs) \in Nat /\ DOMAIN reqs = 1 .. Len(reqs)
      /\ Len(reqs') \in Nat /\ DOMAIN reqs' = 1 .. Len(reqs')
  BY <1>1, <1>2, LenProperties
<1>4. \A i \in Len(reqs) + 1 .. Len(reqs') : i = Len(reqs) + 1
  BY <1>2, <1>3
<1> QED
  BY <1>2, <1>3, <1>4 DEF MoreAsked

\* A refresh of a directory that is there, expanded and has its list.
LEMMA RefreshIsNew ==
    ASSUME ViewOK, NEW d \in AnyDir, Refreshable(d), NEW then \in {"none", "expand", "sweep"}
    PROVE  /\ NewRequest(Ask("refresh", d, reg[d], then))
           /\ reg[d] \in DOMAIN node /\ node[reg[d]].path = d /\ node[reg[d]].ul
<1>1. d \in Path \cup {Root}
  BY PathTypes
<1>2. reg[d] \in 1 .. Len(node) /\ node[reg[d]].path = d /\ node[reg[d]].ul
  BY <1>1, LenProperties DEF ViewOK, Named, Refreshable
<1>3. reg[d] \in DOMAIN node /\ reg[d] \in Nat
  BY <1>2, LenProperties DEF ViewOK
<1> QED
  BY <1>2, <1>3, AskFields DEF NewRequest

LEMMA ToggleAsks ==
    ASSUME ViewOK, ReqsOK, NEW n \in DOMAIN node, node[n].path \in DirPath,
           NEW then \in {"none", "expand", "sweep"}, Toggle(n, then)
    PROVE  /\ MoreAsked
           /\ Len(reqs) \in Nat
           /\ ~node[n].expanded /\ ~node[n].ul =>
                 /\ Len(reqs') = Len(reqs) + 1
                 /\ reqs'[Len(reqs')] = Ask("toggle", node[n].path, n, then)
           /\ node[n].expanded \/ node[n].ul => reqs' = reqs
<1> DEFINE r == Ask("toggle", node[n].path, n, then)
<1>1. n \in Nat /\ node[n].path \in AnyDir
  BY LenProperties DEF ViewOK, AnyDir
<1>2. CASE ~node[n].expanded /\ ~node[n].ul
  <2>1. reqs' = Append(reqs, r)
    BY <1>2 DEF Toggle
  <2>2. NewRequest(r)
    BY <1>1, <1>2, AskFields DEF NewRequest
  <2> HIDE DEF r
  <2>3. MoreAsked
    BY <2>1, <2>2, OneAsked
  <2>4. reqs \in Seq(Request) /\ r \in Request
    BY <2>2 DEF ReqsOK, NewRequest
  <2>5. Len(reqs') = Len(reqs) + 1 /\ reqs'[Len(reqs) + 1] = r
    BY <2>1, <2>4, AppendProperties
  <2> QED
    BY <1>2, <2>3, <2>5 DEF r
<1>3. CASE node[n].expanded \/ node[n].ul
  <2>1. reqs' = reqs
    BY <1>3 DEF Toggle
  <2> QED
    BY <1>3, <2>1, NoneAsked
<1>4. Len(reqs) \in Nat
  BY LenProperties DEF ReqsOK
<1> QED
  BY <1>2, <1>3, <1>4

LEMMA SweepAsks ==
    ASSUME TypeInv, SweepNext
    PROVE  /\ MoreAsked /\ \A i \in Len(reqs) + 1 .. Len(reqs') : reqs'[i].use # "toggle"
           /\ Head(sweepQ) \in AnyDir
           /\ Head(sweepQ) # Root /\ Refreshable(Head(sweepQ)) =>
                 \E i \in Len(reqs) + 1 .. Len(reqs') :
                    reqs'[i].to = reg[Head(sweepQ)] /\ reqs'[i].use = "refresh"
<1>1. sweepQ # <<>> /\ sweepQ \in Seq(AnyDir)
  BY DEF SweepNext, TypeInv, RestOK
<1>2. Head(sweepQ) \in AnyDir
  BY <1>1, HeadTailProperties
<1> DEFINE d == Head(sweepQ)
<1>3. reqs' = IF d = Root THEN Append(reqs, Ask("ignore", Root, 1, "sweep"))
              ELSE IF Refreshable(d) THEN Append(reqs, Ask("refresh", d, reg[d], "sweep"))
              ELSE reqs
  BY DEF SweepNext
<1> HIDE DEF d
<1>4. ReqsOK /\ ViewOK /\ 1 \in DOMAIN node /\ node[1].path = Root
  BY DEF TypeInv, OpenOK
<1>5. CASE d = Root
  <2>1. NewRequest(Ask("ignore", Root, 1, "sweep")) /\ Ask("ignore", Root, 1, "sweep").use = "ignore"
    BY <1>4, AskFields DEF NewRequest, AnyDir
  <2> QED
    BY <1>2, <1>3, <1>4, <1>5, <2>1, OneAsked DEF d
<1>6. CASE d # Root /\ Refreshable(d)
  <2>1. NewRequest(Ask("refresh", d, reg[d], "sweep")) /\ reg[d] \in Nat
    BY <1>2, <1>4, <1>6, RefreshIsNew, LenProperties DEF d, ViewOK
  <2>2. Ask("refresh", d, reg[d], "sweep").use = "refresh" /\ Ask("refresh", d, reg[d], "sweep").to = reg[d]
    BY <1>2, <2>1, AskFields DEF d
  <2>3. MoreAsked /\ \A i \in Len(reqs) + 1 .. Len(reqs') : reqs'[i] = Ask("refresh", d, reg[d], "sweep")
    BY <1>3, <1>4, <1>6, <2>1, OneAsked
  <2>4. Len(reqs') \in Len(reqs) + 1 .. Len(reqs')
    <3>1. /\ reqs' = Append(reqs, Ask("refresh", d, reg[d], "sweep")) /\ reqs \in Seq(Request)
          /\ Ask("refresh", d, reg[d], "sweep") \in Request
      BY <1>3, <1>4, <1>6, <2>1 DEF ReqsOK, NewRequest
    <3>2. Len(reqs') = Len(reqs) + 1 /\ Len(reqs) \in Nat
      BY <3>1, AppendProperties, LenProperties
    <3> QED
      BY <3>2
  <2> QED
    BY <1>2, <2>2, <2>3, <2>4 DEF d
<1>7. CASE d # Root /\ ~Refreshable(d)
  <2>1. reqs' = reqs
    BY <1>3, <1>7
  <2>2. \A i \in Len(reqs) + 1 .. Len(reqs') : FALSE
    BY <1>4, <2>1, LenProperties DEF ReqsOK
  <2> QED
    BY <1>2, <1>4, <1>7, <2>1, <2>2, NoneAsked DEF d
<1> QED
  BY <1>5, <1>6, <1>7

LEMMA TimerAsks ==
    ASSUME TypeInv, TimerFires
    PROVE  /\ MoreAsked /\ \A i \in Len(reqs) + 1 .. Len(reqs') : reqs'[i].use # "toggle"
           /\ \A d \in pending : Refreshable(d) =>
                 \E i \in Len(reqs) + 1 .. Len(reqs') :
                    reqs'[i].to = reg[d] /\ reqs'[i].use = "refresh"
<1> DEFINE all == <<Root>> \o Order
           dirs == {d \in pending : Refreshable(d)}
           due == Only(all, dirs)
           more == [i \in DOMAIN due |-> Ask("refresh", due[i], reg[due[i]], "none")]
<1>1. reqs' = reqs \o more
  BY DEF TimerFires
<1>2. all \in Seq(Path \cup {Root}) /\ Range(all) = Path \cup {Root}
  <2> DEFINE one == <<Root>>
  <2>1. one \in Seq(Path \cup {Root}) /\ DOMAIN one = {1} /\ one[1] = Root
    OBVIOUS
  <2>2. Order \in Seq(Path \cup {Root}) /\ Range(Order) = Path
    BY PathTypes, SeqMonotonic
  <2> HIDE DEF one
  <2>3. Range(one) = {Root}
    BY <2>1 DEF Range
  <2>4. one \o Order \in Seq(Path \cup {Root}) /\ Range(one \o Order) = Path \cup {Root}
    BY <2>1, <2>2, <2>3, ConcatProperties, RangeConcatenation
  <2> QED
    BY <2>4 DEF one, all
<1> HIDE DEF all
<1>3. dirs \subseteq AnyDir /\ dirs \subseteq Path \cup {Root}
  BY PathTypes DEF TypeInv, RestOK
<1>4. due \in Seq(Path \cup {Root}) /\ Range(due) = dirs
  BY <1>2, <1>3, OnlyRange
<1> HIDE DEF due
<1>5. Len(due) \in Nat /\ DOMAIN due = 1 .. Len(due) /\ \A i \in DOMAIN due : due[i] \in dirs
  BY <1>4, LenProperties DEF Range
<1>6. ASSUME NEW i \in DOMAIN due
      PROVE  /\ more[i] \in Request /\ NewRequest(more[i])
             /\ more[i].use = "refresh" /\ more[i].to = reg[due[i]]
  <2>1. due[i] \in AnyDir /\ Refreshable(due[i])
    BY <1>3, <1>5
  <2>2. more[i] = Ask("refresh", due[i], reg[due[i]], "none")
    OBVIOUS
  <2>3. NewRequest(more[i]) /\ reg[due[i]] \in DOMAIN node
    BY <2>1, <2>2, RefreshIsNew DEF TypeInv
  <2>4. reg[due[i]] \in Nat
    BY <2>3, LenProperties DEF TypeInv, ViewOK
  <2>5. more[i].use = "refresh" /\ more[i].to = reg[due[i]]
    BY <2>1, <2>2, <2>4, AskFields
  <2> QED
    BY <2>3, <2>5 DEF NewRequest
<1>7. more \in [1 .. Len(due) -> Request]
  BY <1>5, <1>6
<1> HIDE DEF more
<1>8. more \in Seq(Request) /\ Len(more) = Len(due) /\ DOMAIN more = DOMAIN due
  BY <1>5, <1>7, FunctionIsSeq
<1>9. reqs \in Seq(Request)
  BY DEF TypeInv, ReqsOK
<1>10. /\ reqs' \in Seq(Request) /\ Len(reqs') = Len(reqs) + Len(more)
       /\ \A i \in 1 .. Len(reqs) + Len(more) :
             reqs'[i] = IF i <= Len(reqs) THEN reqs[i] ELSE more[i - Len(reqs)]
  <2>1. /\ reqs \o more \in Seq(Request) /\ Len(reqs \o more) = Len(reqs) + Len(more)
        /\ \A i \in 1 .. Len(reqs) + Len(more) :
              (reqs \o more)[i] = IF i <= Len(reqs) THEN reqs[i] ELSE more[i - Len(reqs)]
    BY <1>8, <1>9, ConcatProperties
  <2> QED
    BY <1>1, <2>1
<1>11. /\ Len(reqs) \in Nat /\ DOMAIN reqs = 1 .. Len(reqs)
       /\ Len(reqs') \in Nat /\ DOMAIN reqs' = 1 .. Len(reqs')
  BY <1>9, <1>10, LenProperties
<1>12. \A i \in 1 .. Len(reqs) : reqs'[i] = reqs[i]
  BY <1>5, <1>8, <1>10, <1>11
<1>13. \A i \in Len(reqs) + 1 .. Len(reqs') : NewRequest(reqs'[i]) /\ reqs'[i].use # "toggle"
  <2> TAKE i \in Len(reqs) + 1 .. Len(reqs')
  <2>1. i - Len(reqs) \in DOMAIN due /\ reqs'[i] = more[i - Len(reqs)]
    BY <1>5, <1>8, <1>10, <1>11
  <2> QED
    BY <1>6, <2>1
<1>14. MoreAsked
  BY <1>5, <1>8, <1>10, <1>11, <1>12, <1>13 DEF MoreAsked
<1>15. ASSUME NEW d \in pending, Refreshable(d)
       PROVE  \E i \in Len(reqs) + 1 .. Len(reqs') :
                 reqs'[i].to = reg[d] /\ reqs'[i].use = "refresh"
  <2>1. PICK k \in DOMAIN due : due[k] = d
    BY <1>4, <1>15 DEF Range
  <2>2. /\ Len(reqs) + k \in Len(reqs) + 1 .. Len(reqs')
        /\ reqs'[Len(reqs) + k] = more[(Len(reqs) + k) - Len(reqs)]
        /\ (Len(reqs) + k) - Len(reqs) = k
    BY <1>5, <1>8, <1>10, <1>11
  <2> QED
    BY <1>6, <2>1, <2>2
<1> QED
  BY <1>13, <1>14, <1>15
-----------------------------------------------------------------------------
(***************************************************************************)
(* The type invariant.                                                     *)
(***************************************************************************)
LEMMA TypeInvTypes == TypeInv => TypeOK
<1> SUFFICES ASSUME TypeInv PROVE TypeOK
  OBVIOUS
<1>1. expandQ \in Seq(DOMAIN node)
  <2>1. DirNodes \subseteq DOMAIN node /\ expandQ \in Seq(DirNodes)
    BY DEF TypeInv, QueueOK, DirNodes
  <2> QED
    BY <2>1, SeqMonotonic
<1>2. sweepQ \in Seq(AnyDir) /\ notices \in Seq(AnyDir)
  BY DEF TypeInv, RestOK
<1> QED
  BY <1>1, <1>2 DEF TypeInv, ViewOK, ReqsOK, RestOK, TypeOK

LEMMA DirsStay == ASSUME PathsStay PROVE DirNodes \subseteq DirNodes'
BY DEF PathsStay, DirNodes

LEMMA QueueStays == ASSUME QueueOK, PathsStay, expandQ' = expandQ PROVE QueueOK'
<1>1. DirNodes \subseteq DirNodes' /\ expandQ \in Seq(DirNodes)
  BY DirsStay DEF QueueOK
<1>2. expandQ \in Seq(DirNodes')
  BY <1>1, SeqMonotonic
<1> QED
  BY <1>2 DEF QueueOK

LEMMA UnopenedDirs ==
    ASSUME ViewOK', NEW n \in DOMAIN node'
    PROVE  Unopened(n) \in Seq(DirNodes')
<1> DEFINE list == [k \in DOMAIN node'[n].kids |-> reg'[node'[node'[n].kids[k]].path]]
           dirs == {m \in DOMAIN node' : node'[m].path \in DirPath /\ ~node'[m].expanded}
<1>1. node'[n].kids \in Seq(DOMAIN node')
  BY DEF ViewOK, KidsMade
<1>2. /\ Len(node'[n].kids) \in Nat /\ DOMAIN node'[n].kids = 1 .. Len(node'[n].kids)
      /\ \A k \in DOMAIN node'[n].kids : node'[n].kids[k] \in DOMAIN node'
  BY <1>1, LenProperties, ElementOfSeq
<1>3. \A m \in DOMAIN node' : node'[m].path \in Path \cup {Root}
  <2>1. node' \in Seq(Node)
    BY DEF ViewOK
  <2>2. \A s \in Seq(Node) : \A m \in DOMAIN s : s[m].path \in Path \cup {Root}
    BY NodeFields
  <2> QED
    BY <2>1, <2>2
<1>4. \A p \in Path \cup {Root} : reg'[p] \in Nat
  <2>1. Len(node') \in Nat /\ reg' \in [Path \cup {Root} -> 0 .. Len(node')]
    BY LenProperties DEF ViewOK
  <2> QED
    BY <2>1
<1>5. list \in [1 .. Len(node'[n].kids) -> Nat]
  BY <1>2, <1>3, <1>4
<1>6. list \in Seq(Nat)
  BY <1>2, <1>5, FunctionIsSeq
<1> HIDE DEF list
<1>7. Only(list, dirs) \in Seq(Nat) /\ Range(Only(list, dirs)) \subseteq dirs
  BY <1>6, OnlyRange
<1>8. dirs \subseteq DirNodes'
  BY DEF DirNodes
<1>9. Unopened(n) = Only(list, dirs)
  BY DEF Unopened, list
<1> HIDE DEF dirs
<1>10. Only(list, dirs) \in Seq(Range(Only(list, dirs))) /\ Range(Only(list, dirs)) \subseteq DirNodes'
  BY <1>7, <1>8, SeqOfRange
<1> QED
  BY <1>9, <1>10, SeqMonotonic

\* A request is one that was out or a new one, behind those.
LEMMA OldOrNew ==
    ASSUME MoreAsked, NEW i \in DOMAIN reqs'
    PROVE  \/ i \in DOMAIN reqs /\ reqs'[i] = reqs[i]
           \/ /\ i \in Len(reqs) + 1 .. Len(reqs') /\ NewRequest(reqs'[i])
              /\ \A j \in DOMAIN reqs : j < i
<1>1. /\ Len(reqs) \in Nat /\ Len(reqs') \in Nat
      /\ DOMAIN reqs = 1 .. Len(reqs) /\ DOMAIN reqs' = 1 .. Len(reqs')
  BY DEF MoreAsked
<1>2. i \in 1 .. Len(reqs) \/ i \in Len(reqs) + 1 .. Len(reqs')
  BY <1>1
<1>3. \A j \in 1 .. Len(reqs) : reqs'[j] = reqs[j]
  BY DEF MoreAsked
<1>4. \A j \in Len(reqs) + 1 .. Len(reqs') : NewRequest(reqs'[j])
  BY DEF MoreAsked
<1>5. CASE i \in Len(reqs) + 1 .. Len(reqs')
  <2>1. \A j \in DOMAIN reqs : j < i
    BY <1>1, <1>5
  <2> QED
    BY <1>4, <1>5, <2>1
<1> QED
  BY <1>1, <1>2, <1>3, <1>5

\* New requests and nodes that stay.
LEMMA MoreReqsOK ==
    ASSUME ReqsOK, MoreAsked, PathsStay
    PROVE  ReqsOK'
<1> SUFFICES ASSUME NEW i \in DOMAIN reqs'
             PROVE  reqs'[i].to \in DOMAIN node' /\ reqs'[i].answer \in Seq(Path) \cup {Unread, Failed}
  BY DEF ReqsOK, MoreAsked
<1>1. CASE i \in DOMAIN reqs /\ reqs'[i] = reqs[i]
  BY <1>1 DEF ReqsOK, PathsStay
<1>2. CASE NewRequest(reqs'[i])
  BY <1>2 DEF NewRequest, PathsStay
<1> QED
  BY <1>1, <1>2, OldOrNew

LEMMA SameReqsOK ==
    ASSUME ReqsOK, reqs' = reqs, PathsStay
    PROVE  ReqsOK'
BY NoneAsked, MoreReqsOK

LEMMA SameViewOK ==
    ASSUME ViewOK, node' = node, reg' = reg
    PROVE  ViewOK' /\ PathsStay /\ (OpenOK => OpenOK')
<1>1. ViewOK'
  BY DEF ViewOK, KidsMade, Named
<1>2. PathsStay /\ (OpenOK => OpenOK')
  BY DEF PathsStay, OpenOK
<1> QED
  BY <1>1, <1>2

LEMMA NoteSkippedType ==
    ASSUME TypeInv, NEW due, due \subseteq AnyDir, NoteSkipped(due)
    PROVE  skipped' \subseteq DOMAIN node
<1>1. skipped \subseteq DOMAIN node
  BY DEF TypeInv, RestOK
<1>2. ASSUME NEW e \in due, reg[e] # 0 PROVE reg[e] \in DOMAIN node
  <2>1. e \in Path \cup {Root}
    BY PathTypes
  <2>2. reg[e] \in 0 .. Len(node) /\ Len(node) \in Nat /\ DOMAIN node = 1 .. Len(node)
    BY <2>1, LenProperties DEF TypeInv, ViewOK
  <2> QED
    BY <1>2, <2>2
<1> QED
  BY <1>1, <1>2 DEF NoteSkipped

LEMMA InitTypeInv == Init => TypeInv
<1> SUFFICES ASSUME Init PROVE TypeInv
  OBVIOUS
<1> DEFINE first == [path |-> Root, expanded |-> TRUE, ul |-> TRUE, kids |-> <<>>]
           ask == Ask("render", Root, 1, "none")
<1>1. first \in Node /\ first.path = Root /\ first.kids \in Seq({})
  BY EmptySeq DEF Node
<1>2. node = <<first>> /\ reqs = <<ask>>
  BY DEF Init
<1>3. /\ ask \in Request /\ ask.use = "render" /\ ask.dir = Root /\ ask.to = 1
      /\ ask.then = "none" /\ ask.answer = Unread
  BY AskFields DEF AnyDir
<1> HIDE DEF first, ask
<1>4. node \in Seq(Node) /\ Len(node) = 1 /\ DOMAIN node = {1} /\ node[1] = first
  BY <1>1, <1>2
<1>5. reqs \in Seq(Request) /\ DOMAIN reqs = {1} /\ reqs[1] = ask
  BY <1>2, <1>3
<1>6. reg = [p \in Path \cup {Root} |-> IF p = Root THEN 1 ELSE 0]
  BY DEF Init
<1>7. ViewOK
  <2>1. KidsMade
    BY <1>1, <1>4, SeqMonotonic DEF KidsMade
  <2>2. Named
    BY <1>1, <1>4, <1>6 DEF Named
  <2> QED
    BY <1>4, <1>6, <2>1, <2>2 DEF ViewOK
<1>8. OpenOK
  BY <1>1, <1>4 DEF OpenOK, AnyDir
<1>9. ReqsOK
  BY <1>3, <1>4, <1>5 DEF ReqsOK
<1>10. QueueOK
  BY EmptySeq DEF Init, QueueOK
<1>11. RestOK
  <2>1. notices \in Seq(AnyDir) /\ sweepQ \in Seq(AnyDir)
    BY EmptySeq DEF Init
  <2>2. MaxChanges \in Nat /\ MaxSweeps \in Nat /\ \A s \in FirstDisks : s \subseteq Path
    BY TreeViewAssumption
  <2>3. /\ disk \in FirstDisks /\ removed = {} /\ changes = 0 /\ pending = {} /\ timer = FALSE
        /\ loops = {} /\ sweeps = 0 /\ skipped = {}
    BY DEF Init
  <2>4. changes \in 0 .. MaxChanges /\ sweeps \in 0 .. MaxSweeps
    BY <2>2, <2>3
  <2> QED
    BY <2>1, <2>2, <2>3, <2>4 DEF RestOK
<1> QED
  BY <1>7, <1>8, <1>9, <1>10, <1>11 DEF TypeInv

\* The watched directory changes, or a loop or a notice moves on: no node does.
LEMMA FsTypeInv ==
    ASSUME TypeInv, NEW p \in Path, FsCreate(p) \/ FsRemove(p)
    PROVE  TypeInv'
<1>1. /\ node' = node /\ reg' = reg /\ reqs' = reqs /\ expandQ' = expandQ
      /\ pending' = pending /\ timer' = timer /\ sweepQ' = sweepQ /\ loops' = loops
      /\ sweeps' = sweeps /\ skipped' = skipped
  BY DEF FsCreate, FsRemove, viewVars, loopVars
<1>2. ViewOK' /\ OpenOK' /\ ReqsOK' /\ QueueOK'
  BY <1>1, SameViewOK, SameReqsOK, QueueStays DEF TypeInv
<1>3. disk' \subseteq Path /\ removed' \subseteq DirPath /\ changes' \in 0 .. MaxChanges
  <2>1. disk \subseteq Path /\ removed \subseteq DirPath /\ changes \in 0 .. MaxChanges /\ MaxChanges \in Nat
    BY TreeViewAssumption DEF TypeInv, RestOK
  <2>2. changes < MaxChanges /\ changes' = changes + 1
    BY DEF FsCreate, FsRemove
  <2>3. disk' \subseteq disk \cup {p} /\ removed' \subseteq removed \cup (DirPath \cap {p})
    BY DEF FsCreate, FsRemove
  <2> QED
    BY <2>1, <2>2, <2>3
<1>4. notices' \in Seq(AnyDir)
  <2>1. notices \in Seq(AnyDir) /\ Parent[p] \in AnyDir
    BY PathTypes DEF TypeInv, RestOK
  <2>2. notices' = Append(notices, Parent[p]) \/ notices' = notices
    BY DEF FsCreate, FsRemove, Notify
  <2> QED
    BY <2>1, <2>2, AppendProperties
<1>5. RestOK'
  BY <1>1, <1>3, <1>4 DEF TypeInv, RestOK
<1> QED
  BY <1>2, <1>5 DEF TypeInv

LEMMA NoticeTypeInv ==
    ASSUME TypeInv, Notice
    PROVE  TypeInv'
<1>1. /\ node' = node /\ reg' = reg /\ reqs' = reqs /\ expandQ' = expandQ
      /\ disk' = disk /\ removed' = removed /\ changes' = changes
      /\ sweepQ' = sweepQ /\ loops' = loops /\ sweeps' = sweeps /\ skipped' = skipped
  BY DEF Notice, viewVars, loopVars, diskVars
<1>2. ViewOK' /\ OpenOK' /\ ReqsOK' /\ QueueOK'
  BY <1>1, SameViewOK, SameReqsOK, QueueStays DEF TypeInv
<1>3. notices \in Seq(AnyDir) /\ notices # <<>> /\ pending \subseteq AnyDir
  BY DEF Notice, TypeInv, RestOK
<1>4. Head(notices) \in AnyDir /\ Tail(notices) \in Seq(AnyDir)
  BY <1>3, HeadTailProperties
<1>5. notices' \in Seq(AnyDir) /\ pending' \subseteq AnyDir /\ timer' \in BOOLEAN
  BY <1>3, <1>4 DEF Notice
<1>6. RestOK'
  BY <1>1, <1>5 DEF TypeInv, RestOK
<1> QED
  BY <1>2, <1>6 DEF TypeInv

LEMMA TimerTypeInv ==
    ASSUME TypeInv, TimerFires
    PROVE  TypeInv'
<1>1. /\ node' = node /\ reg' = reg /\ expandQ' = expandQ /\ notices' = notices
      /\ disk' = disk /\ removed' = removed /\ changes' = changes
      /\ sweepQ' = sweepQ /\ loops' = loops /\ sweeps' = sweeps
      /\ pending' = {} /\ timer' = FALSE /\ NoteSkipped(pending)
  BY DEF TimerFires, viewVars, loopVars, diskVars
<1>2. ViewOK' /\ OpenOK' /\ QueueOK' /\ PathsStay
  BY <1>1, SameViewOK, QueueStays DEF TypeInv
<1>3. ReqsOK'
  BY <1>2, TimerAsks, MoreReqsOK DEF TypeInv
<1>4. skipped' \subseteq DOMAIN node'
  <2>1. pending \subseteq AnyDir
    BY DEF TypeInv, RestOK
  <2> QED
    BY <1>1, <2>1, NoteSkippedType
<1>5. RestOK'
  BY <1>1, <1>4 DEF TypeInv, RestOK
<1> QED
  BY <1>2, <1>3, <1>5 DEF TypeInv

LEMMA SweepTypeInv ==
    ASSUME TypeInv, SweepStart \/ SweepNext \/ SweepEnd
    PROVE  TypeInv'
<1>1. /\ node' = node /\ reg' = reg /\ expandQ' = expandQ /\ notices' = notices
      /\ disk' = disk /\ removed' = removed /\ changes' = changes
      /\ pending' = pending /\ timer' = timer
  BY DEF SweepStart, SweepNext, SweepEnd, viewVars, loopVars, diskVars
<1>2. ViewOK' /\ OpenOK' /\ QueueOK' /\ PathsStay
  BY <1>1, SameViewOK, QueueStays DEF TypeInv
<1>3. ReqsOK'
  <2>1. MoreAsked
    <3>1. CASE SweepNext
      BY <3>1, SweepAsks
    <3>2. CASE SweepStart \/ SweepEnd
      BY <3>2, NoneAsked DEF SweepStart, SweepEnd, TypeInv
    <3> QED
      BY <3>1, <3>2
  <2> QED
    BY <1>2, <2>1, MoreReqsOK DEF TypeInv
<1>4. RestOK'
  <2>0. RestOK
    BY DEF TypeInv
  <2>1. CASE SweepStart
    <3> DEFINE open == {p \in Path : reg[p] # 0 /\ node[reg[p]].expanded}
               two == <<Root, Root>>
    <3>1. open \subseteq AnyDir
      <4> SUFFICES ASSUME NEW p \in Path, reg[p] # 0, node[reg[p]].expanded PROVE p \in AnyDir
        OBVIOUS
      <4>1. reg[p] \in 0 .. Len(node) /\ Len(node) \in Nat /\ DOMAIN node = 1 .. Len(node)
            /\ node[reg[p]].path = p
        BY LenProperties DEF TypeInv, ViewOK, Named
      <4>2. reg[p] \in DOMAIN node
        BY <4>1
      <4> QED
        BY <4>1, <4>2 DEF TypeInv, OpenOK
    <3>2. Only(Order, open) \in Seq(Path) /\ Range(Only(Order, open)) \subseteq open
      BY PathTypes, OnlyRange
    <3>3. Only(Order, open) \in Seq(AnyDir)
      <4>1. Only(Order, open) \in Seq(Range(Only(Order, open))) /\ Range(Only(Order, open)) \subseteq AnyDir
        BY <3>1, <3>2, SeqOfRange
      <4> QED
        BY <4>1, SeqMonotonic
    <3>4. two \in Seq(AnyDir)
      BY DEF AnyDir
    <3>5. sweepQ' = two \o Only(Order, open)
      BY <2>1 DEF SweepStart
    <3> HIDE DEF two, open
    <3>6. sweepQ' \in Seq(AnyDir)
      BY <3>3, <3>4, <3>5, ConcatProperties
    <3>7. sweeps' \in 0 .. MaxSweeps
      <4>1. sweeps \in 0 .. MaxSweeps /\ MaxSweeps \in Nat /\ sweeps < MaxSweeps /\ sweeps' = sweeps + 1
        BY <2>0, <2>1, TreeViewAssumption DEF SweepStart, RestOK
      <4> QED
        BY <4>1
    <3>8. loops' \subseteq {"expand", "sweep"} /\ skipped' = skipped
      BY <2>0, <2>1 DEF SweepStart, RestOK
    <3> QED
      BY <1>1, <2>0, <3>6, <3>7, <3>8 DEF RestOK
  <2>2. CASE SweepNext
    <3>1. sweepQ # <<>> /\ sweepQ \in Seq(AnyDir) /\ sweepQ' = Tail(sweepQ)
      BY <2>0, <2>2 DEF SweepNext, RestOK
    <3>2. Head(sweepQ) \in AnyDir /\ sweepQ' \in Seq(AnyDir)
      BY <3>1, HeadTailProperties
    <3>3. NoteSkipped({Head(sweepQ)} \ {Root}) /\ {Head(sweepQ)} \ {Root} \subseteq AnyDir
      BY <2>2, <3>2 DEF SweepNext
    <3>4. skipped' \subseteq DOMAIN node'
      BY <1>1, <3>3, NoteSkippedType
    <3>5. loops' = loops /\ sweeps' = sweeps
      BY <2>2 DEF SweepNext
    <3> QED
      BY <1>1, <2>0, <3>2, <3>4, <3>5 DEF RestOK
  <2>3. CASE SweepEnd
    <3>1. loops' \subseteq loops /\ sweeps' = sweeps /\ sweepQ' = sweepQ /\ skipped' = skipped
      BY <2>3 DEF SweepEnd
    <3> QED
      BY <1>1, <2>0, <3>1 DEF RestOK
  <2> QED
    BY <2>1, <2>2, <2>3
<1> QED
  BY <1>2, <1>3, <1>4 DEF TypeInv

LEMMA ToggleTypeInv ==
    ASSUME TypeInv, NEW n \in DirNodes, NEW then \in {"none", "expand", "sweep"}, Toggle(n, then)
    PROVE  ViewOK' /\ OpenOK' /\ ReqsOK' /\ PathsStay
<1>1. n \in DOMAIN node /\ node[n].path \in DirPath /\ node[n].path \in AnyDir
  BY DEF DirNodes, AnyDir
<1>2. /\ Flips /\ \A m \in DOMAIN node : m # n => node'[m] = node[m]
  BY <1>1, ToggleFlips DEF TypeInv
<1>3. ViewOK' /\ PathsStay /\ DOMAIN node' = DOMAIN node
  BY <1>2, FlipsType DEF TypeInv
<1>4. OpenOK'
  <2>1. 1 \in DOMAIN node' /\ node'[1].path = Root
    BY <1>3 DEF TypeInv, OpenOK, PathsStay
  <2>2. ASSUME NEW m \in DOMAIN node', node'[m].expanded \/ node'[m].ul
        PROVE  node'[m].path \in AnyDir
    <3>1. CASE m = n
      BY <1>1, <1>3, <3>1 DEF PathsStay
    <3>2. CASE m # n
      BY <1>2, <1>3, <2>2, <3>2 DEF TypeInv, OpenOK
    <3> QED
      BY <3>1, <3>2
  <2> QED
    BY <2>1, <2>2 DEF OpenOK
<1>5. MoreAsked
  BY <1>1, ToggleAsks DEF TypeInv
<1> QED
  BY <1>3, <1>4, <1>5, MoreReqsOK DEF TypeInv

LEMMA ClickTypeInv ==
    ASSUME TypeInv, NEW n \in DOMAIN node, Click(n)
    PROVE  TypeInv'
<1>1. n \in DirNodes /\ Toggle(n, "none") /\ expandQ' = expandQ
  BY DEF Click, DirNodes, loopVars
<1>2. ViewOK' /\ OpenOK' /\ ReqsOK' /\ PathsStay
  BY <1>1, ToggleTypeInv
<1>3. QueueOK'
  BY <1>1, <1>2, QueueStays DEF TypeInv
<1>4. RestOK'
  BY <1>2 DEF Click, diskVars, loopVars, TypeInv, RestOK, PathsStay
<1> QED
  BY <1>2, <1>3, <1>4 DEF TypeInv

LEMMA CollapseTypeInv ==
    ASSUME TypeInv, CollapseAll
    PROVE  TypeInv'
<1>1. reg' = reg /\ reqs' = reqs /\ expandQ' = expandQ
  BY DEF CollapseAll, loopVars
<1>2. /\ Flips
      /\ \A m \in DOMAIN node : node'[m].ul = node[m].ul /\ (node'[m].expanded => node[m].expanded)
  BY CollapseFlips DEF CollapseAll, TypeInv
<1>3. ViewOK' /\ PathsStay /\ DOMAIN node' = DOMAIN node
  BY <1>2, FlipsType DEF TypeInv
<1>4. OpenOK'
  BY <1>2, <1>3 DEF OpenOK, TypeInv, PathsStay
<1>5. ReqsOK' /\ QueueOK'
  BY <1>1, <1>3, SameReqsOK, QueueStays DEF TypeInv
<1>6. RestOK'
  BY <1>3 DEF CollapseAll, diskVars, loopVars, TypeInv, RestOK
<1> QED
  BY <1>3, <1>4, <1>5, <1>6 DEF TypeInv

LEMMA RegisteredAreDirs ==
    ASSUME ViewOK
    PROVE  RegisteredDirs \subseteq DirNodes
<1> SUFFICES ASSUME NEW p \in DirPath, reg[p] # 0 PROVE reg[p] \in DirNodes
  BY DEF RegisteredDirs
<1>1. p \in Path \cup {Root}
  BY PathTypes
<1>2. reg[p] \in 0 .. Len(node) /\ Len(node) \in Nat /\ DOMAIN node = 1 .. Len(node)
      /\ node[reg[p]].path = p
  BY <1>1, LenProperties DEF ViewOK, Named
<1> QED
  BY <1>2 DEF DirNodes

LEMMA ExpandAllTypeInv ==
    ASSUME TypeInv, ExpandAll
    PROVE  TypeInv'
<1>1. /\ node' = node /\ reg' = reg /\ reqs' = reqs
      /\ expandQ' = Only([i \in DOMAIN Order |-> reg[Order[i]]],
                         {n \in RegisteredDirs : ~node[n].expanded})
  BY DEF ExpandAll, viewVars
<1>2. ViewOK' /\ OpenOK' /\ ReqsOK' /\ PathsStay
  BY <1>1, SameViewOK, SameReqsOK DEF TypeInv
<1>3. QueueOK'
  <2> DEFINE list == [i \in DOMAIN Order |-> reg[Order[i]]]
             dirs == {n \in RegisteredDirs : ~node[n].expanded}
  <2>1. Len(Order) \in Nat /\ DOMAIN Order = 1 .. Len(Order) /\ \A i \in DOMAIN Order : Order[i] \in Path
    BY PathTypes, LenProperties, ElementOfSeq
  <2>2. \A p \in Path : reg[p] \in Nat
    <3>1. Len(node) \in Nat /\ reg \in [Path \cup {Root} -> 0 .. Len(node)]
      BY LenProperties DEF TypeInv, ViewOK
    <3> QED
      BY <3>1
  <2>3. list \in [1 .. Len(Order) -> Nat]
    BY <2>1, <2>2
  <2>4. dirs \subseteq DirNodes
    BY RegisteredAreDirs DEF TypeInv
  <2>5. expandQ' = Only(list, dirs)
    BY <1>1
  <2> HIDE DEF list, dirs
  <2>6. list \in Seq(Nat)
    BY <2>1, <2>3, FunctionIsSeq
  <2>7. Only(list, dirs) \in Seq(Nat) /\ Range(Only(list, dirs)) \subseteq DirNodes
    BY <2>4, <2>6, OnlyRange
  <2>8. Only(list, dirs) \in Seq(Range(Only(list, dirs)))
    BY <2>7, SeqOfRange
  <2>9. expandQ' \in Seq(DirNodes)
    BY <2>5, <2>7, <2>8, SeqMonotonic
  <2> QED
    BY <1>1, <2>9 DEF QueueOK, DirNodes
<1>4. RestOK'
  BY <1>1 DEF ExpandAll, diskVars, TypeInv, RestOK
<1> QED
  BY <1>2, <1>3, <1>4 DEF TypeInv

LEMMA ExpandNextTypeInv ==
    ASSUME TypeInv, ExpandNext
    PROVE  TypeInv'
<1>1. expandQ \in Seq(DirNodes) /\ ViewOK /\ OpenOK /\ ReqsOK /\ QueueOK /\ RestOK
  BY DEF TypeInv, QueueOK
<1>2. /\ disk' = disk /\ removed' = removed /\ changes' = changes /\ notices' = notices
      /\ pending' = pending /\ timer' = timer /\ sweepQ' = sweepQ /\ sweeps' = sweeps
      /\ skipped' = skipped /\ loops' \subseteq loops
  BY DEF ExpandNext, diskVars
<1>3. ViewOK' /\ OpenOK' /\ ReqsOK' /\ PathsStay /\ QueueOK'
  <2>1. CASE expandQ = <<>>
    <3>1. node' = node /\ reg' = reg /\ reqs' = reqs /\ expandQ' = expandQ
      BY <2>1 DEF ExpandNext, viewVars
    <3> QED
      BY <1>1, <3>1, SameViewOK, SameReqsOK, QueueStays
  <2>2. CASE expandQ # <<>>
    <3> DEFINE n == Head(expandQ)
    <3>1. n \in DirNodes /\ Tail(expandQ) \in Seq(DirNodes)
      BY <1>1, <2>2, HeadTailProperties
    <3>2. IF node[n].expanded
          THEN UNCHANGED <<viewVars, reqs>> /\ expandQ' = Tail(expandQ)
          ELSE /\ Toggle(n, "expand")
               /\ expandQ' = Tail(expandQ) \o (IF node[n].ul THEN Unopened(n) ELSE <<>>)
      BY <2>2 DEF ExpandNext
    <3> HIDE DEF n
    <3>3. CASE node[n].expanded
      <4>1. node' = node /\ reg' = reg /\ reqs' = reqs /\ expandQ' = Tail(expandQ)
        BY <3>2, <3>3 DEF viewVars
      <4>2. QueueOK'
        BY <3>1, <4>1 DEF QueueOK, DirNodes
      <4> QED
        BY <1>1, <4>1, <4>2, SameViewOK, SameReqsOK
    <3>4. CASE ~node[n].expanded
      <4> DEFINE more == IF node[n].ul THEN Unopened(n) ELSE <<>>
      <4>1. Toggle(n, "expand") /\ expandQ' = Tail(expandQ) \o more
        BY <3>2, <3>4
      <4>2. ViewOK' /\ OpenOK' /\ ReqsOK' /\ PathsStay
        BY <3>1, <4>1, ToggleTypeInv
      <4>3. n \in DOMAIN node' /\ DirNodes \subseteq DirNodes'
        BY <3>1, <4>2, DirsStay DEF DirNodes, PathsStay
      <4>4. more \in Seq(DirNodes')
        BY <4>2, <4>3, UnopenedDirs, EmptySeq
      <4>5. Tail(expandQ) \in Seq(DirNodes')
        BY <3>1, <4>3, SeqMonotonic
      <4> HIDE DEF more
      <4>6. QueueOK'
        BY <4>1, <4>4, <4>5, ConcatProperties DEF QueueOK
      <4> QED
        BY <4>2, <4>6
    <3> QED
      BY <3>3, <3>4
  <2> QED
    BY <2>1, <2>2
<1>4. RestOK'
  BY <1>1, <1>2, <1>3 DEF RestOK, PathsStay
<1> QED
  BY <1>3, <1>4 DEF TypeInv

\* What an answer does to the rows.
LEMMA DeliverGrows ==
    ASSUME TypeInv, NEW i \in DOMAIN reqs, Deliver(i)
    PROVE  \/ node' = node /\ reg' = reg
           \/ \E made : Grows(reqs[i].to, made)
<1> DEFINE n == reqs[i].to
           a == reqs[i].answer
<1>1. n \in DOMAIN node /\ a \in Seq(Path) \cup {Unread, Failed} /\ ViewOK
  BY DEF TypeInv, ReqsOK
<1>2. /\ a # Unread
      /\ \/ UNCHANGED viewVars
         \/ a # Failed /\ Reconcile(n, a)
         \/ ClearRows(n)
         \/ a # Failed /\ AppendRows(n, a)
  BY DEF Deliver
<1> HIDE DEF n, a
<1>3. CASE UNCHANGED viewVars
  BY <1>3 DEF viewVars
<1>4. CASE a # Failed /\ Reconcile(n, a)
  <2>1. Grows(n, Missing(n, a))
    BY <1>1, <1>2, <1>4, ReconcileGrows
  <2> QED
    BY <2>1 DEF n
<1>5. CASE ClearRows(n)
  <2>1. Grows(n, <<>>)
    BY <1>1, <1>5, ClearGrows
  <2> QED
    BY <2>1 DEF n
<1>6. CASE a # Failed /\ AppendRows(n, a)
  <2>1. Grows(n, a)
    BY <1>1, <1>2, <1>6, AppendGrows
  <2> QED
    BY <2>1 DEF n
<1> QED
  BY <1>2, <1>3, <1>4, <1>5, <1>6

\* The requests that are left: those before i, and those behind it, one earlier.
Left(i) ==
    /\ Len(reqs) \in Nat /\ i \in 1 .. Len(reqs) /\ DOMAIN reqs = 1 .. Len(reqs)
    /\ reqs' \in Seq(Request) /\ DOMAIN reqs' = 1 .. Len(reqs) - 1
    /\ \A j \in DOMAIN reqs' : reqs'[j] = IF j < i THEN reqs[j] ELSE reqs[j + 1]

LEMMA DeliverLeaves ==
    ASSUME ReqsOK, NEW i \in DOMAIN reqs, Deliver(i)
    PROVE  Left(i)
<1>1. /\ reqs \in Seq(Request) /\ Len(reqs) \in Nat
      /\ i \in 1 .. Len(reqs) /\ DOMAIN reqs = 1 .. Len(reqs)
  BY LenProperties DEF ReqsOK
<1>2. reqs' = RemoveAt(reqs, i)
  BY DEF Deliver
<1>3. /\ RemoveAt(reqs, i) \in Seq(Request)
      /\ DOMAIN RemoveAt(reqs, i) = 1 .. Len(reqs) - 1
      /\ \A j \in 1 .. Len(reqs) - 1 : RemoveAt(reqs, i)[j] = IF j < i THEN reqs[j] ELSE reqs[j + 1]
  BY <1>1, RemoveAtLeaves
<1> QED
  BY <1>1, <1>2, <1>3 DEF Left

\* Where a request was that is left, in the same order as before.
Was(i, j) == IF j < i THEN j ELSE j + 1

LEMMA LeftWas ==
    ASSUME NEW i, Left(i)
    PROVE  /\ \A j \in DOMAIN reqs' : /\ Was(i, j) \in DOMAIN reqs /\ Was(i, j) # i
                                      /\ reqs'[j] = reqs[Was(i, j)]
           /\ \A j, k \in DOMAIN reqs' : j < k <=> Was(i, j) < Was(i, k)
           /\ \A k \in DOMAIN reqs : k # i => \E j \in DOMAIN reqs' : Was(i, j) = k
<1>1. /\ Len(reqs) \in Nat /\ i \in 1 .. Len(reqs) /\ DOMAIN reqs = 1 .. Len(reqs)
      /\ DOMAIN reqs' = 1 .. Len(reqs) - 1
      /\ \A j \in DOMAIN reqs' : reqs'[j] = IF j < i THEN reqs[j] ELSE reqs[j + 1]
  BY DEF Left
<1>2. \A j \in DOMAIN reqs' : /\ Was(i, j) \in DOMAIN reqs /\ Was(i, j) # i
                              /\ reqs'[j] = reqs[Was(i, j)]
  BY <1>1 DEF Was
<1>3. \A j, k \in DOMAIN reqs' : j < k <=> Was(i, j) < Was(i, k)
  BY <1>1 DEF Was
<1>4. ASSUME NEW k \in DOMAIN reqs, k # i PROVE \E j \in DOMAIN reqs' : Was(i, j) = k
  <2>1. CASE k < i
    BY <1>1, <1>4, <2>1 DEF Was
  <2>2. CASE k > i
    <3>1. k - 1 \in DOMAIN reqs' /\ ~(k - 1 < i) /\ (k - 1) + 1 = k
      BY <1>1, <1>4, <2>2
    <3> QED
      BY <3>1 DEF Was
  <2> QED
    BY <1>1, <1>4, <2>1, <2>2
<1> QED
  BY <1>2, <1>3, <1>4

LEMMA DeliverTypeInv ==
    ASSUME TypeInv, NEW i \in DOMAIN reqs, Deliver(i)
    PROVE  TypeInv'
<1> DEFINE n == reqs[i].to
<1>1. n \in DOMAIN node /\ ViewOK /\ OpenOK /\ ReqsOK /\ QueueOK /\ RestOK
  BY DEF TypeInv, ReqsOK
<1>2. /\ disk' = disk /\ removed' = removed /\ changes' = changes /\ notices' = notices
      /\ pending' = pending /\ timer' = timer /\ sweepQ' = sweepQ /\ sweeps' = sweeps
      /\ skipped' = skipped /\ loops' \subseteq loops \cup {"expand"}
  BY DEF Deliver, diskVars
<1>3. ViewOK' /\ OpenOK' /\ PathsStay
  <2>1. CASE node' = node /\ reg' = reg
    BY <1>1, <2>1, SameViewOK
  <2>2. CASE \E made : Grows(n, made)
    <3>1. PICK made : Grows(n, made)
      BY <2>2
    <3>2. ViewOK' /\ PathsStay /\ GrownNodes(n, made)
      BY <1>1, <3>1, GrowsType, GrowsNodes
    <3>3. OpenOK'
      <4>1. 1 \in DOMAIN node' /\ node'[1].path = Root
        BY <1>1, <3>2 DEF OpenOK, PathsStay
      <4>2. ASSUME NEW m \in DOMAIN node', node'[m].expanded \/ node'[m].ul
            PROVE  node'[m].path \in AnyDir
        <5>1. CASE m \in DOMAIN node
          <6>1. node[m].expanded \/ node[m].ul
            BY <3>2, <4>2, <5>1 DEF GrownNodes
          <6> QED
            BY <1>1, <3>2, <5>1, <6>1 DEF OpenOK, PathsStay
        <5>2. CASE \E k \in DOMAIN made : m = Len(node) + k
          <6>1. PICK k \in DOMAIN made : m = Len(node) + k
            BY <5>2
          <6>2. node'[m].ul = FALSE /\ node'[m].expanded = FALSE
            BY <3>2, <6>1 DEF GrownNodes
          <6> QED
            BY <4>2, <6>2
        <5> QED
          BY <3>2, <5>1, <5>2 DEF GrownNodes
      <4> QED
        BY <4>1, <4>2 DEF OpenOK
    <3> QED
      BY <3>2, <3>3
  <2> QED
    BY <2>1, <2>2, DeliverGrows
<1>4. ReqsOK'
  <2>1. Left(i)
    BY <1>1, DeliverLeaves
  <2>2. \A j \in DOMAIN reqs' : Was(i, j) \in DOMAIN reqs /\ reqs'[j] = reqs[Was(i, j)]
    BY <2>1, LeftWas
  <2>3. reqs' \in Seq(Request)
    BY <2>1 DEF Left
  <2> QED
    BY <1>1, <1>3, <2>2, <2>3 DEF ReqsOK, PathsStay
<1>5. QueueOK'
  <2>1. expandQ \in Seq(DirNodes) /\ DirNodes \subseteq DirNodes'
    BY <1>1, <1>3, DirsStay DEF QueueOK
  <2>2. expandQ \in Seq(DirNodes')
    BY <2>1, SeqMonotonic
  <2>3. Unopened(n) \in Seq(DirNodes')
    <3>1. n \in DOMAIN node'
      BY <1>1, <1>3 DEF PathsStay
    <3> QED
      BY <1>3, <3>1, UnopenedDirs
  <2>4. expandQ' = expandQ \o Unopened(n) \/ expandQ' = expandQ
    BY DEF Deliver
  <2> QED
    BY <2>2, <2>3, <2>4, ConcatProperties DEF QueueOK
<1>6. RestOK'
  BY <1>1, <1>2, <1>3 DEF RestOK, PathsStay
<1> QED
  BY <1>3, <1>4, <1>5, <1>6 DEF TypeInv

\* treeHandler reads a directory.
LEMMA ListingType ==
    ASSUME NEW d
    PROVE  Listing(d) \in Seq(Path) /\ IsInjective(Listing(d))
           /\ Range(Listing(d)) = {p \in disk \cap Path : Parent[p] = d}
<1>1. Order \in Seq(Path) /\ IsInjective(Order) /\ Range(Order) = Path
  BY PathTypes
<1>2. Listing(d) = Only(Order, {p \in disk : Parent[p] = d})
  BY DEF Listing
<1>3. Listing(d) \in Seq(Path) /\ IsInjective(Listing(d))
      /\ Range(Listing(d)) = Path \cap {p \in disk : Parent[p] = d}
  BY <1>1, <1>2, OnlyRange, OnlyInjective
<1> QED
  BY <1>3

\* One request is answered, the others stay as they are.
Answers(i) ==
    /\ reqs' \in Seq(Request) /\ Len(reqs') = Len(reqs) /\ DOMAIN reqs' = DOMAIN reqs
    /\ \A j \in DOMAIN reqs : j # i => reqs'[j] = reqs[j]
    /\ reqs'[i].use = reqs[i].use /\ reqs'[i].dir = reqs[i].dir /\ reqs'[i].to = reqs[i].to
    /\ reqs'[i].then = reqs[i].then
    /\ reqs'[i].answer = IF Exists(reqs[i].dir) THEN Listing(reqs[i].dir) ELSE Failed

LEMMA ReadAnswers ==
    ASSUME ReqsOK, NEW i \in DOMAIN reqs, Read(i)
    PROVE  Answers(i)
<1> DEFINE a == IF Exists(reqs[i].dir) THEN Listing(reqs[i].dir) ELSE Failed
           e == [reqs[i] EXCEPT !.answer = a]
           t == [reqs EXCEPT ![i] = e]
<1>1. reqs' = t
  BY DEF Read
<1>2. a \in Seq(Path \cup {Root})
  <2>1. Listing(reqs[i].dir) \in Seq(Path \cup {Root})
    BY ListingType, SeqMonotonic
  <2> QED
    BY <2>1, PathTypes
<1> HIDE DEF a
<1>3. reqs \in Seq(Request) /\ i \in 1 .. Len(reqs) /\ DOMAIN reqs = 1 .. Len(reqs)
      /\ reqs[i] \in Request
  BY LenProperties, ElementOfSeq DEF ReqsOK
<1>4. /\ e \in Request /\ e.use = reqs[i].use /\ e.dir = reqs[i].dir /\ e.to = reqs[i].to
      /\ e.then = reqs[i].then /\ e.answer = a
  BY <1>2, <1>3 DEF Request
<1> HIDE DEF e
<1>5. /\ t \in Seq(Request) /\ Len(t) = Len(reqs)
      /\ \A j \in 1 .. Len(reqs) : t[j] = IF j = i THEN e ELSE reqs[j]
  BY <1>3, <1>4, ExceptSeq
<1> HIDE DEF t
<1>6. DOMAIN t = DOMAIN reqs
  BY <1>3, <1>5, LenProperties
<1> QED
  BY <1>1, <1>3, <1>4, <1>5, <1>6 DEF Answers, a

LEMMA ReadTypeInv ==
    ASSUME TypeInv, NEW i \in DOMAIN reqs, Read(i)
    PROVE  TypeInv'
<1>1. /\ node' = node /\ reg' = reg /\ expandQ' = expandQ /\ notices' = notices
      /\ disk' = disk /\ removed' = removed /\ changes' = changes
      /\ pending' = pending /\ timer' = timer /\ sweepQ' = sweepQ /\ loops' = loops
      /\ sweeps' = sweeps /\ skipped' = skipped
  BY DEF Read, viewVars, loopVars, diskVars
<1>2. ViewOK' /\ OpenOK' /\ QueueOK' /\ PathsStay
  BY <1>1, SameViewOK, QueueStays DEF TypeInv
<1>3. ReqsOK'
  <2>1. Answers(i) /\ ReqsOK
    BY ReadAnswers DEF TypeInv
  <2>2. Listing(reqs[i].dir) \in Seq(Path)
    BY ListingType
  <2>3. ASSUME NEW j \in DOMAIN reqs'
        PROVE  reqs'[j].to \in DOMAIN node' /\ reqs'[j].answer \in Seq(Path) \cup {Unread, Failed}
    <3>1. CASE j = i
      BY <1>1, <2>1, <2>2, <3>1 DEF Answers, ReqsOK
    <3>2. CASE j # i
      BY <1>1, <2>1, <3>2 DEF Answers, ReqsOK
    <3> QED
      BY <3>1, <3>2
  <2> QED
    BY <2>1, <2>3 DEF Answers, ReqsOK
<1>4. RestOK'
  BY <1>1 DEF RestOK, TypeInv
<1> QED
  BY <1>2, <1>3, <1>4 DEF TypeInv

LEMMA IdleTypeInv ==
    ASSUME TypeInv, UNCHANGED vars
    PROVE  TypeInv'
<1>1. /\ node' = node /\ reg' = reg /\ reqs' = reqs /\ expandQ' = expandQ /\ notices' = notices
      /\ disk' = disk /\ removed' = removed /\ changes' = changes
      /\ pending' = pending /\ timer' = timer /\ sweepQ' = sweepQ /\ loops' = loops
      /\ sweeps' = sweeps /\ skipped' = skipped
  BY DEF vars, viewVars, loopVars, diskVars
<1>2. ViewOK' /\ OpenOK' /\ QueueOK' /\ ReqsOK'
  BY <1>1, SameViewOK, SameReqsOK, QueueStays DEF TypeInv
<1>3. RestOK'
  BY <1>1 DEF RestOK, TypeInv
<1> QED
  BY <1>2, <1>3 DEF TypeInv

LEMMA NextTypeInv == TypeInv /\ [Next]_vars => TypeInv'
<1> SUFFICES ASSUME TypeInv, [Next]_vars PROVE TypeInv'
  OBVIOUS
<1>1. CASE Notice
  BY <1>1, NoticeTypeInv
<1>2. CASE TimerFires
  BY <1>2, TimerTypeInv
<1>3. ASSUME NEW i \in DOMAIN reqs, Deliver(i) PROVE TypeInv'
  BY <1>3, DeliverTypeInv
<1>4. CASE ExpandNext
  BY <1>4, ExpandNextTypeInv
<1>5. CASE SweepStart \/ SweepNext \/ SweepEnd
  BY <1>5, SweepTypeInv
<1>6. ASSUME NEW i \in DOMAIN reqs, Read(i) PROVE TypeInv'
  BY <1>6, ReadTypeInv
<1>7. ASSUME NEW n \in DOMAIN node, Click(n) PROVE TypeInv'
  BY <1>7, ClickTypeInv
<1>8. CASE ExpandAll
  BY <1>8, ExpandAllTypeInv
<1>9. CASE CollapseAll
  BY <1>9, CollapseTypeInv
<1>10. ASSUME NEW p \in Path, FsCreate(p) \/ FsRemove(p) PROVE TypeInv'
  BY <1>10, FsTypeInv
<1>11. CASE UNCHANGED vars
  BY <1>11, IdleTypeInv
<1> QED
  BY <1>1, <1>2, <1>3, <1>4, <1>5, <1>6, <1>7, <1>8, <1>9, <1>10, <1>11
     DEF Next, Browser, Server, User

(***************************************************************************)
(* Whatever may be lost, overtaken or created again: every row, every      *)
(* queued node and every answer refers to a node that was made, and only   *)
(* directories are fetched (makeNode, toggleDir, reconcileChildren).       *)
(***************************************************************************)
THEOREM TypeCorrect == Spec => []TypeOK
<1>1. Spec => []TypeInv
  BY InitTypeInv, NextTypeInv, PTL DEF Spec
<1> QED
  BY <1>1, TypeInvTypes, PTL
-----------------------------------------------------------------------------
(***************************************************************************)
(* The rows on the page, and what purgeNode removes, level by level.       *)
(***************************************************************************)
Iterates(f, F, x, X) ==
    /\ f \in [0 .. Len(Order) -> X] /\ f[0] = x
    /\ \A k \in 1 .. Len(Order) : f[k] = F[f[k - 1]]

LEMMA IterationExists ==
    ASSUME NEW X, NEW x \in X, NEW F \in [X -> X]
    PROVE  \E f : Iterates(f, F, x, X)
<1> DEFINE step == [p \in X \X Path |-> F[p[1]]]
<1>1. step \in [X \X Path -> X] /\ \A y \in X, p \in Path : step[<<y, p>>] = F[y]
  OBVIOUS
<1> HIDE DEF step
<1>2. Order \in Seq(Path) /\ Len(Order) \in Nat /\ \A k \in 1 .. Len(Order) : Order[k] \in Path
  BY PathTypes, LenProperties, ElementOfSeq
<1>3. PICK f \in [0 .. Len(Order) -> X] : IsFold(f, step, x, Order)
  BY <1>1, <1>2, FoldExists DEF IsStep
<1>4. ASSUME NEW k \in 1 .. Len(Order) PROVE f[k] = F[f[k - 1]]
  <2>1. k - 1 \in 0 .. Len(Order) /\ Order[k] \in Path
    BY <1>2
  <2>2. f[k - 1] \in X
    BY <2>1
  <2>3. f[k] = step[<<f[k - 1], Order[k]>>]
    BY <1>3 DEF IsFold
  <2> QED
    BY <1>1, <2>1, <2>2, <2>3
<1> QED
  BY <1>3, <1>4 DEF IsFold, Iterates

\* f holds what is shown at each level.
Levels(f) ==
    f = [k \in 0 .. Len(Order) |->
           IF k = 0 THEN {1}
           ELSE LET above == f[k - 1]
                IN  above \cup UNION {Range(node[n].kids) : n \in above}]

LEMMA LevelsExist ==
    ASSUME ViewOK, 1 \in DOMAIN node
    PROVE  \E f : Levels(f)
<1> DEFINE X == SUBSET DOMAIN node
           F == [A \in X |-> A \cup UNION {Range(node[n].kids) : n \in A}]
           N == Len(Order)
<1>1. N \in Nat
  BY PathTypes, LenProperties
<1>2. \A n \in DOMAIN node : Range(node[n].kids) \subseteq DOMAIN node
  BY KidPathsAre
<1>3. F \in [X -> X] /\ {1} \in X
  BY <1>2
<1>4. \A A \in X : F[A] = A \cup UNION {Range(node[n].kids) : n \in A}
  OBVIOUS
<1> HIDE DEF F, X
<1>5. PICK f : Iterates(f, F, {1}, X)
  BY <1>3, IterationExists
<1> DEFINE h == [k \in 0 .. N |-> IF k = 0 THEN {1}
                                  ELSE LET above == f[k - 1]
                                       IN  above \cup UNION {Range(node[n].kids) : n \in above}]
<1>6. ASSUME NEW k \in 0 .. N PROVE h[k] = f[k]
  <2>1. CASE k = 0
    BY <1>5, <2>1 DEF Iterates
  <2>2. CASE k # 0
    <3>1. k \in 1 .. N /\ k - 1 \in 0 .. N
      BY <1>1, <2>2
    <3>2. f[k - 1] \in X /\ f[k] = F[f[k - 1]]
      BY <1>5, <3>1 DEF Iterates
    <3>3. f[k] = f[k - 1] \cup UNION {Range(node[n].kids) : n \in f[k - 1]}
      BY <1>4, <3>2
    <3> QED
      BY <2>2, <3>3
  <2> QED
    BY <2>1, <2>2
<1>7. DOMAIN h = 0 .. N /\ h = [k \in 0 .. N |-> h[k]]
  OBVIOUS
<1>8. f = [k \in 0 .. N |-> f[k]]
  BY <1>5 DEF Iterates
<1> HIDE DEF h
<1>9. f = h
  BY <1>6, <1>7, <1>8
<1>10. Levels(f)
  BY <1>9 DEF Levels, h, N
<1> QED
  BY <1>10

\* What is shown at each level, as an equation.
IsShown(f) ==
    /\ DOMAIN f = 0 .. Len(Order) /\ f[0] = {1} /\ Shown = f[Len(Order)]
    /\ \A k \in 1 .. Len(Order) :
          f[k] = f[k - 1] \cup UNION {Range(node[n].kids) : n \in f[k - 1]}

LEMMA ShownLevels == ViewOK /\ 1 \in DOMAIN node => \E f : IsShown(f)
<1> SUFFICES ASSUME ViewOK, 1 \in DOMAIN node PROVE \E f : IsShown(f)
  OBVIOUS
<1> DEFINE f == CHOOSE g : Levels(g)
           N == Len(Order)
           h == [k \in 0 .. N |-> IF k = 0 THEN {1}
                                  ELSE LET above == f[k - 1]
                                       IN  above \cup UNION {Range(node[n].kids) : n \in above}]
<1>1. N \in Nat
  BY PathTypes, LenProperties
<1>2. Shown = f[N]
  BY Zenon DEF Shown, Levels
<1>3. Levels(f)
  BY LevelsExist, Zenon
<1> HIDE DEF f, N
<1>4. f = h
  BY <1>3 DEF Levels, N
<1>5. DOMAIN h = 0 .. N /\ h[0] = {1}
  BY <1>1
<1>6. ASSUME NEW k \in 1 .. N
      PROVE  h[k] = f[k - 1] \cup UNION {Range(node[n].kids) : n \in f[k - 1]}
  <2>1. k \in 0 .. N /\ k # 0
    BY <1>1
  <2> QED
    BY <2>1
<1> HIDE DEF h
<1>7. IsShown(f)
  BY <1>2, <1>4, <1>5, <1>6 DEF IsShown, N
<1> QED
  BY <1>7

LEMMA ShownLevelsNext ==
    ViewOK' /\ (1 \in DOMAIN node)' => (\E f : IsShown(f))'
BY ShownLevels, PTL

\* A level holds the levels above it.
LEMMA LevelsGrow ==
    ASSUME NEW f, IsShown(f)
    PROVE  \A k \in 0 .. Len(Order) : f[k] \subseteq Shown
<1> DEFINE N == Len(Order)
           T == {i \in Nat : i <= N => f[N - i] \subseteq Shown}
<1>1. N \in Nat
  BY PathTypes, LenProperties
<1>2. 0 \in T
  BY <1>1 DEF IsShown
<1>3. ASSUME NEW i \in Nat, i \in T PROVE i + 1 \in T
  <2> SUFFICES ASSUME i + 1 <= N PROVE f[N - (i + 1)] \subseteq Shown
    OBVIOUS
  <2>1. N - i \in 1 .. N /\ (N - i) - 1 = N - (i + 1) /\ i <= N
    BY <1>1
  <2>2. f[(N - i) - 1] \subseteq f[N - i]
    BY <2>1 DEF IsShown
  <2> QED
    BY <1>3, <2>1, <2>2
<1>4. Nat \subseteq T
  <2> HIDE DEF T
  <2> QED
    BY <1>2, <1>3, SetInduction
<1>5. ASSUME NEW k \in 0 .. N PROVE f[k] \subseteq Shown
  <2>1. N - k \in Nat /\ N - k <= N /\ N - (N - k) = k
    BY <1>1
  <2>2. f[N - (N - k)] \subseteq Shown
    BY <1>4, <2>1
  <2> QED
    BY <2>1, <2>2
<1> QED
  BY <1>5

\* A row on the page is the root's or in the list of one on the page.
LEMMA ShownBelow ==
    ViewOK /\ 1 \in DOMAIN node
      => /\ 1 \in Shown /\ Shown \subseteq DOMAIN node
         /\ \A m \in Shown : m = 1 \/ \E x \in Shown : m \in Range(node[x].kids)
<1> SUFFICES ASSUME ViewOK, 1 \in DOMAIN node
             PROVE  /\ 1 \in Shown /\ Shown \subseteq DOMAIN node
                    /\ \A m \in Shown : m = 1 \/ \E x \in Shown : m \in Range(node[x].kids)
  OBVIOUS
<1> DEFINE N == Len(Order)
           B == {m \in DOMAIN node : m = 1 \/ \E x \in Shown : m \in Range(node[x].kids)}
<1>1. N \in Nat
  BY PathTypes, LenProperties
<1>2. PICK f : IsShown(f)
  BY ShownLevels
<1>3. \A k \in 0 .. N : f[k] \subseteq Shown
  BY <1>2, LevelsGrow
<1>4. \A n \in DOMAIN node : Range(node[n].kids) \subseteq DOMAIN node
  BY KidPathsAre
<1> DEFINE T == {k \in Nat : k <= N => f[k] \subseteq B}
<1>5. 0 \in T
  BY <1>2 DEF IsShown
<1>6. ASSUME NEW k \in Nat, k \in T PROVE k + 1 \in T
  <2> SUFFICES ASSUME k + 1 <= N PROVE f[k + 1] \subseteq B
    OBVIOUS
  <2>1. k + 1 \in 1 .. N /\ (k + 1) - 1 = k /\ k \in 0 .. N /\ k <= N
    BY <1>1
  <2>2. f[k + 1] = f[k] \cup UNION {Range(node[n].kids) : n \in f[k]}
    BY <1>2, <2>1 DEF IsShown
  <2>3. f[k] \subseteq B /\ f[k] \subseteq Shown
    BY <1>3, <1>6, <2>1
  <2>4. \A n \in f[k] : Range(node[n].kids) \subseteq B
    BY <1>4, <2>3
  <2> QED
    BY <2>2, <2>3, <2>4
<1>7. Nat \subseteq T
  <2> HIDE DEF T
  <2> QED
    BY <1>5, <1>6, SetInduction
<1>8. Shown \subseteq B
  BY <1>1, <1>2, <1>7 DEF IsShown
<1>9. 1 \in Shown
  BY <1>1, <1>2, <1>3 DEF IsShown
<1> QED
  BY <1>8, <1>9

\* What comes onto the page comes with the lists that change.
LEMMA ShownGrows ==
    ASSUME ViewOK, 1 \in DOMAIN node, ViewOK', 1 \in DOMAIN node', NEW New,
           \A x \in DOMAIN node : Range(node'[x].kids) \subseteq Range(node[x].kids) \cup New,
           \A x \in New : Range(node'[x].kids) \subseteq New
    PROVE  Shown' \subseteq Shown \cup New
<1> DEFINE N == Len(Order)
<1>1. N \in Nat
  BY PathTypes, LenProperties
<1>2. PICK f : IsShown(f)
  BY ShownLevels
<1>3. \E g : IsShown(g)'
  BY ShownLevelsNext
<1>4. PICK g : IsShown(g)'
  BY <1>3
<1>5. \A k \in 0 .. N : f[k] \subseteq Shown
  BY <1>2, LevelsGrow
<1>6. Shown \subseteq DOMAIN node
  BY ShownBelow
<1> DEFINE T == {k \in Nat : k <= N => g[k] \subseteq f[k] \cup New}
<1>7. /\ f[0] = {1} /\ g[0] = {1} /\ Shown = f[N] /\ Shown' = g[N]
      /\ \A k \in 1 .. N : f[k] = f[k - 1] \cup UNION {Range(node[n].kids) : n \in f[k - 1]}
      /\ \A k \in 1 .. N : g[k] = g[k - 1] \cup UNION {Range(node'[n].kids) : n \in g[k - 1]}
  BY <1>2, <1>4 DEF IsShown
<1>8. 0 \in T
  BY <1>7
<1>9. ASSUME NEW k \in Nat, k \in T PROVE k + 1 \in T
  <2> SUFFICES ASSUME k + 1 <= N PROVE g[k + 1] \subseteq f[k + 1] \cup New
    OBVIOUS
  <2>1. k + 1 \in 1 .. N /\ (k + 1) - 1 = k /\ k \in 0 .. N /\ k <= N
    BY <1>1
  <2>2. /\ f[k + 1] = f[k] \cup UNION {Range(node[n].kids) : n \in f[k]}
        /\ g[k + 1] = g[k] \cup UNION {Range(node'[n].kids) : n \in g[k]}
    BY <1>7, <2>1
  <2>3. g[k] \subseteq f[k] \cup New /\ f[k] \subseteq DOMAIN node
    BY <1>5, <1>6, <1>9, <2>1
  <2>4. ASSUME NEW n \in g[k] PROVE Range(node'[n].kids) \subseteq f[k + 1] \cup New
    <3>1. CASE n \in New
      BY <3>1
    <3>2. CASE n \in f[k]
      <4>1. n \in DOMAIN node /\ Range(node[n].kids) \subseteq f[k + 1]
        BY <2>2, <2>3, <3>2
      <4> QED
        BY <4>1
    <3> QED
      BY <2>3, <3>1, <3>2
  <2> QED
    BY <2>2, <2>3, <2>4
<1>10. Nat \subseteq T
  <2> HIDE DEF T
  <2> QED
    BY <1>8, <1>9, SetInduction
<1> QED
  BY <1>1, <1>7, <1>10

\* f holds what purgeNode has removed at each level.
Purges(f, gone) ==
    f = [k \in 0 .. Len(Order) |->
           IF k = 0 THEN {p \in gone : reg[p] # 0}
           ELSE LET above == f[k - 1]
                IN  above \cup {q \in Path : reg[q] # 0 /\ \E p \in above :
                                   q \in Range(PathsOf(node[reg[p]].kids))}]

LEMMA PurgesExist ==
    ASSUME NEW gone, gone \subseteq Path \cup {Root}
    PROVE  \E f : Purges(f, gone)
<1> DEFINE X == SUBSET (Path \cup {Root})
           Below(A) == {q \in Path : reg[q] # 0 /\ \E p \in A : q \in Range(PathsOf(node[reg[p]].kids))}
           F == [A \in X |-> A \cup Below(A)]
           x == {p \in gone : reg[p] # 0}
           N == Len(Order)
<1>1. N \in Nat
  BY PathTypes, LenProperties
<1>2. F \in [X -> X] /\ x \in X /\ \A A \in X : F[A] = A \cup Below(A)
  OBVIOUS
<1> HIDE DEF F, X
<1>3. PICK f : Iterates(f, F, x, X)
  BY <1>2, IterationExists
<1> DEFINE h == [k \in 0 .. N |-> IF k = 0 THEN x
                                  ELSE LET above == f[k - 1]
                                       IN  above \cup {q \in Path : reg[q] # 0 /\ \E p \in above :
                                              q \in Range(PathsOf(node[reg[p]].kids))}]
<1>4. ASSUME NEW k \in 0 .. N PROVE h[k] = f[k]
  <2>1. CASE k = 0
    BY <1>3, <2>1 DEF Iterates
  <2>2. CASE k # 0
    <3>1. k \in 1 .. N /\ k - 1 \in 0 .. N
      BY <1>1, <2>2
    <3>2. f[k - 1] \in X /\ f[k] = F[f[k - 1]]
      BY <1>3, <3>1 DEF Iterates
    <3>3. f[k] = f[k - 1] \cup Below(f[k - 1])
      BY <1>2, <3>2
    <3> QED
      BY <2>2, <3>3
  <2> QED
    BY <2>1, <2>2
<1>5. h = [k \in 0 .. N |-> h[k]]
  OBVIOUS
<1>6. f = [k \in 0 .. N |-> f[k]]
  BY <1>3 DEF Iterates
<1> HIDE DEF h
<1>7. f = h
  BY <1>4, <1>5, <1>6
<1>8. Purges(f, gone)
  BY <1>7 DEF Purges, h, N
<1> QED
  BY <1>8

\* A set that holds the paths given and what is listed below them holds all.
LEMMA PurgedWithin ==
    ASSUME NEW gone, gone \subseteq Path \cup {Root}, NEW B,
           \A p \in gone : reg[p] # 0 => p \in B,
           \A p \in B, q \in Path :
              reg[p] # 0 /\ reg[q] # 0 /\ q \in Range(PathsOf(node[reg[p]].kids)) => q \in B
    PROVE  Purged(gone) \subseteq B
<1> DEFINE f == CHOOSE g : Purges(g, gone)
           N == Len(Order)
           h == [k \in 0 .. N |-> IF k = 0 THEN {p \in gone : reg[p] # 0}
                                  ELSE LET above == f[k - 1]
                                       IN  above \cup {q \in Path : reg[q] # 0 /\ \E p \in above :
                                              q \in Range(PathsOf(node[reg[p]].kids))}]
<1>1. N \in Nat
  BY PathTypes, LenProperties
<1>2. Purged(gone) = f[N]
  BY Zenon DEF Purged, Purges
<1>3. Purges(f, gone)
  BY PurgesExist, Zenon
<1> HIDE DEF f, N
<1>4. f = h
  BY <1>3 DEF Purges, N
<1>5. h[0] = {p \in gone : reg[p] # 0}
  BY <1>1
<1>6. ASSUME NEW k \in 1 .. N
      PROVE  h[k] = f[k - 1] \cup {q \in Path : reg[q] # 0 /\ \E p \in f[k - 1] :
                                      q \in Range(PathsOf(node[reg[p]].kids))}
  <2>1. k \in 0 .. N /\ k # 0
    BY <1>1
  <2> QED
    BY <2>1
<1> HIDE DEF h
<1> DEFINE T == {k \in Nat : k <= N => f[k] \subseteq {p \in B : reg[p] # 0}}
<1>7. 0 \in T
  BY <1>4, <1>5
<1>8. ASSUME NEW k \in Nat, k \in T PROVE k + 1 \in T
  <2> SUFFICES ASSUME k + 1 <= N PROVE f[k + 1] \subseteq {p \in B : reg[p] # 0}
    OBVIOUS
  <2>1. k + 1 \in 1 .. N /\ (k + 1) - 1 = k /\ k <= N
    BY <1>1
  <2>2. f[k + 1] = f[k] \cup {q \in Path : reg[q] # 0 /\ \E p \in f[k] :
                                 q \in Range(PathsOf(node[reg[p]].kids))}
    BY <1>4, <1>6, <2>1
  <2>3. f[k] \subseteq {p \in B : reg[p] # 0}
    BY <1>8, <2>1
  <2>4. ASSUME NEW q \in f[k + 1] PROVE q \in B /\ reg[q] # 0
    <3>1. CASE q \in f[k]
      BY <2>3, <3>1
    <3>2. CASE q \notin f[k]
      <4>1. q \in Path /\ reg[q] # 0
        BY <2>2, <3>2
      <4>2. PICK p \in f[k] : q \in Range(PathsOf(node[reg[p]].kids))
        BY <2>2, <3>2
      <4>3. p \in B /\ reg[p] # 0
        BY <2>3, <4>2
      <4> QED
        BY <4>1, <4>2, <4>3
    <3> QED
      BY <3>1, <3>2
  <2> QED
    BY <2>4
<1>9. Nat \subseteq T
  <2> HIDE DEF T
  <2> QED
    BY <1>7, <1>8, SetInduction
<1> QED
  BY <1>1, <1>2, <1>9
-----------------------------------------------------------------------------
(***************************************************************************)
(* A list of rows that is brought up to date.                              *)
(***************************************************************************)
\* The list of n has a row for each entry, in order: those it had, and new ones.
Shows(n, entries, made) ==
    /\ Range(made) = Range(entries) \ KidPaths(n)
    /\ DOMAIN node'[n].kids = DOMAIN entries
    /\ \A k \in DOMAIN entries :
          /\ node'[node'[n].kids[k]].path = entries[k]
          /\ node'[n].kids[k] \in Range(node[n].kids) \/ node'[n].kids[k] \notin DOMAIN node
    /\ \A p \in (Path \cup {Root}) \ Range(made) :
          reg'[p] = reg[p] \/ p \in Purged(KidPaths(n) \ Range(entries))

Fills(n, entries) ==
    \E made : Grows(n, made) /\ Shows(n, entries, made) /\ (IsInjective(entries) => IsInjective(made))

\* The list has at most one row for a path.
Distinct(n) == IsInjective(PathsOf(node[n].kids))

LEMMA EmptyRange ==
    ASSUME NEW S, NEW s \in Seq(S), Range(s) = {}
    PROVE  s = <<>>
<1>1. Len(s) \in Nat /\ DOMAIN s = 1 .. Len(s)
  BY LenProperties
<1>2. Len(s) = 0
  <2> SUFFICES ASSUME Len(s) # 0 PROVE FALSE
    OBVIOUS
  <2>1. 1 \in DOMAIN s
    BY <1>1
  <2> QED
    BY <2>1 DEF Range
<1> QED
  BY <1>2, EmptySeq

LEMMA ReconcileFills ==
    ASSUME ViewOK, NEW n \in DOMAIN node, Distinct(n), NEW entries \in Seq(Path),
           Reconcile(n, entries)
    PROVE  Fills(n, entries)
<1> DEFINE made == Missing(n, entries)
           had  == KidPaths(n)
           old  == node[n].kids
           held == {RowOf(old, p) : p \in had}
           rows == [k \in DOMAIN entries |->
                      IF entries[k] \in had THEN RowOf(old, entries[k])
                                            ELSE IdOfNew(made, entries[k])]
           rest == Only(old, DOMAIN node \ held)
           kids == rows \o rest
<1>1. made \in Seq(Path) /\ Range(made) = Range(entries) \ had
  BY MissingAre
<1>2. Grows(n, made)
  BY ReconcileGrows
<1>3. /\ node' = [WithNew(made) EXCEPT ![n].kids = kids]
      /\ reg' = [p \in DOMAIN reg |->
                     IF p \in Range(made) THEN IdOfNew(made, p)
                     ELSE IF p \in Purged(had \ Range(entries)) THEN 0 ELSE reg[p]]
  BY DEF Reconcile, Missing, KidPaths
<1> HIDE DEF made
<1>4. GrownNodes(n, made)
  BY <1>2, GrowsNodes
<1>5. /\ Len(old) \in Nat /\ DOMAIN old = 1 .. Len(old) /\ old \in Seq(DOMAIN node)
      /\ DOMAIN PathsOf(old) = DOMAIN old
      /\ \A k \in DOMAIN old : old[k] \in DOMAIN node /\ PathsOf(old)[k] = node[old[k]].path
      /\ Range(PathsOf(old)) = had
  <2>1. old \in Seq(DOMAIN node)
    BY DEF ViewOK, KidsMade
  <2>2. Range(PathsOf(old)) = had
    BY DEF KidPaths
  <2> QED
    BY <2>1, <2>2, KidPathsAre
<1>6. ASSUME NEW p \in had PROVE \E k \in DOMAIN old : RowOf(old, p) = old[k] /\ node[old[k]].path = p
  BY <1>5, RowFound
<1>7. ASSUME NEW k \in DOMAIN old PROVE old[k] \in held
  <2> DEFINE p == node[old[k]].path
  <2>1. p \in had /\ PathsOf(old)[k] = p
    BY <1>5 DEF Range
  <2>2. PICK j \in DOMAIN old : RowOf(old, p) = old[j] /\ node[old[j]].path = p
    BY <1>6, <2>1
  <2>3. j = k
    BY <1>5, <2>1, <2>2 DEF Distinct, IsInjective
  <2> QED
    BY <2>1, <2>2, <2>3
<1>8. rest = <<>>
  <2>1. Range(old) \cap (DOMAIN node \ held) = {}
    BY <1>7 DEF Range
  <2>2. rest \in Seq(DOMAIN node) /\ Range(rest) = {}
    BY <1>5, <2>1, OnlyRange
  <2> HIDE DEF rest
  <2> QED
    BY <2>2, EmptyRange
<1>9. ASSUME NEW k \in DOMAIN entries
      PROVE  \/ \E j \in DOMAIN old : rows[k] = old[j] /\ node[old[j]].path = entries[k]
             \/ \E j \in DOMAIN made : rows[k] = Len(node) + j /\ made[j] = entries[k]
  <2>1. CASE entries[k] \in had
    BY <1>6, <2>1
  <2>2. CASE entries[k] \notin had
    <3>1. entries[k] \in Range(made)
      BY <1>1, <2>2 DEF Range
    <3>2. \E j \in DOMAIN made : made[j] = entries[k] /\ IdOfNew(made, entries[k]) = Len(node) + j
      BY <3>1, NumberMade
    <3> QED
      BY <2>2, <3>2
  <2> QED
    BY <2>1, <2>2
<1>10. rows \in Seq(DOMAIN node') /\ DOMAIN rows = DOMAIN entries
  <2>1. \A k \in DOMAIN entries : rows[k] \in DOMAIN node'
    <3> TAKE k \in DOMAIN entries
    <3>1. CASE \E j \in DOMAIN old : rows[k] = old[j]
      BY <1>4, <1>5, <3>1 DEF GrownNodes
    <3>2. CASE \E j \in DOMAIN made : rows[k] = Len(node) + j
      BY <1>4, <3>2 DEF GrownNodes
    <3> QED
      BY <1>9, <3>1, <3>2
  <2>2. DOMAIN entries = 1 .. Len(entries) /\ Len(entries) \in Nat
    BY LenProperties
  <2>3. rows \in [1 .. Len(entries) -> DOMAIN node']
    BY <2>1, <2>2
  <2> HIDE DEF rows
  <2> QED
    BY <2>2, <2>3, FunctionIsSeq
<1> HIDE DEF rows, rest
<1>11. kids = rows
  BY <1>8, <1>10, ConcatEmptySeq
<1>12. node'[n].kids = rows
  <2>1. WithNew(made) \in Seq(Node) /\ n \in DOMAIN WithNew(made)
    BY <1>1, <1>4, NodesMade DEF ViewOK, GrownNodes
  <2>2. rows \in Seq(Nat)
    <3>1. DOMAIN node' \subseteq Nat
      BY <1>4 DEF GrownNodes
    <3> QED
      BY <1>10, <3>1, SeqMonotonic
  <2>3. node' = [WithNew(made) EXCEPT ![n].kids = rows]
    BY <1>3, <1>11
  <2> QED
    BY <2>1, <2>2, <2>3, SetKids
<1>13. ASSUME NEW k \in DOMAIN entries
       PROVE  /\ node'[rows[k]].path = entries[k]
              /\ rows[k] \in Range(old) \/ rows[k] \notin DOMAIN node
  <2>1. CASE \E j \in DOMAIN old : rows[k] = old[j] /\ node[old[j]].path = entries[k]
    BY <1>4, <1>5, <2>1 DEF GrownNodes, Range
  <2>2. CASE \E j \in DOMAIN made : rows[k] = Len(node) + j /\ made[j] = entries[k]
    BY <1>4, <2>2 DEF GrownNodes
  <2> QED
    BY <1>9, <2>1, <2>2
<1>14. ASSUME NEW p \in (Path \cup {Root}) \ Range(made)
       PROVE  reg'[p] = reg[p] \/ p \in Purged(had \ Range(entries))
  BY <1>3 DEF ViewOK
<1>15. Shows(n, entries, made)
  BY <1>1, <1>10, <1>12, <1>13, <1>14 DEF Shows
<1>16. IsInjective(entries) => IsInjective(made)
  BY OnlyInjective DEF made, Missing
<1> QED
  BY <1>2, <1>15, <1>16 DEF Fills

LEMMA NoKids ==
    ASSUME ViewOK, NEW n \in DOMAIN node, KidPaths(n) = {}
    PROVE  node[n].kids = <<>>
<1>1. node[n].kids \in Seq(DOMAIN node)
  BY DEF ViewOK, KidsMade
<1>2. KidPaths(n) = {node[c].path : c \in Range(node[n].kids)}
  BY KidPathsAre
<1>3. Range(node[n].kids) = {}
  BY <1>2
<1> QED
  BY <1>1, <1>3, EmptyRange

LEMMA AppendFills ==
    ASSUME ViewOK, NEW n \in DOMAIN node, KidPaths(n) = {}, NEW entries \in Seq(Path),
           AppendRows(n, entries)
    PROVE  Fills(n, entries)
<1> DEFINE ids == [k \in DOMAIN entries |-> Len(node) + k]
<1>1. Grows(n, entries)
  BY AppendGrows
<1>2. GrownNodes(n, entries)
  BY <1>1, GrowsNodes
<1>3. /\ Len(node) \in Nat /\ node \in Seq(Node)
      /\ Len(entries) \in Nat /\ DOMAIN entries = 1 .. Len(entries)
  BY LenProperties DEF ViewOK
<1>4. ids \in [1 .. Len(entries) -> Nat]
  BY <1>3
<1>5. \A k \in DOMAIN entries : ids[k] = Len(node) + k
  OBVIOUS
<1>6. node' = [WithNew(entries) EXCEPT ![n].kids = @ \o ids]
  BY DEF AppendRows
<1> HIDE DEF ids
<1>7. ids \in Seq(Nat) /\ DOMAIN ids = DOMAIN entries
  BY <1>3, <1>4, FunctionIsSeq
<1>8. WithNew(entries)[n] = node[n] /\ WithNew(entries) \in Seq(Node) /\ n \in DOMAIN WithNew(entries)
  BY <1>2, <1>3, NodesMade DEF GrownNodes
<1>9. node' = [WithNew(entries) EXCEPT ![n].kids = ids]
  <2>1. WithNew(entries)[n].kids \o ids = ids
    BY <1>7, <1>8, NoKids, ConcatEmptySeq
  <2> QED
    BY <1>6, <2>1
<1>10. node'[n].kids = ids
  BY <1>7, <1>8, <1>9, SetKids
<1>11. ASSUME NEW k \in DOMAIN entries
       PROVE  /\ node'[node'[n].kids[k]].path = entries[k]
              /\ node'[n].kids[k] \notin DOMAIN node
  BY <1>2, <1>5, <1>10 DEF GrownNodes
<1>12. ASSUME NEW p \in (Path \cup {Root}) \ Range(entries)
       PROVE  reg'[p] = reg[p]
  BY DEF AppendRows, ViewOK
<1>13. Shows(n, entries, entries)
  BY <1>7, <1>10, <1>11, <1>12 DEF Shows
<1> QED
  BY <1>1, <1>13 DEF Fills

\* A failed fetch has nothing to clear in a list that is still empty.
LEMMA ClearsNothing ==
    ASSUME ViewOK, NEW n \in DOMAIN node, KidPaths(n) = {}, ClearRows(n)
    PROVE  node' = node /\ reg' = reg
<1> DEFINE nil == <<>>
           e == [node[n] EXCEPT !.kids = nil]
<1>1. node[n] \in Node /\ node \in Seq(Node)
  BY NodeFields DEF ViewOK
<1>2. node[n].kids = nil
  BY NoKids
<1>3. node' = [node EXCEPT ![n] = e] /\ reg' = reg
  BY DEF ClearRows
<1> HIDE DEF nil
<1>4. e = node[n]
  BY <1>1, <1>2 DEF Node
<1>5. node' = node
  BY <1>1, <1>3, <1>4
<1> QED
  BY <1>3, <1>5

\* The paths of a list that does not change.
LEMMA SameKids ==
    ASSUME ViewOK, PathsStay, NEW n \in DOMAIN node, node'[n].kids = node[n].kids
    PROVE  /\ PathsOf(node[n].kids)' = PathsOf(node[n].kids)
           /\ KidPaths(n)' = KidPaths(n) /\ (Distinct(n) => Distinct(n)')
           /\ Range(node'[n].kids) = Range(node[n].kids)
<1> DEFINE kids == node[n].kids
           f == [k \in DOMAIN kids |-> node[kids[k]].path]
           g == [k \in DOMAIN kids |-> node'[kids[k]].path]
<1>1. \A k \in DOMAIN kids : kids[k] \in DOMAIN node
  BY KidPathsAre
<1>2. \A k \in DOMAIN kids : node'[kids[k]].path = node[kids[k]].path
  BY <1>1 DEF PathsStay
<1>3. f = g
  BY <1>2
<1>4. PathsOf(node[n].kids) = f /\ PathsOf(node[n].kids)' = g
  BY DEF PathsOf
<1>5. PathsOf(node[n].kids)' = PathsOf(node[n].kids)
  BY <1>3, <1>4
<1>6. KidPaths(n)' = Range(PathsOf(node[n].kids)') /\ KidPaths(n) = Range(PathsOf(node[n].kids))
  BY DEF KidPaths
<1>7. (Distinct(n)' <=> IsInjective(PathsOf(node[n].kids)')) /\ (Distinct(n) <=> IsInjective(PathsOf(node[n].kids)))
  BY DEF Distinct
<1> QED
  BY <1>5, <1>6, <1>7

\* The lists after one of them was filled.
FilledView(n, entries) ==
    /\ ViewOK' /\ PathsStay
    /\ \A m \in DOMAIN node :
          /\ node'[m].expanded = node[m].expanded /\ node'[m].ul = node[m].ul
          /\ m # n => /\ KidPaths(m)' = KidPaths(m) /\ (Distinct(m) => Distinct(m)')
                      /\ PathsOf(node[m].kids)' = PathsOf(node[m].kids)
                      /\ Range(node'[m].kids) = Range(node[m].kids)
    /\ PathsOf(node[n].kids)' = entries
    /\ KidPaths(n)' = Range(entries) /\ Distinct(n)'
    /\ Range(node'[n].kids) \subseteq Range(node[n].kids) \cup (DOMAIN node' \ DOMAIN node)
    /\ \A m \in DOMAIN node' \ DOMAIN node :
          /\ Range(node'[m].kids) = {} /\ KidPaths(m)' = {} /\ Distinct(m)'
          /\ ~node'[m].ul /\ ~node'[m].expanded
          /\ node'[m].path \in Range(entries) \ KidPaths(n)
          /\ reg'[node'[m].path] = m
    /\ \A m, l \in DOMAIN node' \ DOMAIN node : node'[m].path = node'[l].path => m = l
    /\ \A p \in Path \cup {Root} :
          \/ reg'[p] = reg[p]
          \/ p \in Range(entries) \ KidPaths(n)
          \/ p \in Purged(KidPaths(n) \ Range(entries))

LEMMA FilledLists ==
    ASSUME ViewOK, NEW n \in DOMAIN node, NEW entries \in Seq(Path), IsInjective(entries),
           Fills(n, entries)
    PROVE  FilledView(n, entries)
<1>1. PICK made : Grows(n, made) /\ Shows(n, entries, made) /\ IsInjective(made)
  BY DEF Fills
<1>2. ViewOK' /\ PathsStay /\ GrownNodes(n, made)
  BY <1>1, GrowsType, GrowsNodes
<1>3. ASSUME NEW m \in DOMAIN node
      PROVE  /\ node'[m].expanded = node[m].expanded /\ node'[m].ul = node[m].ul
             /\ m # n => /\ KidPaths(m)' = KidPaths(m) /\ (Distinct(m) => Distinct(m)')
                         /\ PathsOf(node[m].kids)' = PathsOf(node[m].kids)
                         /\ Range(node'[m].kids) = Range(node[m].kids)
  <2>1. /\ node'[m].expanded = node[m].expanded /\ node'[m].ul = node[m].ul
        /\ m # n => node'[m].kids = node[m].kids
    BY <1>2 DEF GrownNodes
  <2>2. CASE m = n
    BY <2>1, <2>2
  <2>3. CASE m # n
    BY <1>2, <2>1, <2>3, SameKids
  <2> QED
    BY <2>2, <2>3
<1>4. PathsOf(node[n].kids)' = entries
  <2> DEFINE f == [k \in DOMAIN node'[n].kids |-> node'[node'[n].kids[k]].path]
  <2>1. DOMAIN node'[n].kids = DOMAIN entries /\ \A k \in DOMAIN entries : node'[node'[n].kids[k]].path = entries[k]
    BY <1>1 DEF Shows
  <2>2. entries = [k \in DOMAIN entries |-> entries[k]]
    BY LenProperties
  <2>3. f = entries
    BY <2>1, <2>2
  <2> QED
    BY <2>3 DEF PathsOf
<1>5. KidPaths(n)' = Range(entries) /\ Distinct(n)'
  BY <1>4 DEF KidPaths, Distinct
<1>6. Range(node'[n].kids) \subseteq Range(node[n].kids) \cup (DOMAIN node' \ DOMAIN node)
  <2>1. node'[n].kids \in Seq(DOMAIN node') /\ DOMAIN node'[n].kids = DOMAIN entries
    BY <1>1 DEF Grows, Shows
  <2>2. Range(node'[n].kids) \subseteq DOMAIN node'
    BY <2>1, RangeOfSeq
  <2>3. \A k \in DOMAIN entries : node'[n].kids[k] \in Range(node[n].kids) \/ node'[n].kids[k] \notin DOMAIN node
    BY <1>1 DEF Shows
  <2> QED
    BY <2>1, <2>2, <2>3 DEF Range
<1>8. IsInjective(made)
  BY <1>1
<1>7. ASSUME NEW m \in DOMAIN node' \ DOMAIN node
      PROVE  /\ Range(node'[m].kids) = {} /\ KidPaths(m)' = {} /\ Distinct(m)'
             /\ ~node'[m].ul /\ ~node'[m].expanded
             /\ node'[m].path \in Range(entries) \ KidPaths(n)
             /\ reg'[node'[m].path] = m
  <2>1. PICK k \in DOMAIN made : m = Len(node) + k
    BY <1>2 DEF GrownNodes
  <2>2. /\ node'[m].path = made[k] /\ node'[m].kids \in Seq({})
        /\ node'[m].ul = FALSE /\ node'[m].expanded = FALSE
    BY <1>2, <2>1 DEF GrownNodes
  <2>3. DOMAIN node'[m].kids = {}
    BY <2>2, LenProperties, ElementOfSeq
  <2>4. Range(node'[m].kids) = {}
    BY <2>3 DEF Range
  <2>5. DOMAIN PathsOf(node[m].kids)' = {}
    BY <2>3 DEF PathsOf
  <2>6. KidPaths(m)' = {} /\ Distinct(m)'
    BY <2>5 DEF KidPaths, Distinct, Range, IsInjective
  <2>7. made[k] \in Range(made)
    BY DEF Range
  <2>8. made[k] \in Range(entries) \ KidPaths(n)
    BY <1>1, <2>7 DEF Shows
  <2>9. PICK j \in DOMAIN made : made[j] = made[k] /\ reg'[made[k]] = Len(node) + j
    BY <1>1, <2>7 DEF Grows
  <2>10. j = k
    BY <1>8, <2>9 DEF IsInjective
  <2> QED
    BY <2>1, <2>2, <2>4, <2>6, <2>8, <2>9, <2>10
<1>9. ASSUME NEW m \in DOMAIN node' \ DOMAIN node, NEW l \in DOMAIN node' \ DOMAIN node,
             node'[m].path = node'[l].path
      PROVE  m = l
  <2>1. PICK k \in DOMAIN made : m = Len(node) + k
    BY <1>2 DEF GrownNodes
  <2>2. PICK j \in DOMAIN made : l = Len(node) + j
    BY <1>2 DEF GrownNodes
  <2>3. made[k] = made[j]
    BY <1>2, <1>9, <2>1, <2>2 DEF GrownNodes
  <2> QED
    BY <1>8, <2>1, <2>2, <2>3 DEF IsInjective
<1>10. ASSUME NEW p \in Path \cup {Root}
       PROVE  \/ reg'[p] = reg[p]
              \/ p \in Range(entries) \ KidPaths(n)
              \/ p \in Purged(KidPaths(n) \ Range(entries))
  BY <1>1 DEF Shows
<1> QED
  BY <1>2, <1>3, <1>4, <1>5, <1>6, <1>7, <1>9, <1>10 DEF FilledView
-----------------------------------------------------------------------------
(***************************************************************************)
(* Links.  The rows in a list are those of paths in its directory, one for *)
(* each; no directory ever has two nodes.                                  *)
(***************************************************************************)
Links ==
    /\ \A n \in DOMAIN node :
          /\ \A p \in KidPaths(n) : p \in Path /\ Parent[p] = node[n].path
          /\ Distinct(n) /\ (~node[n].ul => KidPaths(n) = {})
    /\ \A n, m \in DOMAIN node : node[n].path = node[m].path /\ node[n].path \in AnyDir => n = m
    /\ reg[Root] = 1 /\ node[1].ul

\* Entries that the list of n may be filled with.
Fitting(n, entries) ==
    /\ n \in DOMAIN node /\ node[n].path \in AnyDir /\ node[n].ul
    /\ entries \in Seq(Path) /\ IsInjective(entries)
    /\ \A p \in Range(entries) :
          /\ Parent[p] = node[n].path
          /\ p \in DirPath /\ p \notin KidPaths(n) => \A m \in DOMAIN node : node[m].path # p

LEMMA PurgedType ==
    ASSUME NEW gone, gone \subseteq Path
    PROVE  Purged(gone) \subseteq Path
BY PurgedWithin

LEMMA FilledLinks ==
    ASSUME ViewOK, OpenOK, Links, NEW n, NEW entries, Fitting(n, entries), Fills(n, entries)
    PROVE  Links'
<1>1. FilledView(n, entries) /\ n \in DOMAIN node
  BY FilledLists DEF Fitting
<1>2. \A m \in DOMAIN node' : m \in DOMAIN node \/ m \in DOMAIN node' \ DOMAIN node
  OBVIOUS
<1>3. \A m \in DOMAIN node : m \in DOMAIN node' /\ node'[m].path = node[m].path
  BY <1>1 DEF FilledView, PathsStay
<1>4. Range(entries) \subseteq Path
  BY RangeOfSeq DEF Fitting
<1>5. ASSUME NEW m \in DOMAIN node'
      PROVE  /\ \A p \in KidPaths(m)' : p \in Path /\ Parent[p] = node'[m].path
             /\ Distinct(m)' /\ (~node'[m].ul => KidPaths(m)' = {})
  <2>1. CASE m = n
    <3>1. KidPaths(m)' = Range(entries) /\ Distinct(m)' /\ node'[m].ul /\ node'[m].path = node[m].path
      BY <1>1, <1>3, <2>1 DEF FilledView, Fitting
    <3> QED
      BY <1>4, <2>1, <3>1 DEF Fitting
  <2>2. CASE m \in DOMAIN node /\ m # n
    <3>1. /\ KidPaths(m)' = KidPaths(m) /\ (Distinct(m) => Distinct(m)')
          /\ node'[m].ul = node[m].ul /\ node'[m].path = node[m].path
      BY <1>1, <1>3, <2>2 DEF FilledView
    <3> QED
      BY <2>2, <3>1 DEF Links
  <2>3. CASE m \in DOMAIN node' \ DOMAIN node
    BY <1>1, <2>3 DEF FilledView
  <2> QED
    BY <1>2, <2>1, <2>2, <2>3
<1>6. ASSUME NEW m \in DOMAIN node', NEW l \in DOMAIN node', node'[m].path = node'[l].path,
             node'[m].path \in AnyDir
      PROVE  m = l
  <2>1. ASSUME NEW x \in DOMAIN node, NEW y \in DOMAIN node' \ DOMAIN node, node'[y].path \in AnyDir
        PROVE  node'[x].path # node'[y].path
    <3>1. node'[y].path \in Range(entries) /\ node'[y].path \notin KidPaths(n)
      BY <1>1 DEF FilledView
    <3>2. node'[y].path \in DirPath
      BY <1>4, <2>1, <3>1, PathTypes DEF AnyDir
    <3> QED
      BY <1>3, <3>1, <3>2 DEF Fitting
  <2>2. CASE m \in DOMAIN node /\ l \in DOMAIN node
    BY <1>3, <1>6, <2>2 DEF Links
  <2>3. CASE m \notin DOMAIN node /\ l \notin DOMAIN node
    BY <1>1, <1>6, <2>3 DEF FilledView
  <2>4. CASE m \in DOMAIN node /\ l \notin DOMAIN node
    BY <1>6, <2>1, <2>4
  <2>5. CASE m \notin DOMAIN node /\ l \in DOMAIN node
    BY <1>6, <2>1, <2>5
  <2> QED
    BY <2>2, <2>3, <2>4, <2>5
<1>7. reg'[Root] = 1
  <2>1. Root \notin Path
    BY PathTypes
  <2>2. Root \notin Range(entries)
    BY <1>4, <2>1
  <2>3. Root \notin Purged(KidPaths(n) \ Range(entries))
    <3>1. KidPaths(n) \subseteq Path
      BY <1>1 DEF Links
    <3> QED
      BY <2>1, <3>1, PurgedType
  <2>4. reg'[Root] = reg[Root]
    BY <1>1, <2>2, <2>3 DEF FilledView
  <2> QED
    BY <2>4 DEF Links
<1>8. node'[1].ul
  BY <1>1 DEF FilledView, Links, OpenOK
<1> QED
  BY <1>5, <1>6, <1>7, <1>8 DEF Links

\* A row has the path of an entry in the list it is in.
LEMMA RowPath ==
    ASSUME ViewOK, NEW x \in DOMAIN node, NEW m \in Range(node[x].kids)
    PROVE  m \in DOMAIN node /\ node[m].path \in KidPaths(x)
BY KidPathsAre

LEMMA RowPathNext ==
    ViewOK => \A x \in DOMAIN node : \A m \in Range(node[x].kids) :
                 m \in DOMAIN node /\ node[m].path \in KidPaths(x)
BY RowPath

LEMMA RowPathLater ==
    ViewOK' => \A x \in DOMAIN node' : \A m \in Range(node'[x].kids) :
                 m \in DOMAIN node' /\ node'[m].path \in KidPaths(x)'
<1>1. ViewOK' => (\A x \in DOMAIN node : \A m \in Range(node[x].kids) :
                 m \in DOMAIN node /\ node[m].path \in KidPaths(x))'
  BY RowPathNext, PTL
<1> QED
  BY <1>1

LEMMA ShownBelowNext ==
    ViewOK' /\ (1 \in DOMAIN node)'
      => (/\ 1 \in Shown /\ Shown \subseteq DOMAIN node
          /\ \A m \in Shown : m = 1 \/ \E x \in Shown : m \in Range(node[x].kids))'
BY ShownBelow, PTL

\* What a step must not do to the rows of the user.
Survives ==
    \A n \in Shown : n \notin Shown' => \A m \in Shown' : node'[m].path # node[n].path

\* Filling a list leaves every row on the page registered, and takes only
\* rows off it whose path goes too.
LEMMA FilledRows ==
    ASSUME ViewOK, OpenOK, Links, RowsAreRegistered, OpenOK',
           NEW n, NEW entries, Fitting(n, entries), Fills(n, entries)
    PROVE  RowsAreRegistered' /\ Survives
<1> DEFINE New == DOMAIN node' \ DOMAIN node
<1>1. FilledView(n, entries) /\ n \in DOMAIN node /\ node[n].path \in AnyDir
  BY FilledLists DEF Fitting
<1>2. Links' /\ ViewOK'
  BY <1>1, FilledLinks DEF FilledView
<1>3. 1 \in DOMAIN node /\ node[1].path = Root /\ 1 \in DOMAIN node'
  BY DEF OpenOK
<1>4. \A m \in DOMAIN node : m \in DOMAIN node' /\ node'[m].path = node[m].path
  BY <1>1 DEF FilledView, PathsStay
<1>5. Shown' \subseteq Shown \cup New
  <2>1. \A x \in DOMAIN node : Range(node'[x].kids) \subseteq Range(node[x].kids) \cup New
    <3> TAKE x \in DOMAIN node
    <3>1. CASE x = n
      BY <1>1, <3>1 DEF FilledView
    <3>2. CASE x # n
      BY <1>1, <3>2 DEF FilledView
    <3> QED
      BY <3>1, <3>2
  <2>2. \A x \in New : Range(node'[x].kids) \subseteq New
    BY <1>1 DEF FilledView
  <2> HIDE DEF New
  <2> QED
    BY <1>2, <1>3, <2>1, <2>2, ShownGrows
<1>6. /\ Shown \subseteq DOMAIN node
      /\ \A m \in Shown : m = 1 \/ \E x \in Shown : m \in Range(node[x].kids)
  BY <1>3, ShownBelow
<1>7. /\ Shown' \subseteq DOMAIN node'
      /\ \A m \in Shown' : m = 1 \/ \E x \in Shown' : m \in Range(node'[x].kids)
  BY <1>2, <1>3, ShownBelowNext
\* A row of an entry that n lacks is not on the page.
<1>8. ASSUME NEW m \in Shown, node[m].path \in Range(entries) \ KidPaths(n)
      PROVE  FALSE
  <2>1. node[m].path \in Path /\ Parent[node[m].path] = node[n].path
    BY <1>8, RangeOfSeq DEF Fitting
  <2>2. m # 1
    BY <1>3, <2>1, PathTypes
  <2>3. PICK x \in Shown : m \in Range(node[x].kids)
    BY <1>6, <2>2
  <2>4. x \in DOMAIN node /\ node[m].path \in KidPaths(x)
    BY <1>6, <2>3, RowPath
  <2>5. Parent[node[m].path] = node[x].path
    BY <2>4 DEF Links
  <2>6. x = n
    BY <1>1, <2>1, <2>4, <2>5 DEF Links
  <2> QED
    BY <1>8, <2>4, <2>6
\* The row above one that stays.
<1>9. ASSUME NEW m \in Shown', m \in DOMAIN node, node[m].path \in Path
      PROVE  \E x \in Shown' : /\ x \in DOMAIN node /\ node[m].path \in KidPaths(x)'
                               /\ Parent[node[m].path] = node[x].path
  <2>1. m # 1
    BY <1>3, <1>9, PathTypes
  <2>2. PICK x \in Shown' : m \in Range(node'[x].kids)
    BY <1>7, <2>1
  <2>3. x \in DOMAIN node
    <3>1. x \in DOMAIN node'
      BY <1>7
    <3>2. x \in New => Range(node'[x].kids) = {}
      BY <1>1 DEF FilledView
    <3> QED
      BY <2>2, <3>1, <3>2
  <2>4. node'[m].path \in KidPaths(x)' /\ x \in DOMAIN node'
    BY <1>2, <1>7, <2>2, RowPathLater
  <2>5. Parent[node'[m].path] = node'[x].path
    BY <1>2, <2>4 DEF Links
  <2> QED
    BY <1>4, <1>9, <2>3, <2>4, <2>5
<1> DEFINE gone == KidPaths(n) \ Range(entries)
           B == {p \in Path : \A m \in Shown' : m \in DOMAIN node => node[m].path # p}
<1>10. Purged(gone) \subseteq B
  <2>1. gone \subseteq Path
    BY <1>1 DEF Links
  <2>2. ASSUME NEW p \in gone PROVE p \in B
    <3> SUFFICES ASSUME NEW m \in Shown', m \in DOMAIN node, node[m].path = p PROVE FALSE
      BY <2>1
    <3>1. PICK x \in Shown' : /\ x \in DOMAIN node /\ p \in KidPaths(x)'
                              /\ Parent[p] = node[x].path
      BY <1>9, <2>1
    <3>2. Parent[p] = node[n].path
      BY <1>1 DEF Links
    <3>3. x = n
      BY <1>1, <3>1, <3>2 DEF Links
    <3>4. KidPaths(n)' = Range(entries)
      BY <1>1 DEF FilledView
    <3> QED
      BY <3>1, <3>3, <3>4
  <2>3. ASSUME NEW p \in B, NEW q \in Path, reg[p] # 0, reg[q] # 0,
               q \in Range(PathsOf(node[reg[p]].kids))
        PROVE  q \in B
    <3> SUFFICES ASSUME NEW m \in Shown', m \in DOMAIN node, node[m].path = q PROVE FALSE
      OBVIOUS
    <3>1. PICK x \in Shown' : /\ x \in DOMAIN node /\ Parent[q] = node[x].path
      BY <1>9
    <3>2. reg[p] \in DOMAIN node /\ node[reg[p]].path = p
      <4>1. reg \in [Path \cup {Root} -> 0 .. Len(node)] /\ Len(node) \in Nat /\ DOMAIN node = 1 .. Len(node)
        BY LenProperties DEF ViewOK
      <4>2. p \in Path \cup {Root}
        OBVIOUS
      <4>3. reg[p] \in 0 .. Len(node)
        BY <4>1, <4>2
      <4> QED
        BY <2>3, <4>1, <4>2, <4>3 DEF ViewOK, Named
    <3>3. q \in KidPaths(reg[p])
      BY <2>3 DEF KidPaths
    <3>4. Parent[q] = p
      BY <3>2, <3>3 DEF Links
    <3> QED
      BY <3>1, <3>4
  <2> HIDE DEF B, gone
  <2>4. gone \subseteq Path \cup {Root}
    BY <2>1
  <2> QED
    BY <2>2, <2>3, <2>4, PurgedWithin
<1>11. ASSUME NEW m \in Shown' PROVE reg'[node'[m].path] = m
  <2>1. CASE m \in New
    BY <1>1, <2>1 DEF FilledView
  <2>2. CASE m \notin New
    <3>1. m \in Shown /\ m \in DOMAIN node /\ node'[m].path = node[m].path
      BY <1>4, <1>5, <1>6, <2>2
    <3>2. node[m].path \in Path \cup {Root}
      BY <3>1, NodeFields DEF ViewOK
    <3>3. node[m].path \notin Range(entries) \ KidPaths(n)
      BY <1>8, <3>1
    <3>4. node[m].path \notin Purged(gone)
      BY <1>10, <3>1
    <3>5. reg'[node[m].path] = reg[node[m].path]
      BY <1>1, <3>2, <3>3, <3>4 DEF FilledView
    <3> QED
      BY <3>1, <3>5 DEF RowsAreRegistered
  <2> QED
    BY <2>1, <2>2
<1>12. ASSUME NEW l \in Shown, l \notin Shown', NEW m \in Shown', node'[m].path = node[l].path
       PROVE  FALSE
  <2>1. CASE m \in New
    <3>1. node'[m].path \in Range(entries) \ KidPaths(n)
      BY <1>1, <2>1 DEF FilledView
    <3> QED
      BY <1>8, <1>12, <3>1
  <2>2. CASE m \notin New
    <3>1. m \in Shown /\ node'[m].path = node[m].path
      BY <1>4, <1>5, <1>6, <2>2
    <3>2. m = l
      BY <1>12, <3>1 DEF RowsAreRegistered
    <3> QED
      BY <1>12, <3>2
  <2> QED
    BY <2>1, <2>2
<1>13. RowsAreRegistered'
  BY <1>11 DEF RowsAreRegistered
<1>14. Survives
  BY <1>12 DEF Survives
<1> QED
  BY <1>13, <1>14

\* No list changes, and none is lost.
Kept ==
    /\ PathsStay /\ DOMAIN node' = DOMAIN node /\ reg' = reg
    /\ \A m \in DOMAIN node :
          /\ KidPaths(m)' = KidPaths(m) /\ (Distinct(m) => Distinct(m)')
          /\ PathsOf(node[m].kids)' = PathsOf(node[m].kids)
          /\ Range(node'[m].kids) = Range(node[m].kids)
          /\ node[m].ul => node'[m].ul

LEMMA FlipsKeep ==
    ASSUME ViewOK, Flips
    PROVE  Kept /\ ViewOK'
<1>1. ViewOK' /\ PathsStay /\ DOMAIN node' = DOMAIN node
  BY FlipsType
<1>2. ASSUME NEW m \in DOMAIN node
      PROVE  /\ KidPaths(m)' = KidPaths(m) /\ (Distinct(m) => Distinct(m)')
             /\ PathsOf(node[m].kids)' = PathsOf(node[m].kids)
             /\ Range(node'[m].kids) = Range(node[m].kids)
             /\ node[m].ul => node'[m].ul
  <2>1. node'[m].kids = node[m].kids /\ (node[m].ul => node'[m].ul)
    BY DEF Flips
  <2> QED
    BY <1>1, <2>1, SameKids
<1> QED
  BY <1>1, <1>2 DEF Kept, Flips

LEMMA SameFlips ==
    ASSUME ViewOK, node' = node, reg' = reg
    PROVE  Flips
BY DEF ViewOK, Flips

LEMMA KeptLinks ==
    ASSUME Links, OpenOK, Kept
    PROVE  Links'
<1>1. \A m \in DOMAIN node : node'[m].path = node[m].path
  BY DEF Kept, PathsStay
<1>2. DOMAIN node' = DOMAIN node
  BY DEF Kept
<1>3. ASSUME NEW m \in DOMAIN node'
      PROVE  /\ \A p \in KidPaths(m)' : p \in Path /\ Parent[p] = node'[m].path
             /\ Distinct(m)' /\ (~node'[m].ul => KidPaths(m)' = {})
  <2>1. /\ KidPaths(m)' = KidPaths(m) /\ (Distinct(m) => Distinct(m)')
        /\ node'[m].path = node[m].path /\ (node[m].ul => node'[m].ul)
    BY <1>1, <1>2 DEF Kept
  <2> QED
    BY <1>2, <2>1 DEF Links
<1>4. \A m, l \in DOMAIN node' : node'[m].path = node'[l].path /\ node'[m].path \in AnyDir => m = l
  BY <1>1, <1>2 DEF Links
<1>5. reg'[Root] = 1 /\ node'[1].ul
  BY DEF Kept, Links, OpenOK
<1> QED
  BY <1>3, <1>4, <1>5 DEF Links

LEMMA KeptRows ==
    ASSUME ViewOK, ViewOK', OpenOK, RowsAreRegistered, Kept
    PROVE  RowsAreRegistered' /\ Survives /\ Shown' \subseteq Shown
<1>1. 1 \in DOMAIN node /\ 1 \in DOMAIN node'
  BY DEF OpenOK, Kept
<1>2. Shown' \subseteq Shown \cup {}
  <2>1. \A x \in DOMAIN node : Range(node'[x].kids) \subseteq Range(node[x].kids) \cup {}
    BY DEF Kept
  <2>2. \A x \in {} : Range(node'[x].kids) \subseteq {}
    OBVIOUS
  <2> QED
    BY <1>1, <2>1, <2>2, ShownGrows
<1>3. Shown \subseteq DOMAIN node
  BY <1>1, ShownBelow
<1>4. \A m \in Shown' : m \in Shown /\ node'[m].path = node[m].path
  BY <1>2, <1>3 DEF Kept, PathsStay
<1>5. RowsAreRegistered'
  BY <1>4 DEF RowsAreRegistered, Kept
<1>6. Survives
  BY <1>4 DEF RowsAreRegistered, Survives
<1> QED
  BY <1>2, <1>5, <1>6
-----------------------------------------------------------------------------
(***************************************************************************)
(* When requests for one directory keep their order and no directory comes *)
(* back, the answers that are out agree on when each directory was removed *)
(* and none of them lists one again whose row has gone.                    *)
(***************************************************************************)
Calm == ~Reorder /\ ~Reuse

DiskInv == removed \cap disk = {} /\ \A p \in disk : Exists(Parent[p])

\* A directory with a node has existed.
Existed == \A n \in DOMAIN node : node[n].path \in DirPath => node[n].path \in disk \cup removed

\* A request is for the node of its directory, its answer for that directory.
Fits(i) ==
    /\ node[reqs[i].to].path = reqs[i].dir /\ node[reqs[i].to].ul
    /\ reqs[i].answer \notin {Unread, Failed} => IsInjective(reqs[i].answer)
    /\ \A p \in Range(reqs[i].answer) \cap Path :
          Parent[p] = reqs[i].dir /\ (p \in DirPath => p \in disk \cup removed)

\* The first fetch of a list comes first, and finds it empty.
FirstFetch(i) ==
    reqs[i].use \in {"toggle", "render"} =>
       /\ \A n \in DOMAIN node : n = reqs[i].to => KidPaths(n) = {}
       /\ \A j \in DOMAIN reqs : reqs[j].dir = reqs[i].dir => i <= j

Asked == \A i \in DOMAIN reqs : Fits(i) /\ FirstFetch(i)

IsRead(i) == reqs[i].answer # Unread
InOrder == \A i, j \in DOMAIN reqs : i < j /\ reqs[i].dir = reqs[j].dir /\ IsRead(j) => IsRead(i)

In(i, p) == reqs[i].dir = Parent[p] /\ p \in Range(reqs[i].answer)
Lacks(i, p) == reqs[i].dir = Parent[p] /\ IsRead(i) /\ p \notin Range(reqs[i].answer)
GoneAfter(i, p) == p \in removed /\ \A k \in DOMAIN reqs : k > i => ~In(k, p)

HasNode(p) == \E n \in DOMAIN node : node[n].path = p
Hangs(p) == \E n \in DOMAIN node : p \in KidPaths(n)

GoesOnce(p) ==
    /\ \A i, j \in DOMAIN reqs : i < j /\ In(i, p) /\ Lacks(j, p) => GoneAfter(j, p)
    /\ \A j \in DOMAIN reqs : HasNode(p) /\ Lacks(j, p) => GoneAfter(j, p)
    /\ HasNode(p) /\ ~Hangs(p) => GoneAfter(0, p)

Convex == \A p \in DirPath : GoesOnce(p)

CalmInv ==
    /\ Calm /\ DiskInv /\ Existed /\ Links /\ Asked /\ InOrder /\ Convex
    /\ RowsAreRegistered

LEMMA PathIsNoMark ==
    /\ Range(Unread) = {Root} /\ Range(Failed) = {Root} /\ Unread # Failed
    /\ \A p \in Path : p \notin Range(Unread)
    /\ Unread \notin Seq(Path) /\ Failed \notin Seq(Path)
<1> DEFINE one == <<Root>>
           two == <<Root, Root>>
<1>1. DOMAIN one = {1} /\ one[1] = Root /\ DOMAIN two = {1, 2} /\ two[1] = Root /\ two[2] = Root
  OBVIOUS
<1>2. one # two
  OBVIOUS
<1> HIDE DEF one, two
<1>3. Range(one) = {Root} /\ Range(two) = {Root}
  BY <1>1 DEF Range
<1>4. Root \notin Path
  BY PathTypes
<1>5. \A s \in Seq(Path) : Range(s) \subseteq Path
  BY RangeOfSeq
<1>6. two \notin Seq(Path) /\ one \notin Seq(Path)
  BY <1>3, <1>4, <1>5
<1> QED
  BY <1>2, <1>3, <1>4, <1>6 DEF Unread, Failed, one, two

\* A request with an answer is an old one.
LEMMA MoreRead ==
    ASSUME MoreAsked, NEW i \in DOMAIN reqs', reqs'[i].answer # Unread
    PROVE  i \in DOMAIN reqs /\ reqs'[i] = reqs[i]
BY OldOrNew DEF NewRequest

LEMMA MoreIn ==
    ASSUME MoreAsked, NEW p \in Path, NEW i \in DOMAIN reqs'
    PROVE  /\ In(i, p)' => i \in DOMAIN reqs /\ In(i, p)
           /\ Lacks(i, p)' => i \in DOMAIN reqs /\ Lacks(i, p)
<1>1. CASE i \in DOMAIN reqs /\ reqs'[i] = reqs[i]
  BY <1>1 DEF In, Lacks, IsRead
<1>2. CASE reqs'[i].answer = Unread
  <2>1. ~In(i, p)'
    BY <1>2, PathIsNoMark DEF In
  <2>2. ~Lacks(i, p)'
    BY <1>2 DEF Lacks, IsRead
  <2> QED
    BY <2>1, <2>2
<1> QED
  BY <1>1, <1>2, OldOrNew DEF NewRequest

LEMMA MoreInOrder ==
    ASSUME InOrder, MoreAsked
    PROVE  InOrder'
<1> SUFFICES ASSUME NEW i \in DOMAIN reqs', NEW j \in DOMAIN reqs', i < j,
                    reqs'[i].dir = reqs'[j].dir, reqs'[j].answer # Unread
             PROVE  reqs'[i].answer # Unread
  BY DEF InOrder, IsRead
<1>1. j \in DOMAIN reqs /\ reqs'[j] = reqs[j]
  BY MoreRead
<1>2. Len(reqs) \in Nat /\ Len(reqs') \in Nat /\ DOMAIN reqs = 1 .. Len(reqs) /\ DOMAIN reqs' = 1 .. Len(reqs')
  BY DEF MoreAsked
<1>3. i \in DOMAIN reqs /\ i \in 1 .. Len(reqs)
  BY <1>1, <1>2
<1>4. reqs'[i] = reqs[i]
  BY <1>3 DEF MoreAsked
<1> QED
  BY <1>1, <1>3, <1>4 DEF InOrder, IsRead

\* No node and no answer is new: what has been removed stays so.
LEMMA MoreConvex ==
    ASSUME Convex, MoreAsked, Kept, removed \subseteq removed'
    PROVE  Convex'
<1> SUFFICES ASSUME NEW p \in DirPath PROVE GoesOnce(p)'
  BY DEF Convex
<1>1. ASSUME NEW i \in DOMAIN reqs'
      PROVE  /\ In(i, p)' => i \in DOMAIN reqs /\ In(i, p)
             /\ Lacks(i, p)' => i \in DOMAIN reqs /\ Lacks(i, p)
  BY MoreIn, PathTypes
<1>2. ASSUME NEW j, GoneAfter(j, p) PROVE GoneAfter(j, p)'
  BY <1>1, <1>2 DEF GoneAfter
<1>3. HasNode(p)' => HasNode(p)
  BY DEF HasNode, Kept, PathsStay
<1>4. ~Hangs(p)' => ~Hangs(p)
  BY DEF Hangs, Kept
<1>5. /\ \A i, j \in DOMAIN reqs : i < j /\ In(i, p) /\ Lacks(j, p) => GoneAfter(j, p)
      /\ \A j \in DOMAIN reqs : HasNode(p) /\ Lacks(j, p) => GoneAfter(j, p)
      /\ HasNode(p) /\ ~Hangs(p) => GoneAfter(0, p)
  BY DEF Convex, GoesOnce
<1>6. ASSUME NEW i \in DOMAIN reqs', NEW j \in DOMAIN reqs', i < j, In(i, p)', Lacks(j, p)'
      PROVE  GoneAfter(j, p)'
  BY <1>1, <1>2, <1>5, <1>6
<1>7. ASSUME NEW j \in DOMAIN reqs', HasNode(p)', Lacks(j, p)'
      PROVE  GoneAfter(j, p)'
  BY <1>1, <1>2, <1>3, <1>5, <1>7
<1>8. HasNode(p)' /\ ~Hangs(p)' => GoneAfter(0, p)'
  BY <1>2, <1>3, <1>4, <1>5
<1> QED
  BY <1>6, <1>7, <1>8 DEF GoesOnce

\* New requests are for nodes that get their list; a first fetch is the only
\* request for its directory.
LEMMA MoreFits ==
    ASSUME Asked, ReqsOK, Links, MoreAsked, Kept,
           DirPath \cap (disk \cup removed) \subseteq disk' \cup removed',
           \A i \in Len(reqs) + 1 .. Len(reqs') : node'[reqs'[i].to].ul,
           \A i \in Len(reqs) + 1 .. Len(reqs') : reqs'[i].dir \in AnyDir
    PROVE  Asked'
<1>1. /\ \A m \in DOMAIN node : node'[m].path = node[m].path /\ KidPaths(m)' = KidPaths(m)
                                /\ (node[m].ul => node'[m].ul)
      /\ DOMAIN node' = DOMAIN node
  BY DEF Kept, PathsStay
<1>2. Len(reqs) \in Nat /\ Len(reqs') \in Nat /\ DOMAIN reqs = 1 .. Len(reqs) /\ DOMAIN reqs' = 1 .. Len(reqs')
  BY DEF MoreAsked
<1>3. ASSUME NEW i \in DOMAIN reqs' PROVE Fits(i)'
  <2>1. CASE i \in DOMAIN reqs /\ reqs'[i] = reqs[i]
    <3>1. Fits(i) /\ reqs[i].to \in DOMAIN node
      BY <2>1 DEF Asked, ReqsOK
    <3> QED
      BY <1>1, <2>1, <3>1 DEF Fits
  <2>2. CASE i \in Len(reqs) + 1 .. Len(reqs') /\ NewRequest(reqs'[i])
    <3>1. reqs'[i].to \in DOMAIN node /\ node[reqs'[i].to].path = reqs'[i].dir /\ reqs'[i].answer = Unread
      BY <2>2 DEF NewRequest
    <3>2. node'[reqs'[i].to].ul
      BY <2>2
    <3>3. Range(reqs'[i].answer) \cap Path = {}
      BY <3>1, PathIsNoMark
    <3> QED
      BY <1>1, <3>1, <3>2, <3>3 DEF Fits
  <2> QED
    BY <2>1, <2>2, OldOrNew
<1>4. ASSUME NEW i \in DOMAIN reqs', reqs'[i].use \in {"toggle", "render"}
      PROVE  /\ \A n \in DOMAIN node' : n = reqs'[i].to => KidPaths(n)' = {}
             /\ \A j \in DOMAIN reqs' : reqs'[j].dir = reqs'[i].dir => i <= j
  <2>1. CASE i \in DOMAIN reqs /\ reqs'[i] = reqs[i]
    <3>1. FirstFetch(i) /\ reqs[i].to \in DOMAIN node
      BY <2>1 DEF Asked, ReqsOK
    <3>2. \A n \in DOMAIN node' : n = reqs'[i].to => KidPaths(n)' = {}
      BY <1>1, <1>4, <2>1, <3>1 DEF FirstFetch
    <3>3. ASSUME NEW j \in DOMAIN reqs', reqs'[j].dir = reqs'[i].dir PROVE i <= j
      <4>1. CASE j \in DOMAIN reqs /\ reqs'[j] = reqs[j]
        BY <1>4, <2>1, <3>1, <3>3, <4>1 DEF FirstFetch
      <4>2. CASE \A k \in DOMAIN reqs : k < j
        BY <1>2, <2>1, <4>2
      <4> QED
        BY <4>1, <4>2, OldOrNew
    <3> QED
      BY <3>2, <3>3
  <2>2. CASE i \in Len(reqs) + 1 .. Len(reqs') /\ NewRequest(reqs'[i])
    <3>1. /\ reqs'[i].use = "toggle" /\ reqs'[i].to \in DOMAIN node /\ ~node[reqs'[i].to].ul
          /\ node[reqs'[i].to].path = reqs'[i].dir /\ reqs'[i].dir \in AnyDir
      BY <1>4, <2>2 DEF NewRequest
    <3>2. \A n \in DOMAIN node' : n = reqs'[i].to => KidPaths(n)' = {}
      BY <1>1, <3>1 DEF Links
    <3>3. Len(reqs') = Len(reqs) + 1
      BY <2>2, <3>1 DEF MoreAsked
    <3>4. ASSUME NEW j \in DOMAIN reqs', reqs'[j].dir = reqs'[i].dir PROVE i <= j
      <4>1. CASE j \in DOMAIN reqs /\ reqs'[j] = reqs[j]
        <5>1. Fits(j) /\ reqs[j].to \in DOMAIN node
          BY <4>1 DEF Asked, ReqsOK
        <5>2. node[reqs[j].to].path = reqs'[i].dir /\ node[reqs[j].to].ul
          BY <3>4, <4>1, <5>1 DEF Fits
        <5>3. reqs[j].to = reqs'[i].to
          BY <3>1, <5>1, <5>2 DEF Links
        <5> QED
          BY <3>1, <5>2, <5>3
      <4>2. CASE j \in Len(reqs) + 1 .. Len(reqs')
        BY <1>2, <2>2, <3>3, <4>2
      <4> QED
        BY <4>1, <4>2, OldOrNew
    <3> QED
      BY <3>2, <3>4
  <2> QED
    BY <2>1, <2>2, OldOrNew
<1> QED
  BY <1>3, <1>4 DEF Asked, FirstFetch

\* A step that leaves the lists alone and at most adds requests.
LEMMA QuietCalm ==
    ASSUME TypeInv, TypeInv', CalmInv, Flips, MoreAsked, DiskInv',
           removed \subseteq removed', DirPath \cap (disk \cup removed) \subseteq disk' \cup removed',
           \A i \in Len(reqs) + 1 .. Len(reqs') : node'[reqs'[i].to].ul
    PROVE  CalmInv' /\ Survives
<1>1. /\ ViewOK /\ OpenOK /\ ReqsOK /\ ViewOK'
      /\ Calm /\ DiskInv /\ Existed /\ Links /\ Asked /\ InOrder /\ Convex /\ RowsAreRegistered
  BY DEF TypeInv, CalmInv
<1>2. Kept
  BY <1>1, FlipsKeep
<1>3. Links' /\ RowsAreRegistered' /\ Survives
  BY <1>1, <1>2, KeptLinks, KeptRows
<1>4. \A i \in Len(reqs) + 1 .. Len(reqs') : reqs'[i].dir \in AnyDir
  <2> TAKE i \in Len(reqs) + 1 .. Len(reqs')
  <2>1. reqs'[i] \in Request
    BY DEF MoreAsked, NewRequest
  <2> QED
    BY <2>1 DEF Request
<1>5. Asked' /\ InOrder' /\ Convex'
  BY <1>1, <1>2, <1>4, MoreFits, MoreInOrder, MoreConvex
<1>6. Existed'
  BY <1>1, <1>2 DEF Existed, Kept, PathsStay
<1>7. Calm'
  BY <1>1 DEF Calm
<1> QED
  BY <1>3, <1>5, <1>6, <1>7 DEF CalmInv

\* ... and leaves everything else that the invariant is about alone too.
LEMMA StillCalm ==
    ASSUME TypeInv, TypeInv', CalmInv, node' = node, reg' = reg, reqs' = reqs,
           disk' = disk, removed' = removed
    PROVE  CalmInv' /\ Survives
<1>1. ViewOK /\ ReqsOK /\ DiskInv
  BY DEF TypeInv, CalmInv
<1>2. Flips /\ MoreAsked
  BY <1>1, SameFlips, NoneAsked
<1>3. \A i \in Len(reqs) + 1 .. Len(reqs') : FALSE
  BY <1>1, LenProperties DEF ReqsOK
<1>4. DiskInv'
  BY <1>1 DEF DiskInv, Exists
<1> QED
  BY <1>2, <1>3, <1>4, QuietCalm

LEMMA FsCalm ==
    ASSUME TypeInv, TypeInv', CalmInv, NEW p \in Path, FsCreate(p) \/ FsRemove(p)
    PROVE  CalmInv' /\ Survives
<1>1. ViewOK /\ ReqsOK /\ DiskInv /\ ~Reuse /\ disk \subseteq Path /\ removed \subseteq DirPath
  BY DEF TypeInv, CalmInv, Calm, RestOK
<1>2. node' = node /\ reg' = reg /\ reqs' = reqs
  BY DEF FsCreate, FsRemove, viewVars
<1>3. Flips /\ MoreAsked
  BY <1>1, <1>2, SameFlips, NoneAsked
<1>4. \A i \in Len(reqs) + 1 .. Len(reqs') : FALSE
  BY <1>1, <1>2, LenProperties DEF ReqsOK
<1>5. DiskInv' /\ removed \subseteq removed'
  <2>1. CASE FsCreate(p)
    <3>1. disk' = disk \cup {p} /\ removed' = removed /\ p \notin removed /\ Exists(Parent[p])
      BY <1>1, <2>1 DEF FsCreate
    <3> QED
      BY <1>1, <3>1 DEF DiskInv, Exists
  <2>2. CASE FsRemove(p)
    <3>1. /\ disk' = disk \ {p} /\ removed' = removed \cup ({p} \cap DirPath)
          /\ \A q \in disk : Parent[q] # p
      BY <2>2 DEF FsRemove
    <3> QED
      BY <1>1, <3>1 DEF DiskInv, Exists
  <2> QED
    BY <2>1, <2>2
<1>6. \A q \in DirPath : q \in disk \cup removed => q \in disk' \cup removed'
  BY DEF FsCreate, FsRemove
<1> QED
  BY <1>3, <1>4, <1>5, <1>6, QuietCalm

\* The timer and the button: requests for nodes that have their list.
LEMMA RefreshCalm ==
    ASSUME TypeInv, TypeInv', CalmInv, TimerFires \/ SweepNext
    PROVE  CalmInv' /\ Survives
<1>1. /\ ViewOK /\ OpenOK /\ DiskInv /\ Links
      /\ node' = node /\ reg' = reg /\ disk' = disk /\ removed' = removed
  BY DEF TypeInv, CalmInv, TimerFires, SweepNext, viewVars, diskVars
<1>2. Flips /\ DiskInv'
  BY <1>1, SameFlips DEF DiskInv, Exists
<1>3. MoreAsked /\ \A i \in Len(reqs) + 1 .. Len(reqs') : reqs'[i].use # "toggle"
  BY TimerAsks, SweepAsks
<1>4. ASSUME NEW i \in Len(reqs) + 1 .. Len(reqs') PROVE node'[reqs'[i].to].ul
  <2>1. NewRequest(reqs'[i]) /\ reqs'[i].use # "toggle"
    BY <1>3 DEF MoreAsked
  <2>2. CASE node[reqs'[i].to].ul
    BY <1>1, <2>2
  <2>3. CASE reqs'[i].dir = Root
    <3>1. /\ reqs'[i].to \in DOMAIN node /\ node[reqs'[i].to].path = node[1].path
          /\ 1 \in DOMAIN node /\ node[1].path \in AnyDir
      BY <1>1, <2>1, <2>3 DEF NewRequest, OpenOK, AnyDir
    <3>2. reqs'[i].to = 1
      BY <1>1, <3>1 DEF Links
    <3> QED
      BY <1>1, <3>2 DEF Links
  <2> QED
    BY <2>1, <2>2, <2>3 DEF NewRequest
<1> QED
  BY <1>1, <1>2, <1>3, <1>4, QuietCalm

\* toggleDir.
LEMMA ToggleCalm ==
    ASSUME TypeInv, TypeInv', CalmInv, NEW n \in DirNodes, NEW then \in {"none", "expand", "sweep"},
           Toggle(n, then), disk' = disk, removed' = removed
    PROVE  CalmInv' /\ Survives
<1>1. /\ ViewOK /\ ReqsOK /\ DiskInv /\ n \in DOMAIN node /\ node[n].path \in DirPath
  BY DEF TypeInv, CalmInv, DirNodes
<1>2. Flips /\ node'[n].ul /\ DiskInv'
  BY <1>1, ToggleFlips DEF DiskInv, Exists
<1>3. /\ MoreAsked /\ Len(reqs) \in Nat
      /\ ~node[n].expanded /\ ~node[n].ul =>
                 /\ Len(reqs') = Len(reqs) + 1
                 /\ reqs'[Len(reqs')] = Ask("toggle", node[n].path, n, then)
      /\ node[n].expanded \/ node[n].ul => reqs' = reqs
  BY <1>1, ToggleAsks
<1>4. ASSUME NEW i \in Len(reqs) + 1 .. Len(reqs') PROVE node'[reqs'[i].to].ul
  <2>1. CASE node[n].expanded \/ node[n].ul
    BY <1>3, <2>1
  <2>2. CASE ~node[n].expanded /\ ~node[n].ul
    <3>1. i = Len(reqs')
      BY <1>3, <2>2
    <3>2. reqs'[i].to = n
      BY <1>3, <2>2, <3>1 DEF Ask
    <3> QED
      BY <1>2, <3>2
  <2> QED
    BY <2>1, <2>2
<1> QED
  BY <1>2, <1>3, <1>4, QuietCalm

LEMMA UserCalm ==
    ASSUME TypeInv, TypeInv', CalmInv,
           \/ \E n \in DOMAIN node : Click(n)
           \/ CollapseAll
           \/ ExpandNext
    PROVE  CalmInv' /\ Survives
<1>1. CASE \E n \in DOMAIN node : Click(n)
  <2>1. PICK n \in DOMAIN node : Click(n)
    BY <1>1
  <2>2. n \in DirNodes /\ Toggle(n, "none") /\ disk' = disk /\ removed' = removed
    BY <2>1 DEF Click, DirNodes, diskVars
  <2> QED
    BY <2>2, ToggleCalm
<1>2. CASE CollapseAll
  <2>1. ViewOK /\ ReqsOK /\ DiskInv /\ reqs' = reqs /\ disk' = disk /\ removed' = removed
    BY <1>2 DEF CollapseAll, diskVars, TypeInv, CalmInv
  <2>2. Flips /\ MoreAsked
    BY <1>2, <2>1, CollapseFlips, NoneAsked DEF CollapseAll
  <2>3. \A i \in Len(reqs) + 1 .. Len(reqs') : FALSE
    BY <2>1, LenProperties DEF ReqsOK
  <2>4. DiskInv'
    BY <2>1 DEF DiskInv, Exists
  <2> QED
    BY <2>1, <2>2, <2>3, <2>4, QuietCalm
<1>3. CASE ExpandNext
  <2>1. disk' = disk /\ removed' = removed
    BY <1>3 DEF ExpandNext, diskVars
  <2>2. CASE node' = node /\ reg' = reg /\ reqs' = reqs
    BY <2>1, <2>2, StillCalm
  <2>3. CASE expandQ # <<>> /\ Toggle(Head(expandQ), "expand")
    <3>1. Head(expandQ) \in DirNodes
      BY <2>3, HeadTailProperties DEF TypeInv, QueueOK
    <3> QED
      BY <2>1, <2>3, <3>1, ToggleCalm
  <2>4. \/ node' = node /\ reg' = reg /\ reqs' = reqs
        \/ expandQ # <<>> /\ Toggle(Head(expandQ), "expand")
    BY <1>3 DEF ExpandNext, viewVars
  <2> QED
    BY <2>2, <2>3, <2>4
<1> QED
  BY <1>1, <1>2, <1>3

LEMMA OtherCalm ==
    ASSUME TypeInv, TypeInv', CalmInv,
           Notice \/ ExpandAll \/ SweepStart \/ SweepEnd \/ UNCHANGED vars
    PROVE  CalmInv' /\ Survives
<1>1. node' = node /\ reg' = reg /\ reqs' = reqs /\ disk' = disk /\ removed' = removed
  BY DEF Notice, ExpandAll, SweepStart, SweepEnd, vars, viewVars, diskVars
<1> QED
  BY <1>1, StillCalm

\* What a directory read now has: nothing, when it is gone itself.
LEMMA AnswerIs ==
    ASSUME NEW i, Answers(i), DiskInv, disk \subseteq Path
    PROVE  /\ reqs'[i].answer # Unread
           /\ reqs'[i].answer # Failed => IsInjective(reqs'[i].answer)
           /\ \A p \in Path : p \in Range(reqs'[i].answer) <=> p \in disk /\ Parent[p] = reqs[i].dir
<1> DEFINE d == reqs[i].dir
           l == Listing(d)
<1>1. l \in Seq(Path) /\ IsInjective(l) /\ Range(l) = {p \in disk \cap Path : Parent[p] = d}
  BY ListingType
<1>2. reqs'[i].answer = IF Exists(d) THEN l ELSE Failed
  BY DEF Answers
<1> HIDE DEF l, d
<1>3. CASE Exists(d)
  <2>1. reqs'[i].answer = l
    BY <1>2, <1>3
  <2> QED
    BY <1>1, <2>1, PathIsNoMark DEF d
<1>4. CASE ~Exists(d)
  <2>1. reqs'[i].answer = Failed
    BY <1>2, <1>4
  <2>2. \A p \in disk : Parent[p] # d
    BY <1>4 DEF DiskInv
  <2>3. \A p \in Path : p \notin Range(Failed)
    BY PathIsNoMark, PathTypes
  <2> QED
    BY <2>1, <2>2, <2>3, PathIsNoMark DEF d
<1> QED
  BY <1>3, <1>4

LEMMA ReadCalm ==
    ASSUME TypeInv, TypeInv', CalmInv, NEW i \in DOMAIN reqs, Read(i)
    PROVE  CalmInv' /\ Survives
<1>1. /\ ViewOK /\ OpenOK /\ ReqsOK /\ ViewOK' /\ disk \subseteq Path
      /\ Calm /\ DiskInv /\ Existed /\ Links /\ Asked /\ InOrder /\ Convex /\ RowsAreRegistered
  BY DEF TypeInv, CalmInv, RestOK
<1>2. node' = node /\ reg' = reg /\ disk' = disk /\ removed' = removed
  BY DEF Read, viewVars, diskVars
<1>3. Answers(i)
  BY <1>1, ReadAnswers
<1>4. /\ reqs'[i].answer # Unread
      /\ reqs'[i].answer # Failed => IsInjective(reqs'[i].answer)
      /\ \A p \in Path : p \in Range(reqs'[i].answer) <=> p \in disk /\ Parent[p] = reqs[i].dir
  BY <1>1, <1>3, AnswerIs
<1>5. /\ DOMAIN reqs' = DOMAIN reqs
      /\ \A j \in DOMAIN reqs : reqs'[j].dir = reqs[j].dir /\ reqs'[j].to = reqs[j].to
                                /\ reqs'[j].use = reqs[j].use
      /\ \A j \in DOMAIN reqs : j # i => reqs'[j] = reqs[j]
  BY <1>3 DEF Answers
<1>6. /\ reqs[i].answer = Unread
      /\ \A j \in 1 .. i - 1 : reqs[j].dir = reqs[i].dir => reqs[j].answer # Unread
  BY <1>1 DEF Read, Calm
<1>7. DOMAIN reqs = 1 .. Len(reqs) /\ Len(reqs) \in Nat
  BY <1>1, LenProperties DEF ReqsOK
<1>8. Links' /\ RowsAreRegistered' /\ Survives /\ Kept
  <2>1. Kept
    BY <1>1, <1>2, SameFlips, FlipsKeep
  <2> QED
    BY <1>1, <2>1, KeptLinks, KeptRows
<1>9. DiskInv' /\ Existed' /\ Calm'
  BY <1>1, <1>2 DEF DiskInv, Exists, Existed, Calm
<1>10. Asked'
  <2>1. ASSUME NEW j \in DOMAIN reqs' PROVE Fits(j)'
    <3>1. Fits(j)
      BY <1>1, <1>5 DEF Asked
    <3>2. CASE j = i
      <4>1. \A p \in Range(reqs'[j].answer) \cap Path :
              Parent[p] = reqs'[j].dir /\ (p \in DirPath => p \in disk' \cup removed')
        BY <1>2, <1>4, <1>5, <3>2
      <4> QED
        BY <1>2, <1>4, <1>5, <3>1, <3>2, <4>1 DEF Fits
    <3>3. CASE j # i
      BY <1>2, <1>5, <3>1, <3>3 DEF Fits
    <3> QED
      BY <3>2, <3>3
  <2>2. ASSUME NEW j \in DOMAIN reqs' PROVE FirstFetch(j)'
    <3>1. FirstFetch(j)
      BY <1>1, <1>5 DEF Asked
    <3>2. \A m \in DOMAIN node : KidPaths(m)' = KidPaths(m)
      BY <1>8 DEF Kept
    <3> QED
      BY <1>2, <1>5, <3>1, <3>2 DEF FirstFetch
  <2> QED
    BY <2>1, <2>2 DEF Asked
<1>11. InOrder'
  <2> SUFFICES ASSUME NEW j \in DOMAIN reqs', NEW k \in DOMAIN reqs', j < k,
                      reqs'[j].dir = reqs'[k].dir, reqs'[k].answer # Unread
               PROVE  reqs'[j].answer # Unread
    BY DEF InOrder, IsRead
  <2>1. CASE j = i
    BY <1>4, <2>1
  <2>2. CASE j # i /\ k = i
    <3>1. j \in 1 .. i - 1 /\ reqs[j].dir = reqs[i].dir
      BY <1>5, <1>7, <2>2
    <3> QED
      BY <1>5, <1>6, <2>2, <3>1
  <2>3. CASE j # i /\ k # i
    <3>1. j \in DOMAIN reqs /\ k \in DOMAIN reqs /\ reqs'[j] = reqs[j] /\ reqs'[k] = reqs[k]
      BY <1>5, <2>3
    <3> QED
      BY <1>1, <3>1 DEF InOrder, IsRead
  <2> QED
    BY <2>1, <2>2, <2>3
<1>12. Convex'
  <2> SUFFICES ASSUME NEW p \in DirPath PROVE GoesOnce(p)'
    BY DEF Convex
  <2>1. GoesOnce(p) /\ p \in Path
    BY <1>1, PathTypes DEF Convex
  <2>2. ASSUME NEW j \in DOMAIN reqs'
        PROVE  /\ In(j, p)' => In(j, p) \/ (j = i /\ reqs[i].dir = Parent[p] /\ p \in disk)
               /\ Lacks(j, p)' => Lacks(j, p) \/ (j = i /\ reqs[i].dir = Parent[p] /\ p \notin disk)
    <3>1. CASE j = i
      BY <1>4, <1>5, <2>1, <3>1 DEF In, Lacks
    <3>2. CASE j # i
      BY <1>5, <3>2 DEF In, Lacks, IsRead
    <3> QED
      BY <3>1, <3>2
  <2>3. p \notin removed \/ p \notin disk
    BY <1>1 DEF DiskInv
  <2>4. ASSUME NEW j, GoneAfter(j, p) PROVE GoneAfter(j, p)'
    BY <1>2, <1>5, <2>2, <2>3, <2>4 DEF GoneAfter
  \* A read that no longer finds p: those behind it are not read yet.
  <2>5. ASSUME reqs[i].dir = Parent[p], p \in removed PROVE GoneAfter(i, p)'
    <3>1. ASSUME NEW k \in DOMAIN reqs', k > i, In(k, p)' PROVE FALSE
      <4>1. k \in DOMAIN reqs /\ In(k, p)
        BY <1>5, <2>2, <2>3, <2>5, <3>1
      <4>2. reqs[k].dir = reqs[i].dir /\ reqs[k].answer # Unread
        BY <2>1, <2>5, <4>1, PathIsNoMark DEF In
      <4> QED
        BY <1>1, <1>6, <3>1, <4>1, <4>2 DEF InOrder, IsRead
    <3> QED
      BY <1>2, <2>5, <3>1 DEF GoneAfter
  <2>6. HasNode(p)' = HasNode(p) /\ (~Hangs(p)' => ~Hangs(p))
    BY <1>2, <1>8 DEF HasNode, Hangs, Kept
  <2>7. HasNode(p) => p \in disk \cup removed
    BY <1>1 DEF HasNode, Existed
  <2>8. ASSUME NEW j \in DOMAIN reqs', NEW k \in DOMAIN reqs', j < k, In(j, p)', Lacks(k, p)'
        PROVE  GoneAfter(k, p)'
    <3>1. j \in DOMAIN reqs /\ k \in DOMAIN reqs /\ reqs[j].dir = Parent[p] /\ reqs[k].dir = Parent[p]
      BY <1>5, <2>8 DEF In, Lacks
    <3>2. CASE Lacks(k, p) /\ In(j, p)
      BY <2>1, <2>4, <2>8, <3>1, <3>2 DEF GoesOnce
    <3>3. CASE Lacks(k, p) /\ j = i
      <4>1. FALSE
        BY <1>1, <1>6, <2>8, <3>1, <3>3 DEF InOrder, IsRead, Lacks
      <4> QED
        BY <4>1
    <3>4. CASE k = i /\ p \notin disk /\ In(j, p)
      <4>1. Fits(j) /\ p \in Range(reqs[j].answer) \cap Path
        BY <1>1, <2>1, <3>1, <3>4 DEF Asked, In
      <4>2. p \in removed
        BY <3>4, <4>1 DEF Fits
      <4> QED
        BY <2>5, <3>1, <3>4, <4>2
    <3>5. CASE k = i /\ j = i
      BY <1>7, <2>8, <3>5
    <3> QED
      BY <2>2, <2>8, <3>2, <3>3, <3>4, <3>5
  <2>9. ASSUME NEW j \in DOMAIN reqs', HasNode(p), Lacks(j, p)'
        PROVE  GoneAfter(j, p)'
    <3>1. CASE Lacks(j, p)
      BY <1>5, <2>1, <2>4, <2>9, <3>1 DEF GoesOnce
    <3>2. CASE j = i /\ reqs[i].dir = Parent[p] /\ p \notin disk
      BY <2>5, <2>7, <2>9, <3>2
    <3> QED
      BY <2>2, <2>9, <3>1, <3>2
  <2>10. HasNode(p) /\ ~Hangs(p)' => GoneAfter(0, p)'
    BY <2>1, <2>4, <2>6 DEF GoesOnce
  <2> QED
    BY <2>6, <2>8, <2>9, <2>10 DEF GoesOnce
<1> QED
  BY <1>8, <1>9, <1>10, <1>11, <1>12 DEF CalmInv

\* The answer that is applied is the first one out for its directory.
IsFirst(i) == \A j \in 1 .. i - 1 : reqs[j].dir # reqs[i].dir

LEMMA DeliversFirst ==
    ASSUME Calm, NEW i, Deliver(i)
    PROVE  IsFirst(i)
BY DEF Calm, Deliver, IsFirst

\* The requests that stay out keep their answers and their order.
LEMMA LeftIn ==
    ASSUME NEW i, Left(i), NEW p, NEW j \in DOMAIN reqs'
    PROVE  /\ In(j, p)' => In(Was(i, j), p)
           /\ Lacks(j, p)' => Lacks(Was(i, j), p)
BY LeftWas DEF In, Lacks, IsRead

LEMMA LeftInOrder ==
    ASSUME InOrder, NEW i, Left(i)
    PROVE  InOrder'
<1> SUFFICES ASSUME NEW j \in DOMAIN reqs', NEW k \in DOMAIN reqs', j < k,
                    reqs'[j].dir = reqs'[k].dir, reqs'[k].answer # Unread
             PROVE  reqs'[j].answer # Unread
  BY DEF InOrder, IsRead
<1>1. /\ Was(i, j) \in DOMAIN reqs /\ Was(i, k) \in DOMAIN reqs /\ Was(i, j) < Was(i, k)
      /\ reqs'[j] = reqs[Was(i, j)] /\ reqs'[k] = reqs[Was(i, k)]
  BY LeftWas
<1> QED
  BY <1>1 DEF InOrder, IsRead

LEMMA LeftAsked ==
    ASSUME Asked, ReqsOK, PathsStay, NEW i, Left(i), IsFirst(i), disk' = disk, removed' = removed,
           \A m \in DOMAIN node : /\ node[m].ul => node'[m].ul
                                  /\ m # reqs[i].to => KidPaths(m)' = KidPaths(m)
    PROVE  Asked'
<1>0. i \in DOMAIN reqs /\ DOMAIN reqs = 1 .. Len(reqs) /\ Len(reqs) \in Nat
  BY DEF Left
<1>1. ASSUME NEW j \in DOMAIN reqs' PROVE Fits(j)'
  <2>1. /\ Was(i, j) \in DOMAIN reqs /\ reqs'[j] = reqs[Was(i, j)]
    BY LeftWas
  <2>2. Fits(Was(i, j)) /\ reqs[Was(i, j)].to \in DOMAIN node
    BY <2>1 DEF Asked, ReqsOK
  <2> QED
    BY <2>1, <2>2 DEF Fits, PathsStay
<1>2. ASSUME NEW j \in DOMAIN reqs' PROVE FirstFetch(j)'
  <2> DEFINE w == Was(i, j)
  <2>1. w \in DOMAIN reqs /\ w # i /\ reqs'[j] = reqs[w]
    BY LeftWas
  <2>2. FirstFetch(w) /\ Fits(w) /\ Fits(i) /\ reqs[w].to \in DOMAIN node
    BY <1>0, <2>1 DEF Asked, ReqsOK
  <2> SUFFICES ASSUME reqs'[j].use \in {"toggle", "render"}
               PROVE  /\ \A n \in DOMAIN node' : n = reqs'[j].to => KidPaths(n)' = {}
                      /\ \A k \in DOMAIN reqs' : reqs'[k].dir = reqs'[j].dir => j <= k
    BY DEF FirstFetch
  <2>3. /\ KidPaths(reqs[w].to) = {}
        /\ \A k \in DOMAIN reqs : reqs[k].dir = reqs[w].dir => w <= k
    BY <2>1, <2>2 DEF FirstFetch
  <2>4. reqs[w].to # reqs[i].to
    <3> SUFFICES ASSUME reqs[w].to = reqs[i].to PROVE FALSE
      OBVIOUS
    <3>1. reqs[w].dir = reqs[i].dir
      BY <2>2 DEF Fits
    <3>2. w \in 1 .. i - 1
      BY <1>0, <2>1, <2>3, <3>1
    <3> QED
      BY <3>1, <3>2 DEF IsFirst
  <2>5. ASSUME NEW n, n = reqs'[j].to PROVE KidPaths(n)' = {}
    <3>1. n = reqs[w].to
      BY <2>1, <2>5
    <3>2. KidPaths(n) = {} /\ n # reqs[i].to /\ n \in DOMAIN node
      BY <2>2, <2>3, <2>4, <3>1
    <3> QED
      BY <3>2
  <2>6. ASSUME NEW k \in DOMAIN reqs', reqs'[k].dir = reqs'[j].dir PROVE j <= k
    <3>1. Was(i, k) \in DOMAIN reqs /\ reqs'[k] = reqs[Was(i, k)]
      BY LeftWas
    <3>2. w <= Was(i, k)
      BY <2>1, <2>3, <2>6, <3>1
    <3>3. k < j <=> Was(i, k) < w
      BY LeftWas
    <3>4. k \in Nat /\ j \in Nat /\ w \in Nat /\ Was(i, k) \in Nat
      BY <1>0, <2>1, <3>1 DEF Left
    <3> HIDE DEF w
    <3> QED
      BY <3>2, <3>3, <3>4
  <2> QED
    BY <2>5, <2>6
<1> QED
  BY <1>1, <1>2 DEF Asked

\* An answer lists a directory that the list it is for does not have only when
\* that directory has no row anywhere, in use or forgotten.
LEMMA AnswerFits ==
    ASSUME TypeInv, CalmInv, NEW i \in DOMAIN reqs,
           reqs[i].answer \notin {Unread, Failed}
    PROVE  Fitting(reqs[i].to, reqs[i].answer)
<1> DEFINE n == reqs[i].to
           a == reqs[i].answer
<1>1. /\ ViewOK /\ ReqsOK /\ Existed /\ Links /\ Asked /\ Convex
      /\ Fits(i) /\ n \in DOMAIN node /\ a \in Seq(Path) /\ reqs[i].dir \in AnyDir
  <2>1. TypeInv /\ CalmInv /\ reqs[i] \in Request
    BY ElementOfSeq, LenProperties DEF TypeInv, ReqsOK
  <2>2. reqs[i].dir \in AnyDir
    BY <2>1 DEF Request
  <2> QED
    BY <2>1, <2>2 DEF TypeInv, CalmInv, Asked, ReqsOK
<1>2. node[n].path = reqs[i].dir /\ node[n].ul /\ IsInjective(a)
  BY <1>1 DEF Fits
<1>3. Range(a) \subseteq Path
  BY <1>1, RangeOfSeq
<1>4. ASSUME NEW p \in Range(a) PROVE Parent[p] = node[n].path
  BY <1>1, <1>2, <1>3, <1>4 DEF Fits
<1>5. ASSUME NEW p \in Range(a), p \in DirPath, p \notin KidPaths(n), NEW m \in DOMAIN node,
             node[m].path = p
      PROVE  FALSE
  <2>1. In(i, p) /\ HasNode(p)
    BY <1>2, <1>4, <1>5 DEF In, HasNode
  <2>2. ~Hangs(p)
    <3> SUFFICES ASSUME NEW l \in DOMAIN node, p \in KidPaths(l) PROVE FALSE
      BY DEF Hangs
    <3>1. Parent[p] = node[l].path
      BY <1>1 DEF Links
    <3>2. l = n
      BY <1>1, <1>2, <1>4, <3>1 DEF Links
    <3> QED
      BY <1>5, <3>2
  <2>3. GoneAfter(0, p)
    BY <1>1, <1>5, <2>1, <2>2 DEF Convex, GoesOnce
  <2>4. i > 0
    BY <1>1, LenProperties DEF ReqsOK
  <2> QED
    BY <2>1, <2>3, <2>4 DEF GoneAfter
<1> QED
  BY <1>1, <1>2, <1>4, <1>5 DEF Fitting

LEMMA DeliverView ==
    ASSUME TypeInv, CalmInv, NEW i \in DOMAIN reqs, Deliver(i)
    PROVE  \/ (reqs[i].use = "ignore" \/ reqs[i].answer = Failed) /\ node' = node /\ reg' = reg
           \/ /\ reqs[i].use # "ignore" /\ reqs[i].answer # Unread
              /\ Fitting(reqs[i].to, reqs[i].answer) /\ Fills(reqs[i].to, reqs[i].answer)
<1> DEFINE n == reqs[i].to
           a == reqs[i].answer
<1>1. /\ ViewOK /\ Links /\ n \in DOMAIN node /\ a \in Seq(Path) \cup {Unread, Failed}
      /\ a # Unread /\ FirstFetch(i)
  BY DEF TypeInv, CalmInv, ReqsOK, Asked, Deliver
<1>2. a # Failed => Fitting(n, a)
  BY <1>1, AnswerFits
<1>3. \/ (reqs[i].use = "ignore" \/ a = Failed) /\ UNCHANGED viewVars
      \/ reqs[i].use = "refresh" /\ a # Failed /\ Reconcile(n, a)
      \/ reqs[i].use \in {"toggle", "render"} /\ a = Failed /\ ClearRows(n)
      \/ reqs[i].use \in {"toggle", "render"} /\ a # Failed /\ AppendRows(n, a)
  BY DEF Deliver
<1>4. reqs[i].use \in {"toggle", "render"} => KidPaths(n) = {}
  BY <1>1 DEF FirstFetch
<1>5. CASE (reqs[i].use = "ignore" \/ a = Failed) /\ UNCHANGED viewVars
  BY <1>5 DEF viewVars
<1>6. CASE reqs[i].use = "refresh" /\ a # Failed /\ Reconcile(n, a)
  <2>1. Distinct(n) /\ a \in Seq(Path)
    BY <1>1, <1>6 DEF Links
  <2>2. Fills(n, a)
    <3> HIDE DEF n, a
    <3> QED
      BY <1>1, <1>6, <2>1, ReconcileFills
  <2> QED
    BY <1>1, <1>2, <1>6, <2>2
<1>7. CASE reqs[i].use \in {"toggle", "render"} /\ a = Failed /\ ClearRows(n)
  <2>1. node' = node /\ reg' = reg
    <3> HIDE DEF n, a
    <3> QED
      BY <1>1, <1>4, <1>7, ClearsNothing
  <2> QED
    BY <1>7, <2>1
<1>8. CASE reqs[i].use \in {"toggle", "render"} /\ a # Failed /\ AppendRows(n, a)
  <2>1. Fills(n, a)
    <3> HIDE DEF n, a
    <3> QED
      BY <1>1, <1>4, <1>8, AppendFills
  <2> QED
    BY <1>1, <1>2, <1>8, <2>1
<1> QED
  BY <1>3, <1>5, <1>6, <1>7, <1>8

\* An answer that changes nothing is forgotten.
LEMMA LeftConvex ==
    ASSUME Convex, NEW i, Left(i), removed' = removed, Kept
    PROVE  Convex'
<1> SUFFICES ASSUME NEW p \in DirPath PROVE GoesOnce(p)'
  BY DEF Convex
<1>1. GoesOnce(p)
  BY DEF Convex
<1>2. ASSUME NEW j \in DOMAIN reqs'
      PROVE  /\ Was(i, j) \in DOMAIN reqs
             /\ In(j, p)' => In(Was(i, j), p)
             /\ Lacks(j, p)' => Lacks(Was(i, j), p)
             /\ \A k \in DOMAIN reqs' : j < k <=> Was(i, j) < Was(i, k)
             /\ j > 0 /\ Was(i, j) > 0
  BY LeftIn, LeftWas DEF Left
<1>3. ASSUME NEW j \in DOMAIN reqs', GoneAfter(Was(i, j), p) PROVE GoneAfter(j, p)'
  <2>1. \A k \in DOMAIN reqs' : k > j => Was(i, k) > Was(i, j)
    BY <1>2
  <2> QED
    BY <1>2, <1>3, <2>1 DEF GoneAfter
<1>4. GoneAfter(0, p) => GoneAfter(0, p)'
  BY <1>2 DEF GoneAfter
<1>5. HasNode(p)' = HasNode(p) /\ (~Hangs(p)' => ~Hangs(p))
  BY DEF HasNode, Hangs, Kept, PathsStay
<1>6. ASSUME NEW j \in DOMAIN reqs', NEW k \in DOMAIN reqs', j < k, In(j, p)', Lacks(k, p)'
      PROVE  GoneAfter(k, p)'
  <2>1. /\ Was(i, j) \in DOMAIN reqs /\ Was(i, k) \in DOMAIN reqs /\ Was(i, j) < Was(i, k)
        /\ In(Was(i, j), p) /\ Lacks(Was(i, k), p)
    BY <1>2, <1>6
  <2>2. GoneAfter(Was(i, k), p)
    BY <1>1, <2>1 DEF GoesOnce
  <2> QED
    BY <1>3, <2>2
<1>7. ASSUME NEW j \in DOMAIN reqs', HasNode(p), Lacks(j, p)'
      PROVE  GoneAfter(j, p)'
  <2>1. GoneAfter(Was(i, j), p)
    BY <1>1, <1>2, <1>7 DEF GoesOnce
  <2> QED
    BY <1>3, <2>1
<1>8. HasNode(p) /\ ~Hangs(p)' => GoneAfter(0, p)'
  BY <1>1, <1>4, <1>5 DEF GoesOnce
<1> QED
  BY <1>5, <1>6, <1>7, <1>8 DEF GoesOnce

\* An answer that is applied gives nodes to directories it lists, and takes
\* rows from some that it lacks: those that come behind it know of both.
LEMMA FilledConvex ==
    ASSUME Convex, Links, ReqsOK, Asked, NEW i, Left(i), IsFirst(i), removed' = removed,
           NEW n, n = reqs[i].to, NEW a, a = reqs[i].answer, a # Unread,
           Fitting(n, a), FilledView(n, a)
    PROVE  Convex'
<1> SUFFICES ASSUME NEW p \in DirPath PROVE GoesOnce(p)'
  BY DEF Convex
<1>1. GoesOnce(p)
  BY DEF Convex
<1>2. ASSUME NEW j \in DOMAIN reqs'
      PROVE  /\ Was(i, j) \in DOMAIN reqs /\ Was(i, j) # i
             /\ In(j, p)' => In(Was(i, j), p)
             /\ Lacks(j, p)' => Lacks(Was(i, j), p)
             /\ \A k \in DOMAIN reqs' : j < k <=> Was(i, j) < Was(i, k)
             /\ j > 0 /\ Was(i, j) > 0
  BY LeftIn, LeftWas DEF Left
<1>3. ASSUME NEW j \in DOMAIN reqs', GoneAfter(Was(i, j), p) PROVE GoneAfter(j, p)'
  <2>1. \A k \in DOMAIN reqs' : k > j => Was(i, k) > Was(i, j)
    BY <1>2
  <2> QED
    BY <1>2, <1>3, <2>1 DEF GoneAfter
<1>4. GoneAfter(0, p) => GoneAfter(0, p)'
  BY <1>2 DEF GoneAfter
<1>5. i \in DOMAIN reqs /\ DOMAIN reqs = 1 .. Len(reqs) /\ Len(reqs) \in Nat
  BY DEF Left
<1>6. node[n].path = reqs[i].dir /\ n \in DOMAIN node /\ node[n].path \in AnyDir
  BY <1>5 DEF Asked, Fits, Fitting
\* Whoever else has a say about p comes behind i.
<1>7. ASSUME NEW j \in DOMAIN reqs, j # i, reqs[j].dir = Parent[p], reqs[i].dir = Parent[p]
      PROVE  i < j
  <2>1. CASE j < i
    <3>1. j \in 1 .. i - 1
      BY <1>5, <2>1
    <3> QED
      BY <1>7, <3>1 DEF IsFirst
  <2> QED
    BY <1>5, <1>7, <2>1
<1>8. ASSUME NEW j \in DOMAIN reqs', NEW k \in DOMAIN reqs', j < k, In(j, p)', Lacks(k, p)'
      PROVE  GoneAfter(k, p)'
  <2>1. /\ Was(i, j) \in DOMAIN reqs /\ Was(i, k) \in DOMAIN reqs /\ Was(i, j) < Was(i, k)
        /\ In(Was(i, j), p) /\ Lacks(Was(i, k), p)
    BY <1>2, <1>8
  <2>2. GoneAfter(Was(i, k), p)
    BY <1>1, <2>1 DEF GoesOnce
  <2> QED
    BY <1>3, <2>2
<1>9. HasNode(p)' => HasNode(p) \/ p \in Range(a) \ KidPaths(n)
  <2> SUFFICES ASSUME NEW m \in DOMAIN node', node'[m].path = p
               PROVE  HasNode(p) \/ p \in Range(a) \ KidPaths(n)
    BY DEF HasNode
  <2>1. CASE m \in DOMAIN node
    BY <2>1 DEF FilledView, PathsStay, HasNode
  <2>2. CASE m \notin DOMAIN node
    BY <2>2 DEF FilledView
  <2> QED
    BY <2>1, <2>2
<1>10. ASSUME p \in Range(a) PROVE In(i, p)
  BY <1>6, <1>10 DEF In, Fitting
<1>11. ASSUME NEW j \in DOMAIN reqs', HasNode(p)', Lacks(j, p)'
       PROVE  GoneAfter(j, p)'
  <2> DEFINE w == Was(i, j)
  <2>1. w \in DOMAIN reqs /\ w # i /\ Lacks(w, p)
    BY <1>2, <1>11
  <2>2. GoneAfter(w, p)
    <3>1. CASE HasNode(p)
      BY <1>1, <2>1, <3>1 DEF GoesOnce
    <3>2. CASE p \in Range(a)
      <4>1. In(i, p)
        BY <1>10, <3>2
      <4>2. i < w
        BY <1>7, <2>1, <4>1 DEF In, Lacks
      <4> QED
        BY <1>1, <1>5, <2>1, <4>1, <4>2 DEF GoesOnce
    <3> QED
      BY <1>9, <1>11, <3>1, <3>2
  <2> QED
    BY <1>3, <2>2
<1>12. ASSUME HasNode(p)', ~Hangs(p)' PROVE GoneAfter(0, p)'
  <2>1. /\ n \in DOMAIN node' /\ KidPaths(n)' = Range(a)
        /\ \A m \in DOMAIN node : m \in DOMAIN node' /\ (m # n => KidPaths(m)' = KidPaths(m))
    BY <1>6 DEF FilledView, PathsStay
  <2>2. p \notin Range(a)
    BY <1>12, <2>1 DEF Hangs
  <2>3. HasNode(p)
    BY <1>9, <1>12, <2>2
  <2>4. CASE ~Hangs(p)
    BY <1>1, <1>4, <2>3, <2>4 DEF GoesOnce
  <2>5. CASE Hangs(p)
    <3>1. PICK m \in DOMAIN node : p \in KidPaths(m)
      BY <2>5 DEF Hangs
    <3>2. m = n
      BY <1>12, <2>1, <3>1 DEF Hangs
    <3>3. Parent[p] = reqs[i].dir
      BY <1>6, <3>1, <3>2 DEF Links
    <3>4. Lacks(i, p)
      BY <2>2, <3>3 DEF Lacks, IsRead
    <3>5. GoneAfter(i, p)
      BY <1>1, <1>5, <2>3, <3>4 DEF GoesOnce
    <3>6. ASSUME NEW j \in DOMAIN reqs', In(j, p)' PROVE FALSE
      <4>1. Was(i, j) \in DOMAIN reqs /\ Was(i, j) # i /\ In(Was(i, j), p)
        BY <1>2, <3>6
      <4>2. i < Was(i, j)
        BY <1>7, <3>3, <4>1 DEF In
      <4> QED
        BY <3>5, <4>1, <4>2 DEF GoneAfter
    <3> QED
      BY <3>5, <3>6 DEF GoneAfter
  <2> QED
    BY <2>4, <2>5
<1> QED
  BY <1>8, <1>11, <1>12 DEF GoesOnce

LEMMA DeliverCalm ==
    ASSUME TypeInv, TypeInv', CalmInv, NEW i \in DOMAIN reqs, Deliver(i)
    PROVE  CalmInv' /\ Survives
<1>1. /\ ViewOK /\ OpenOK /\ ReqsOK /\ ViewOK' /\ OpenOK'
      /\ Calm /\ DiskInv /\ Existed /\ Links /\ Asked /\ InOrder /\ Convex /\ RowsAreRegistered
  BY DEF TypeInv, CalmInv
<1>2. disk' = disk /\ removed' = removed
  BY DEF Deliver, diskVars
<1>3. Left(i) /\ IsFirst(i)
  BY <1>1, DeliverLeaves, DeliversFirst
<1>4. DiskInv' /\ InOrder' /\ Calm'
  BY <1>1, <1>2, <1>3, LeftInOrder DEF DiskInv, Exists, Calm
<1>5. CASE node' = node /\ reg' = reg
  <2>1. Kept
    BY <1>1, <1>5, SameFlips, FlipsKeep
  <2>2. Links' /\ RowsAreRegistered' /\ Survives
    BY <1>1, <2>1, KeptLinks, KeptRows
  <2>3. Asked'
    BY <1>1, <1>2, <1>3, <2>1, LeftAsked DEF Kept
  <2>4. Convex'
    BY <1>1, <1>2, <1>3, <2>1, LeftConvex
  <2>5. Existed'
    BY <1>1, <1>2, <1>5 DEF Existed
  <2> QED
    BY <1>4, <2>2, <2>3, <2>4, <2>5 DEF CalmInv
<1>6. ASSUME NEW n, n = reqs[i].to, NEW a, a = reqs[i].answer, a # Unread,
             Fitting(n, a), Fills(n, a)
      PROVE  CalmInv' /\ Survives
  <2>1. FilledView(n, a)
    BY <1>1, <1>6, FilledLists DEF Fitting
  <2>2. Links' /\ RowsAreRegistered' /\ Survives
    BY <1>1, <1>6, FilledLinks, FilledRows
  <2>3. Asked'
    <3>1. /\ PathsStay
          /\ \A m \in DOMAIN node : /\ node[m].ul => node'[m].ul
                                    /\ m # reqs[i].to => KidPaths(m)' = KidPaths(m)
      BY <1>6, <2>1 DEF FilledView
    <3> QED
      BY <1>1, <1>2, <1>3, <3>1, LeftAsked
  <2>4. Convex'
    BY <1>1, <1>2, <1>3, <1>6, <2>1, FilledConvex
  <2>5. Existed'
    <3> SUFFICES ASSUME NEW m \in DOMAIN node', node'[m].path \in DirPath
                 PROVE  node'[m].path \in disk' \cup removed'
      BY DEF Existed
    <3>1. CASE m \in DOMAIN node
      BY <1>1, <1>2, <2>1, <3>1 DEF Existed, FilledView, PathsStay
    <3>2. CASE m \notin DOMAIN node
      <4>1. node'[m].path \in Range(a)
        BY <2>1, <3>2 DEF FilledView
      <4>2. Fits(i)
        BY <1>1 DEF Asked
      <4>3. node'[m].path \in Path
        BY PathTypes
      <4> QED
        BY <1>2, <1>6, <4>1, <4>2, <4>3 DEF Fits
    <3> QED
      BY <3>1, <3>2
  <2> QED
    BY <1>4, <2>2, <2>3, <2>4, <2>5 DEF CalmInv
<1> QED
  BY <1>5, <1>6, DeliverView

LEMMA NextCalm ==
    ASSUME TypeInv, TypeInv', CalmInv, [Next]_vars
    PROVE  CalmInv' /\ Survives
<1>1. CASE Notice \/ ExpandAll \/ SweepStart \/ SweepEnd \/ UNCHANGED vars
  BY <1>1, OtherCalm
<1>2. CASE TimerFires \/ SweepNext
  BY <1>2, RefreshCalm
<1>3. ASSUME NEW i \in DOMAIN reqs, Deliver(i) PROVE CalmInv' /\ Survives
  BY <1>3, DeliverCalm
<1>4. CASE (\E n \in DOMAIN node : Click(n)) \/ CollapseAll \/ ExpandNext
  BY <1>4, UserCalm
<1>5. ASSUME NEW i \in DOMAIN reqs, Read(i) PROVE CalmInv' /\ Survives
  BY <1>5, ReadCalm
<1>6. ASSUME NEW p \in Path, FsCreate(p) \/ FsRemove(p) PROVE CalmInv' /\ Survives
  BY <1>6, FsCalm
<1> QED
  BY <1>1, <1>2, <1>3, <1>4, <1>5, <1>6 DEF Next, Browser, Server, User

\* At first there is one node, one request for it and no row.
LEMMA InitCalm == Init /\ Calm => CalmInv
<1> SUFFICES ASSUME Init, Calm PROVE CalmInv
  OBVIOUS
<1> DEFINE nil == <<>>
           first == [path |-> Root, expanded |-> TRUE, ul |-> TRUE, kids |-> nil]
           ask == Ask("render", Root, 1, "none")
           nodes == <<first>>
           asks == <<ask>>
<1>0. TypeInv
  BY InitTypeInv
<1>1. /\ node = nodes /\ reqs = asks /\ removed = {} /\ disk \in FirstDisks
      /\ reg = [p \in Path \cup {Root} |-> IF p = Root THEN 1 ELSE 0]
  BY DEF Init
<1>2. /\ DOMAIN nodes = {1} /\ nodes[1] = first /\ DOMAIN asks = {1} /\ asks[1] = ask
  OBVIOUS
<1>3. first.path = Root /\ first.ul = TRUE /\ first.kids = nil
  OBVIOUS
<1>4. ask.use = "render" /\ ask.dir = Root /\ ask.to = 1 /\ ask.answer = Unread
  BY DEF Ask
<1>5. DOMAIN nil = {}
  OBVIOUS
<1> HIDE DEF nil, first, ask, nodes, asks
<1>6. DOMAIN node = {1} /\ node[1].path = Root /\ node[1].ul /\ node[1].kids = nil
  BY <1>1, <1>2, <1>3
<1>7. DOMAIN reqs = {1} /\ reqs[1] = ask
  BY <1>1, <1>2
<1>8. DOMAIN PathsOf(node[1].kids) = {}
  BY <1>5, <1>6 DEF PathsOf
<1>9. KidPaths(1) = {} /\ Distinct(1) /\ Range(node[1].kids) = {}
  BY <1>5, <1>6, <1>8 DEF KidPaths, Distinct, Range, IsInjective
<1>10. Links
  <2>1. reg[Root] = 1
    BY <1>1
  <2> QED
    BY <1>6, <1>9, <2>1 DEF Links
<1>11. DiskInv
  BY <1>1, TreeViewAssumption DEF DiskInv, Exists
<1>12. Existed
  <2>1. Root \notin DirPath
    BY PathTypes
  <2> QED
    BY <1>6, <2>1 DEF Existed
<1>13. Asked
  <2>1. Range(reqs[1].answer) \cap Path = {}
    BY <1>4, <1>7, PathIsNoMark
  <2>2. Fits(1)
    BY <1>4, <1>6, <1>7, <2>1 DEF Fits
  <2>3. FirstFetch(1)
    BY <1>4, <1>6, <1>7, <1>9 DEF FirstFetch
  <2> QED
    BY <1>7, <2>2, <2>3 DEF Asked
<1>14. InOrder
  BY <1>7 DEF InOrder
<1>15. Convex
  <2> SUFFICES ASSUME NEW p \in DirPath PROVE GoesOnce(p)
    BY DEF Convex
  <2>1. ~HasNode(p)
    BY <1>6, PathTypes DEF HasNode
  <2>2. \A i, j \in DOMAIN reqs : ~(i < j)
    BY <1>7
  <2> QED
    BY <2>1, <2>2 DEF GoesOnce
<1>16. RowsAreRegistered
  <2>1. Shown \subseteq {1}
    <3>1. ViewOK /\ 1 \in DOMAIN node
      BY <1>0, <1>6 DEF TypeInv
    <3> QED
      BY <1>6, <3>1, ShownBelow
  <2>2. reg[node[1].path] = 1
    BY <1>6, <1>10 DEF Links
  <2> QED
    BY <2>1, <2>2 DEF RowsAreRegistered
<1> QED
  BY <1>10, <1>11, <1>12, <1>13, <1>14, <1>15, <1>16 DEF CalmInv

(***************************************************************************)
(* When requests for one directory do not overtake each other and no       *)
(* directory is created again after its removal, every row on the page is  *)
(* the registered one and no path has two (makeNode, purgeNode).           *)
(***************************************************************************)
THEOREM RowsRegistered == Spec /\ Calm => []RowsAreRegistered
<1>1. Init /\ Calm => TypeInv /\ CalmInv
  BY InitTypeInv, InitCalm
<1>2. TypeInv /\ CalmInv /\ [Next]_vars => (TypeInv /\ CalmInv)'
  BY NextTypeInv, NextCalm
<1>3. TypeInv /\ CalmInv => RowsAreRegistered
  BY DEF CalmInv
<1> QED
  BY <1>1, <1>2, <1>3, PTL DEF Spec

(***************************************************************************)
(* Then a refresh never takes the node from a path that stays on the page: *)
(* what the user has expanded stays expanded (reconcileChildren).          *)
(***************************************************************************)
THEOREM RowsSurvive == Spec /\ Calm => RowsSurviveRefresh
<1>1. Init /\ Calm => TypeInv /\ CalmInv
  BY InitTypeInv, InitCalm
<1>2. TypeInv /\ CalmInv /\ [Next]_vars => (TypeInv /\ CalmInv)'
  BY NextTypeInv, NextCalm
<1>3. TypeInv /\ CalmInv /\ [Next]_vars
        => [\A n \in Shown : n \notin Shown' =>
              \A m \in Shown' : node'[m].path # node[n].path]_vars
  BY NextTypeInv, NextCalm DEF Survives
<1> QED
  BY <1>1, <1>2, <1>3, PTL DEF Spec, RowsSurviveRefresh
-----------------------------------------------------------------------------
(***************************************************************************)
(* Nothing stays stale.  When, besides, no notice is lost, a row with a    *)
(* list whose last due refresh was not skipped is covered: a request for   *)
(* it is yet to be read, its directory is announced, or what it shows or   *)
(* the last answer out for it is what is on disk now.                      *)
(***************************************************************************)
For(i, n) == reqs[i].to = n /\ reqs[i].use # "ignore"

Announced(n) ==
    \/ node[n].path \in pending /\ timer
    \/ node[n].path \in Range(notices)

Fetching(n) == \E i \in DOMAIN reqs : For(i, n) /\ ~IsRead(i)
Settled(n) == (\A i \in DOMAIN reqs : ~For(i, n)) /\ UpToDate(n)
LastIsFresh(n) ==
    \E i \in DOMAIN reqs : /\ For(i, n) /\ reqs[i].answer = Listing(node[n].path)
                           /\ \A j \in DOMAIN reqs : j > i => ~For(j, n)

Covered(n) == Fetching(n) \/ Announced(n) \/ Settled(n) \/ LastIsFresh(n)

OpenHaveLists == \A n \in DOMAIN node : node[n].expanded => node[n].ul

CoverInv ==
    /\ ~Lossy /\ OpenHaveLists
    /\ \A n \in Shown \ skipped : node[n].ul /\ Exists(node[n].path) => Covered(n)

\* Requests that are added cover the node they are for.
LEMMA NewFetches ==
    ASSUME MoreAsked, NEW n, NEW i \in Len(reqs) + 1 .. Len(reqs'),
           reqs'[i].to = n, reqs'[i].use # "ignore"
    PROVE  Fetching(n)'
<1>0. Len(reqs) \in Nat /\ Len(reqs') \in Nat /\ DOMAIN reqs' = 1 .. Len(reqs')
  BY DEF MoreAsked
<1>1. i \in DOMAIN reqs' /\ ~(i \in DOMAIN reqs)
  <2>1. DOMAIN reqs = 1 .. Len(reqs)
    BY DEF MoreAsked
  <2> QED
    BY <1>0, <2>1
<1>2. reqs'[i].answer = Unread
  BY <1>1, OldOrNew DEF NewRequest
<1> QED
  BY <1>1, <1>2 DEF Fetching, For, IsRead

LEMMA CoverStays ==
    ASSUME NEW n \in DOMAIN node, Covered(n), MoreAsked, Kept,
           Listing(node[n].path)' = Listing(node[n].path), Announced(n) => Announced(n)'
    PROVE  Covered(n)'
<1>1. CASE \E i \in DOMAIN reqs' : i \in Len(reqs) + 1 .. Len(reqs') /\ For(i, n)'
  <2>1. Fetching(n)'
    BY <1>1, NewFetches DEF For
  <2> QED
    BY <2>1 DEF Covered
<1>2. CASE ~ \E i \in DOMAIN reqs' : i \in Len(reqs) + 1 .. Len(reqs') /\ For(i, n)'
  <2>1. ASSUME NEW i \in DOMAIN reqs', For(i, n)'
        PROVE  i \in DOMAIN reqs /\ reqs'[i] = reqs[i] /\ For(i, n)
    <3>1. i \in DOMAIN reqs /\ reqs'[i] = reqs[i]
      BY <1>2, <2>1, OldOrNew
    <3> QED
      BY <2>1, <3>1 DEF For
  <2>2. \A i \in DOMAIN reqs : i \in DOMAIN reqs' /\ reqs'[i] = reqs[i]
    <3>1. /\ Len(reqs) \in Nat /\ Len(reqs') \in Nat /\ Len(reqs) <= Len(reqs')
          /\ DOMAIN reqs = 1 .. Len(reqs) /\ DOMAIN reqs' = 1 .. Len(reqs')
          /\ \A i \in 1 .. Len(reqs) : reqs'[i] = reqs[i]
      BY DEF MoreAsked
    <3> QED
      BY <3>1
  <2>3. CASE Fetching(n)
    <3>1. Fetching(n)'
      BY <2>2, <2>3 DEF Fetching, For, IsRead
    <3> QED
      BY <3>1 DEF Covered
  <2>4. CASE Announced(n)
    BY <2>4 DEF Covered
  <2>5. CASE Settled(n)
    <3>1. UpToDate(n)'
      BY <2>5 DEF Settled, UpToDate, Kept
    <3>2. Settled(n)'
      BY <2>1, <2>5, <3>1 DEF Settled
    <3> QED
      BY <3>2 DEF Covered
  <2>6. CASE LastIsFresh(n)
    <3>1. PICK i \in DOMAIN reqs : /\ For(i, n) /\ reqs[i].answer = Listing(node[n].path)
                                   /\ \A j \in DOMAIN reqs : j > i => ~For(j, n)
      BY <2>6 DEF LastIsFresh
    <3>2. i \in DOMAIN reqs' /\ For(i, n)' /\ reqs'[i].answer = Listing(node[n].path)'
      BY <2>2, <3>1 DEF For
    <3>3. \A j \in DOMAIN reqs' : j > i => ~For(j, n)'
      BY <2>1, <3>1
    <3>4. LastIsFresh(n)'
      BY <3>2, <3>3 DEF LastIsFresh
    <3> QED
      BY <3>4 DEF Covered
  <2> QED
    BY <2>3, <2>4, <2>5, <2>6 DEF Covered
<1> QED
  BY <1>1, <1>2

\* The listing of a directory changes with its entries only.
LEMMA SameListing ==
    ASSUME NEW d, \A q \in Path : Parent[q] = d => (q \in disk' <=> q \in disk),
           disk \subseteq Path, disk' \subseteq Path
    PROVE  Listing(d)' = Listing(d)
<1>1. {q \in disk' : Parent[q] = d} = {q \in disk : Parent[q] = d}
  OBVIOUS
<1> QED
  BY <1>1 DEF Listing

LEMMA SameDiskListing ==
    ASSUME NEW n \in DOMAIN node, disk' = disk, node'[n].path = node[n].path
    PROVE  Listing(node[n].path)' = Listing(node[n].path)
BY DEF Listing

\* A step that leaves the lists alone.
LEMMA QuietCover ==
    ASSUME TypeInv, TypeInv', CalmInv, CoverInv, Flips, OpenHaveLists',
           \A n \in Shown : n \in DOMAIN node /\ n \notin skipped' /\ node'[n].ul
                              /\ Exists(node[n].path)' => Covered(n)'
    PROVE  CoverInv'
<1>1. Shown' \subseteq Shown /\ Shown \subseteq DOMAIN node
  <2>1. ViewOK /\ ViewOK' /\ OpenOK /\ RowsAreRegistered /\ 1 \in DOMAIN node
    BY DEF TypeInv, CalmInv, OpenOK
  <2>2. Kept
    BY <2>1, FlipsKeep
  <2> QED
    BY <2>1, <2>2, KeptRows, ShownBelow
<1>2. \A n \in Shown' \ skipped' : node'[n].ul /\ Exists(node[n].path)' => Covered(n)'
  BY <1>1
<1>3. ~Lossy
  BY DEF CoverInv
<1> QED
  BY <1>2, <1>3 DEF CoverInv

\* ... and the disk, the notices and the history alone too, but may ask for more.
LEMMA StillCovered ==
    ASSUME TypeInv, TypeInv', CalmInv, CoverInv, node' = node, reg' = reg, disk' = disk,
           MoreAsked, skipped' = skipped,
           \A n \in DOMAIN node : Announced(n) => Announced(n)'
    PROVE  CoverInv'
<1>1. Flips /\ Kept
  BY SameFlips, FlipsKeep DEF TypeInv
<1>2. OpenHaveLists'
  BY DEF CoverInv, OpenHaveLists
<1>3. ASSUME NEW n \in Shown, n \in DOMAIN node, n \notin skipped', node'[n].ul, Exists(node[n].path)'
      PROVE  Covered(n)'
  <2>1. Covered(n)
    BY <1>3 DEF CoverInv, Exists
  <2>2. Listing(node[n].path)' = Listing(node[n].path)
    BY <1>3, SameDiskListing
  <2> QED
    BY <1>1, <1>3, <2>1, <2>2, CoverStays
<1> QED
  BY <1>1, <1>2, <1>3, QuietCover

LEMMA OtherCovers ==
    ASSUME TypeInv, TypeInv', CalmInv, CoverInv,
           Notice \/ ExpandAll \/ SweepStart \/ SweepEnd \/ UNCHANGED vars
    PROVE  CoverInv'
<1>1. node' = node /\ reg' = reg /\ reqs' = reqs /\ disk' = disk /\ skipped' = skipped
  BY DEF Notice, ExpandAll, SweepStart, SweepEnd, vars, viewVars, diskVars
<1>2. MoreAsked
  BY <1>1, NoneAsked DEF TypeInv
<1>3. ASSUME NEW n \in DOMAIN node, Announced(n) PROVE Announced(n)'
  <2>1. CASE Notice
    <3>1. /\ notices \in Seq(AnyDir) /\ notices # <<>> /\ notices' = Tail(notices)
          /\ pending' = pending \cup {Head(notices)} /\ timer'
      BY <2>1 DEF Notice, TypeInv, RestOK
    <3>2. ASSUME NEW d \in Range(notices) PROVE d = Head(notices) \/ d \in Range(Tail(notices))
      <4>1. /\ Len(notices) \in Nat /\ DOMAIN notices = 1 .. Len(notices) /\ Head(notices) = notices[1]
            /\ DOMAIN Tail(notices) = 1 .. Len(notices) - 1
            /\ \A k \in 1 .. Len(notices) - 1 : Tail(notices)[k] = notices[k + 1]
        BY <3>1, HeadTailProperties, LenProperties
      <4>2. PICK k \in DOMAIN notices : notices[k] = d
        BY <3>2 DEF Range
      <4>3. CASE k = 1
        BY <4>1, <4>2, <4>3
      <4>4. CASE k # 1
        <5>1. k - 1 \in DOMAIN Tail(notices) /\ Tail(notices)[k - 1] = d
          BY <4>1, <4>2, <4>4
        <5> QED
          BY <5>1 DEF Range
      <4> QED
        BY <4>3, <4>4
    <3> QED
      BY <1>1, <1>3, <3>1, <3>2 DEF Announced
  <2>2. CASE ~Notice
    <3>1. notices' = notices /\ pending' = pending /\ timer' = timer
      BY <2>2 DEF ExpandAll, SweepStart, SweepEnd, vars
    <3> QED
      BY <1>1, <1>3, <3>1 DEF Announced
  <2> QED
    BY <2>1, <2>2
<1> QED
  BY <1>1, <1>2, <1>3, StillCovered

\* A change is announced to the list it is in; other lists do not change.
LEMMA FsCovers ==
    ASSUME TypeInv, TypeInv', CalmInv, CoverInv, NEW p \in Path, FsCreate(p) \/ FsRemove(p)
    PROVE  CoverInv'
<1>1. /\ node' = node /\ reg' = reg /\ reqs' = reqs /\ skipped' = skipped
      /\ pending' = pending /\ timer' = timer
  BY DEF FsCreate, FsRemove, viewVars
<1>2. notices' = Append(notices, Parent[p]) /\ notices \in Seq(AnyDir) /\ Parent[p] \in AnyDir
  BY PathTypes DEF FsCreate, FsRemove, Notify, CoverInv, TypeInv, RestOK
<1>3. /\ Range(notices') = Range(notices) \cup {Parent[p]}
  BY <1>2, AppendRange
<1>4. /\ disk \subseteq Path /\ disk' \subseteq Path
      /\ \A q \in Path : q # p => (q \in disk' <=> q \in disk)
  BY DEF TypeInv, RestOK, FsCreate, FsRemove
<1>5. Flips /\ Kept /\ MoreAsked
  BY <1>1, SameFlips, FlipsKeep, NoneAsked DEF TypeInv
<1>6. OpenHaveLists'
  BY <1>1 DEF CoverInv, OpenHaveLists
<1>7. ASSUME NEW n \in Shown, n \in DOMAIN node, n \notin skipped', node'[n].ul, Exists(node[n].path)'
      PROVE  Covered(n)'
  <2>1. Announced(n) => Announced(n)'
    BY <1>1, <1>3 DEF Announced
  <2>2. CASE node[n].path = Parent[p]
    <3>1. Announced(n)'
      BY <1>1, <1>3, <2>2 DEF Announced
    <3> QED
      BY <3>1 DEF Covered
  <2>3. CASE node[n].path # Parent[p]
    <3>1. Exists(node[n].path)
      <4>1. CASE node[n].path = p
        <5>1. p \in DirPath
          <6>1. node[n].path \in AnyDir /\ Root \notin Path
            BY <1>1, <1>7, PathTypes DEF TypeInv, OpenOK
          <6> QED
            BY <4>1, <6>1 DEF AnyDir
        <5>2. p \in disk \cup removed
          BY <1>7, <4>1, <5>1 DEF CalmInv, Existed
        <5>3. p \in disk \/ FsRemove(p)
          BY <5>2 DEF FsCreate, CalmInv, Calm
        <5>4. p \in disk
          BY <5>3 DEF FsRemove
        <5> QED
          BY <4>1, <5>4 DEF Exists
      <4>2. CASE node[n].path # p
        <5>1. node[n].path = Root \/ node[n].path \in disk'
          BY <1>1, <1>7 DEF Exists
        <5> QED
          BY <1>4, <4>2, <5>1 DEF Exists
      <4> QED
        BY <4>1, <4>2
    <3>2. Covered(n)
      BY <1>1, <1>7, <3>1 DEF CoverInv
    <3>3. Listing(node[n].path)' = Listing(node[n].path)
      <4> DEFINE d == node[n].path
      <4>1. \A q \in Path : Parent[q] = d => (q \in disk' <=> q \in disk)
        BY <1>4, <2>3
      <4>2. {q \in disk' : Parent[q] = d} = {q \in disk : Parent[q] = d}
        BY <1>4, <4>1
      <4> QED
        BY <1>1, <4>2 DEF Listing
    <3> QED
      BY <1>5, <2>1, <3>2, <3>3, CoverStays, <1>7
  <2> QED
    BY <2>2, <2>3
<1> QED
  BY <1>5, <1>6, <1>7, QuietCover

\* What becomes due is asked for, or it is skipped.
LEMMA RefreshCovers ==
    ASSUME TypeInv, TypeInv', CalmInv, CoverInv, TimerFires \/ SweepNext
    PROVE  CoverInv'
<1>1. node' = node /\ reg' = reg /\ disk' = disk /\ notices' = notices
  BY DEF TimerFires, SweepNext, viewVars, diskVars
<1>2. PICK due : /\ due \subseteq AnyDir /\ NoteSkipped(due) /\ MoreAsked
                 /\ \A d \in due : Refreshable(d) =>
                      \E i \in Len(reqs) + 1 .. Len(reqs') :
                         reqs'[i].to = reg[d] /\ reqs'[i].use = "refresh"
                 /\ \A d : d \in pending /\ timer => d \in due \/ (d \in pending' /\ timer')
  <2>1. CASE TimerFires
    <3>1. /\ pending \subseteq AnyDir /\ NoteSkipped(pending) /\ MoreAsked
          /\ \A d \in pending : Refreshable(d) =>
               \E i \in Len(reqs) + 1 .. Len(reqs') :
                  reqs'[i].to = reg[d] /\ reqs'[i].use = "refresh"
      BY <2>1, TimerAsks DEF TimerFires, TypeInv, RestOK
    <3> QED
      BY <3>1
  <2>2. CASE SweepNext
    <3> DEFINE due == {Head(sweepQ)} \ {Root}
    <3>1. /\ MoreAsked /\ Head(sweepQ) \in AnyDir
          /\ Head(sweepQ) # Root /\ Refreshable(Head(sweepQ)) =>
                 \E i \in Len(reqs) + 1 .. Len(reqs') :
                    reqs'[i].to = reg[Head(sweepQ)] /\ reqs'[i].use = "refresh"
      BY <2>2, SweepAsks
    <3>2. NoteSkipped(due) /\ pending' = pending /\ timer' = timer
      BY <2>2 DEF SweepNext
    <3>3. /\ due \subseteq AnyDir
          /\ \A d \in due : Refreshable(d) =>
                      \E i \in Len(reqs) + 1 .. Len(reqs') :
                         reqs'[i].to = reg[d] /\ reqs'[i].use = "refresh"
      BY <3>1
    <3> HIDE DEF due
    <3> QED
      BY <3>1, <3>2, <3>3
  <2> QED
    BY <2>1, <2>2
<1>3. Flips /\ Kept
  BY <1>1, SameFlips, FlipsKeep DEF TypeInv
<1>4. OpenHaveLists'
  BY <1>1 DEF CoverInv, OpenHaveLists
<1>5. ASSUME NEW n \in Shown, n \in DOMAIN node, n \notin skipped', node'[n].ul, Exists(node[n].path)'
      PROVE  Covered(n)'
  <2> DEFINE d == node[n].path
  <2>1. reg[d] = n /\ n # 0 /\ node[n].ul
    <3>1. n \in 1 .. Len(node) /\ Len(node) \in Nat
      BY <1>5, LenProperties DEF TypeInv, ViewOK
    <3> QED
      BY <1>1, <1>5, <3>1 DEF CalmInv, RowsAreRegistered
  <2>2. CASE d \in due
    <3>1. Refreshable(d)
      BY <1>2, <1>5, <2>1, <2>2 DEF NoteSkipped
    <3>2. PICK i \in Len(reqs) + 1 .. Len(reqs') : reqs'[i].to = n /\ reqs'[i].use = "refresh"
      BY <1>2, <2>1, <2>2, <3>1
    <3>3. Fetching(n)'
      BY <1>2, <3>2, NewFetches
    <3> QED
      BY <3>3 DEF Covered
  <2>3. CASE d \notin due
    <3>1. n \notin skipped
      <4> SUFFICES ASSUME n \in skipped PROVE FALSE
        OBVIOUS
      <4>1. PICK e \in due : reg[e] = n
        BY <1>2, <1>5 DEF NoteSkipped
      <4>2. e \in Path \cup {Root}
        BY <1>2, <4>1, PathTypes
      <4>3. node[n].path = e
        BY <2>1, <4>1, <4>2 DEF TypeInv, ViewOK, Named
      <4> QED
        BY <2>3, <4>1, <4>3
    <3>2. Covered(n)
      BY <1>1, <1>5, <2>1, <3>1 DEF CoverInv, Exists
    <3>3. Announced(n) => Announced(n)'
      BY <1>1, <1>2, <2>3 DEF Announced
    <3>4. Listing(node[n].path)' = Listing(node[n].path)
      BY <1>1, <1>5, SameDiskListing
    <3> QED
      BY <1>2, <1>3, <1>5, <3>2, <3>3, <3>4, CoverStays
  <2> QED
    BY <2>2, <2>3
<1> QED
  BY <1>3, <1>4, <1>5, QuietCover

\* toggleDir fetches the list that it makes.
LEMMA ToggleCovers ==
    ASSUME TypeInv, TypeInv', CalmInv, CoverInv, NEW o \in DirNodes,
           NEW then \in {"none", "expand", "sweep"}, Toggle(o, then), disk' = disk, skipped' = skipped,
           notices' = notices, pending' = pending, timer' = timer
    PROVE  CoverInv'
<1>1. ViewOK /\ ReqsOK /\ o \in DOMAIN node /\ node[o].path \in DirPath
  BY DEF TypeInv, DirNodes
<1>2. /\ Flips /\ node'[o].ul
      /\ \A m \in DOMAIN node : m # o => node'[m] = node[m]
  BY <1>1, ToggleFlips
<1>3. Kept
  BY <1>1, <1>2, FlipsKeep
<1>4. /\ MoreAsked /\ Len(reqs) \in Nat
      /\ ~node[o].expanded /\ ~node[o].ul =>
                 /\ Len(reqs') = Len(reqs) + 1
                 /\ reqs'[Len(reqs')] = Ask("toggle", node[o].path, o, then)
  BY <1>1, ToggleAsks
<1>5. OpenHaveLists /\ OpenHaveLists'
  <2>1. OpenHaveLists
    BY DEF CoverInv
  <2>2. ASSUME NEW m \in DOMAIN node', node'[m].expanded PROVE node'[m].ul
    <3>1. CASE m = o
      BY <1>2, <3>1
    <3>2. CASE m # o
      BY <1>2, <1>3, <2>1, <2>2, <3>2 DEF OpenHaveLists, Kept
    <3> QED
      BY <3>1, <3>2
  <2> QED
    BY <2>1, <2>2 DEF OpenHaveLists
<1>6. ASSUME NEW n \in Shown, n \in DOMAIN node, n \notin skipped', node'[n].ul, Exists(node[n].path)'
      PROVE  Covered(n)'
  <2>1. CASE node[n].ul
    <3>1. node'[n].path = node[n].path
      BY <1>3, <1>6 DEF Kept, PathsStay
    <3>2. Covered(n)
      BY <1>6, <2>1, <3>1 DEF CoverInv, Exists
    <3>3. Announced(n) => Announced(n)'
      BY <3>1 DEF Announced
    <3>4. Listing(node[n].path)' = Listing(node[n].path)
      BY <1>6, <3>1, SameDiskListing
    <3> QED
      BY <1>3, <1>4, <1>6, <3>2, <3>3, <3>4, CoverStays
  <2>2. CASE ~node[n].ul
    <3>1. n = o /\ ~node[o].ul /\ ~node[o].expanded
      BY <1>1, <1>2, <1>5, <1>6, <2>2 DEF OpenHaveLists
    <3>2. reqs'[Len(reqs')].to = n /\ reqs'[Len(reqs')].use = "toggle"
      BY <1>4, <3>1 DEF Ask
    <3>3. Len(reqs') \in Len(reqs) + 1 .. Len(reqs')
      BY <1>4, <3>1
    <3>4. Fetching(n)'
      BY <1>4, <3>2, <3>3, NewFetches
    <3> QED
      BY <3>4 DEF Covered
  <2> QED
    BY <2>1, <2>2
<1> QED
  BY <1>2, <1>5, <1>6, QuietCover

LEMMA UserCovers ==
    ASSUME TypeInv, TypeInv', CalmInv, CoverInv,
           \/ \E n \in DOMAIN node : Click(n)
           \/ CollapseAll
           \/ ExpandNext
    PROVE  CoverInv'
<1>1. CASE \E n \in DOMAIN node : Click(n)
  <2>1. PICK n \in DOMAIN node : Click(n)
    BY <1>1
  <2>2. /\ n \in DirNodes /\ Toggle(n, "none") /\ disk' = disk /\ skipped' = skipped
        /\ notices' = notices /\ pending' = pending /\ timer' = timer
    BY <2>1 DEF Click, DirNodes, diskVars
  <2> QED
    BY <2>2, ToggleCovers
<1>2. CASE CollapseAll
  <2>1. /\ reqs' = reqs /\ disk' = disk /\ skipped' = skipped
        /\ notices' = notices /\ pending' = pending /\ timer' = timer
    BY <1>2 DEF CollapseAll, diskVars
  <2>2. /\ Flips
        /\ \A m \in DOMAIN node : node'[m].ul = node[m].ul /\ (node'[m].expanded => node[m].expanded)
    BY <1>2, CollapseFlips DEF CollapseAll, TypeInv
  <2>3. Kept /\ MoreAsked
    BY <2>1, <2>2, FlipsKeep, NoneAsked DEF TypeInv
  <2>4. OpenHaveLists'
    BY <2>2, <2>3 DEF CoverInv, OpenHaveLists, Kept
  <2>5. ASSUME NEW n \in Shown, n \in DOMAIN node, n \notin skipped', node'[n].ul, Exists(node[n].path)'
        PROVE  Covered(n)'
    <3>1. node'[n].path = node[n].path /\ node[n].ul
      BY <2>2, <2>3, <2>5 DEF Kept, PathsStay
    <3>2. Covered(n)
      BY <2>1, <2>5, <3>1 DEF CoverInv, Exists
    <3>3. Announced(n) => Announced(n)'
      BY <2>1, <3>1 DEF Announced
    <3>4. Listing(node[n].path)' = Listing(node[n].path)
      BY <2>1, <2>5, <3>1, SameDiskListing
    <3> QED
      BY <2>3, <2>5, <3>2, <3>3, <3>4, CoverStays
  <2> QED
    BY <2>2, <2>4, <2>5, QuietCover
<1>3. CASE ExpandNext
  <2>1. /\ disk' = disk /\ skipped' = skipped
        /\ notices' = notices /\ pending' = pending /\ timer' = timer
    BY <1>3 DEF ExpandNext, diskVars
  <2>2. CASE node' = node /\ reg' = reg /\ reqs' = reqs
    <3>1. MoreAsked
      BY <2>2, NoneAsked DEF TypeInv
    <3>2. \A n \in DOMAIN node : Announced(n) => Announced(n)'
      BY <2>1, <2>2 DEF Announced
    <3> QED
      BY <2>1, <2>2, <3>1, <3>2, StillCovered
  <2>3. CASE expandQ # <<>> /\ Toggle(Head(expandQ), "expand")
    <3>1. Head(expandQ) \in DirNodes
      BY <2>3, HeadTailProperties DEF TypeInv, QueueOK
    <3> QED
      BY <2>1, <2>3, <3>1, ToggleCovers
  <2>4. \/ node' = node /\ reg' = reg /\ reqs' = reqs
        \/ expandQ # <<>> /\ Toggle(Head(expandQ), "expand")
    BY <1>3 DEF ExpandNext, viewVars
  <2> QED
    BY <2>2, <2>3, <2>4
<1> QED
  BY <1>1, <1>2, <1>3

\* What is read is what is on disk; a later request for the row, if there is
\* one, is not read yet.
LEMMA ReadCovers ==
    ASSUME TypeInv, TypeInv', CalmInv, CoverInv, NEW i \in DOMAIN reqs, Read(i)
    PROVE  CoverInv'
<1>1. /\ node' = node /\ reg' = reg /\ disk' = disk /\ skipped' = skipped
      /\ notices' = notices /\ pending' = pending /\ timer' = timer
  BY DEF Read, viewVars, diskVars
<1>2. /\ ViewOK /\ ReqsOK /\ Asked /\ InOrder /\ reqs[i].answer = Unread
  BY DEF TypeInv, CalmInv, Read
<1>3. Answers(i)
  BY <1>2, ReadAnswers
<1>4. Flips /\ Kept
  BY <1>1, <1>2, SameFlips, FlipsKeep
<1>5. OpenHaveLists'
  BY <1>1 DEF CoverInv, OpenHaveLists
<1>6. /\ DOMAIN reqs' = DOMAIN reqs
      /\ \A j \in DOMAIN reqs : /\ reqs'[j].to = reqs[j].to /\ reqs'[j].use = reqs[j].use
                                /\ j # i => reqs'[j] = reqs[j]
  BY <1>3 DEF Answers
<1>7. ASSUME NEW n \in Shown, n \in DOMAIN node, n \notin skipped', node'[n].ul, Exists(node[n].path)'
      PROVE  Covered(n)'
  <2>1. Covered(n) /\ Exists(node[n].path)
    BY <1>1, <1>7 DEF CoverInv, Exists
  <2>2. Listing(node[n].path)' = Listing(node[n].path)
    BY <1>1, <1>7, SameDiskListing
  <2>3. \A j \in DOMAIN reqs : For(j, n)' <=> For(j, n)
    BY <1>6 DEF For
  <2>4. CASE \E k \in DOMAIN reqs : For(k, n) /\ ~IsRead(k) /\ k # i
    <3>1. Fetching(n)'
      BY <1>6, <2>3, <2>4 DEF Fetching, IsRead
    <3> QED
      BY <3>1 DEF Covered
  <2>5. CASE For(i, n) /\ \A k \in DOMAIN reqs : For(k, n) /\ ~IsRead(k) => k = i
    <3>1. Fits(i) /\ reqs[i].dir = node[n].path
      BY <1>2, <2>5 DEF Asked, Fits, For
    <3>2. reqs'[i].answer = Listing(node[n].path)'
      BY <1>3, <2>1, <2>2, <3>1 DEF Answers
    <3>3. ASSUME NEW j \in DOMAIN reqs, j > i, For(j, n) PROVE FALSE
      <4>1. IsRead(j)
        BY <1>2, <2>5, <3>3, LenProperties DEF ReqsOK
      <4>2. reqs[j].dir = reqs[i].dir
        BY <1>2, <3>1, <3>3 DEF Asked, Fits, For
      <4> QED
        BY <1>2, <3>3, <4>1, <4>2 DEF InOrder, IsRead
    <3>4. LastIsFresh(n)'
      BY <1>6, <2>3, <2>5, <3>2, <3>3 DEF LastIsFresh
    <3> QED
      BY <3>4 DEF Covered
  <2>6. CASE Announced(n)
    <3>1. Announced(n)'
      BY <1>1, <2>6 DEF Announced
    <3> QED
      BY <3>1 DEF Covered
  <2>7. CASE Settled(n)
    <3>1. UpToDate(n)'
      BY <1>4, <1>7, <2>2, <2>7 DEF Settled, UpToDate, Kept
    <3>2. Settled(n)'
      BY <1>6, <2>3, <2>7, <3>1 DEF Settled
    <3> QED
      BY <3>2 DEF Covered
  <2>8. CASE LastIsFresh(n)
    <3>1. PICK k \in DOMAIN reqs : /\ For(k, n) /\ reqs[k].answer = Listing(node[n].path)
                                   /\ \A j \in DOMAIN reqs : j > k => ~For(j, n)
      BY <2>8 DEF LastIsFresh
    <3>2. k # i
      BY <1>2, <3>1, ListingType, PathIsNoMark
    <3>3. LastIsFresh(n)'
      BY <1>6, <2>2, <2>3, <3>1, <3>2 DEF LastIsFresh
    <3> QED
      BY <3>3 DEF Covered
  <2> QED
    BY <2>1, <2>4, <2>5, <2>6, <2>7, <2>8 DEF Covered, Fetching
<1> QED
  BY <1>4, <1>5, <1>7, QuietCover

\* What an answer does to a node, and to what is on the page.
Rendered(i) ==
    /\ Shown \subseteq DOMAIN node /\ PathsStay
    /\ \A n \in Shown' : n \in Shown \/ (n \notin DOMAIN node /\ ~node'[n].ul)
    /\ \A n \in DOMAIN node' : n \in DOMAIN node \/ ~node'[n].expanded
    /\ \A n \in DOMAIN node :
          /\ node'[n].ul = node[n].ul /\ node'[n].expanded = node[n].expanded
          /\ \/ ~For(i, n) /\ PathsOf(node[n].kids)' = PathsOf(node[n].kids)
             \/ reqs[i].answer = Failed /\ PathsOf(node[n].kids)' = PathsOf(node[n].kids)
             \/ For(i, n) /\ PathsOf(node[n].kids)' = reqs[i].answer

LEMMA DeliverRenders ==
    ASSUME TypeInv, TypeInv', CalmInv, NEW i \in DOMAIN reqs, Deliver(i)
    PROVE  Rendered(i)
<1>1. ViewOK /\ OpenOK /\ ViewOK' /\ OpenOK' /\ RowsAreRegistered
  BY DEF TypeInv, CalmInv
<1>2. 1 \in DOMAIN node /\ 1 \in DOMAIN node'
  BY <1>1 DEF OpenOK
<1>3. Shown \subseteq DOMAIN node /\ Shown' \subseteq DOMAIN node'
  BY <1>1, <1>2, ShownBelow, ShownBelowNext
<1>4. CASE (reqs[i].use = "ignore" \/ reqs[i].answer = Failed) /\ node' = node /\ reg' = reg
  <2>1. Kept
    BY <1>1, <1>4, SameFlips, FlipsKeep
  <2>2. Shown' \subseteq Shown
    BY <1>1, <2>1, KeptRows
  <2>3. \A n \in DOMAIN node : PathsOf(node[n].kids)' = PathsOf(node[n].kids)
    BY <2>1 DEF Kept
  <2>4. PathsStay /\ DOMAIN node' = DOMAIN node
    BY <2>1 DEF Kept
  <2> QED
    BY <1>3, <1>4, <2>2, <2>3, <2>4 DEF Rendered, For
<1>5. ASSUME NEW m, m = reqs[i].to, NEW a, a = reqs[i].answer,
             Fitting(m, a), Fills(m, a), reqs[i].use # "ignore"
      PROVE  Rendered(i)
  <2>1. FilledView(m, a)
    BY <1>1, <1>5, FilledLists DEF Fitting
  <2>2. PathsStay
    BY <2>1 DEF FilledView
  <2> DEFINE New == DOMAIN node' \ DOMAIN node
  <2>3. Shown' \subseteq Shown \cup New
    <3>1. \A x \in DOMAIN node : Range(node'[x].kids) \subseteq Range(node[x].kids) \cup New
      <4> TAKE x \in DOMAIN node
      <4>1. CASE x = m
        BY <2>1, <4>1 DEF FilledView
      <4>2. CASE x # m
        BY <2>1, <4>2 DEF FilledView
      <4> QED
        BY <4>1, <4>2
    <3>2. \A x \in New : Range(node'[x].kids) \subseteq New
      BY <2>1 DEF FilledView
    <3> HIDE DEF New
    <3> QED
      BY <1>1, <1>2, <3>1, <3>2, ShownGrows
  <2>4. \A n \in New : ~node'[n].ul /\ ~node'[n].expanded
    BY <2>1 DEF FilledView
  <2>5. ASSUME NEW n \in DOMAIN node
        PROVE  /\ node'[n].ul = node[n].ul /\ node'[n].expanded = node[n].expanded
               /\ \/ ~For(i, n) /\ PathsOf(node[n].kids)' = PathsOf(node[n].kids)
                  \/ For(i, n) /\ PathsOf(node[n].kids)' = reqs[i].answer
    <3>1. CASE n = m
      BY <1>5, <2>1, <3>1 DEF FilledView, For
    <3>2. CASE n # m
      BY <1>5, <2>1, <3>2 DEF FilledView, For
    <3> QED
      BY <3>1, <3>2
  <2> QED
    BY <1>3, <2>2, <2>3, <2>4, <2>5 DEF Rendered
<1> QED
  BY <1>4, <1>5, DeliverView

\* An answer that is applied and was the last one out leaves its list right.
LEMMA DeliverCovers ==
    ASSUME TypeInv, TypeInv', CalmInv, CoverInv, NEW i \in DOMAIN reqs, Deliver(i)
    PROVE  CoverInv'
<1>1. /\ ReqsOK /\ Asked /\ Calm /\ reqs[i].answer # Unread
  BY DEF TypeInv, CalmInv, Deliver
<1>2. /\ disk' = disk /\ skipped' = skipped /\ notices' = notices
      /\ pending' = pending /\ timer' = timer
  BY DEF Deliver, diskVars
<1>3. Left(i) /\ IsFirst(i) /\ Len(reqs) \in Nat /\ DOMAIN reqs = 1 .. Len(reqs)
  BY <1>1, DeliverLeaves, DeliversFirst DEF Left
<1>4. ASSUME NEW n, NEW j \in DOMAIN reqs'
      PROVE  /\ Was(i, j) \in DOMAIN reqs /\ Was(i, j) # i /\ reqs'[j] = reqs[Was(i, j)]
             /\ For(j, n)' => For(Was(i, j), n)
  BY <1>3, LeftWas DEF For
<1>5. Rendered(i)
  BY DeliverRenders
<1>6. OpenHaveLists'
  <2> SUFFICES ASSUME NEW n \in DOMAIN node', node'[n].expanded PROVE node'[n].ul
    BY DEF OpenHaveLists
  <2>1. n \in DOMAIN node /\ node[n].expanded /\ node'[n].ul = node[n].ul
    BY <1>5 DEF Rendered
  <2> QED
    BY <2>1 DEF CoverInv, OpenHaveLists
<1>7. ASSUME NEW n \in Shown', n \notin skipped', node'[n].ul, Exists(node[n].path)'
      PROVE  Covered(n)'
  <2>1. /\ n \in Shown /\ n \in DOMAIN node /\ node'[n].path = node[n].path /\ node[n].ul
    BY <1>5, <1>7 DEF Rendered, PathsStay
  <2>2. Covered(n)
    BY <1>2, <1>7, <2>1 DEF CoverInv, Exists
  <2>3. Listing(node[n].path)' = Listing(node[n].path)
    BY <1>2, <2>1, SameDiskListing
  <2>4. \/ ~For(i, n) /\ PathsOf(node[n].kids)' = PathsOf(node[n].kids)
        \/ reqs[i].answer = Failed /\ PathsOf(node[n].kids)' = PathsOf(node[n].kids)
        \/ For(i, n) /\ PathsOf(node[n].kids)' = reqs[i].answer
    BY <1>5, <2>1 DEF Rendered
  <2>5. ASSUME NEW k \in DOMAIN reqs, k # i, For(k, n)
        PROVE  \E j \in DOMAIN reqs' : /\ Was(i, j) = k /\ reqs'[j] = reqs[k] /\ For(j, n)'
    <3>1. PICK j \in DOMAIN reqs' : Was(i, j) = k
      BY <1>3, <2>5, LeftWas
    <3>2. reqs'[j] = reqs[k]
      BY <1>4, <3>1
    <3> QED
      BY <2>5, <3>1, <3>2 DEF For
  <2>6. CASE Fetching(n)
    <3>1. PICK k \in DOMAIN reqs : For(k, n) /\ ~IsRead(k)
      BY <2>6 DEF Fetching
    <3>2. k # i
      BY <1>1, <3>1 DEF IsRead
    <3>3. Fetching(n)'
      BY <2>5, <3>1, <3>2 DEF Fetching, IsRead
    <3> QED
      BY <3>3 DEF Covered
  <2>7. CASE Announced(n)
    <3>1. Announced(n)'
      BY <1>2, <2>1, <2>7 DEF Announced
    <3> QED
      BY <3>1 DEF Covered
  <2>8. CASE Settled(n)
    <3>1. \A k \in DOMAIN reqs : ~For(k, n)
      BY <2>8 DEF Settled
    <3>2. UpToDate(n)'
      BY <2>3, <2>4, <2>8, <3>1 DEF Settled, UpToDate
    <3>3. \A j \in DOMAIN reqs' : ~For(j, n)'
      BY <1>4, <3>1
    <3>4. Settled(n)'
      BY <3>2, <3>3 DEF Settled
    <3> QED
      BY <3>4 DEF Covered
  <2>9. CASE LastIsFresh(n)
    <3>1. PICK k \in DOMAIN reqs : /\ For(k, n) /\ reqs[k].answer = Listing(node[n].path)
                                   /\ \A j \in DOMAIN reqs : j > k => ~For(j, n)
      BY <2>9 DEF LastIsFresh
    <3>2. CASE k # i
      <4>1. PICK j \in DOMAIN reqs' : /\ Was(i, j) = k /\ reqs'[j] = reqs[k] /\ For(j, n)'
        BY <2>5, <3>1, <3>2
      <4>2. ASSUME NEW l \in DOMAIN reqs', l > j, For(l, n)' PROVE FALSE
        <5>1. Was(i, l) \in DOMAIN reqs /\ For(Was(i, l), n)
          BY <1>4, <4>2
        <5>2. Was(i, j) < Was(i, l)
          BY <1>3, <4>2, LeftWas
        <5> QED
          BY <3>1, <4>1, <5>1, <5>2
      <4>3. LastIsFresh(n)'
        BY <2>3, <3>1, <4>1, <4>2 DEF LastIsFresh
      <4> QED
        BY <4>3 DEF Covered
    <3>3. CASE k = i
      <4>1. reqs[i].answer # Failed /\ For(i, n)
        BY <3>1, <3>3, ListingType, PathIsNoMark
      <4>2. UpToDate(n)'
        BY <2>3, <2>4, <3>1, <3>3, <4>1 DEF UpToDate
      <4>3. ASSUME NEW j \in DOMAIN reqs', For(j, n)' PROVE FALSE
        <5> DEFINE w == Was(i, j)
        <5>1. w \in DOMAIN reqs /\ w # i /\ For(w, n)
          BY <1>4, <4>3
        <5> HIDE DEF w
        <5>2. ~(w > i)
          BY <3>1, <3>3, <5>1
        <5>3. w \in 1 .. i - 1
          BY <1>3, <5>1, <5>2
        <5>4. reqs[w].dir = reqs[i].dir
          BY <1>1, <4>1, <5>1 DEF Asked, Fits, For
        <5> QED
          BY <1>3, <5>3, <5>4 DEF IsFirst
      <4>4. Settled(n)'
        BY <4>2, <4>3 DEF Settled
      <4> QED
        BY <4>4 DEF Covered
    <3> QED
      BY <3>2, <3>3
  <2> QED
    BY <2>2, <2>6, <2>7, <2>8, <2>9 DEF Covered
<1>8. ~Lossy
  BY DEF CoverInv
<1>9. \A n \in Shown' \ skipped' : node'[n].ul /\ Exists(node[n].path)' => Covered(n)'
  BY <1>7
<1> QED
  BY <1>6, <1>8, <1>9 DEF CoverInv

LEMMA NextCovers ==
    ASSUME TypeInv, TypeInv', CalmInv, CoverInv, [Next]_vars
    PROVE  CoverInv'
<1>1. CASE Notice \/ ExpandAll \/ SweepStart \/ SweepEnd \/ UNCHANGED vars
  BY <1>1, OtherCovers
<1>2. CASE TimerFires \/ SweepNext
  BY <1>2, RefreshCovers
<1>3. ASSUME NEW i \in DOMAIN reqs, Deliver(i) PROVE CoverInv'
  BY <1>3, DeliverCovers
<1>4. CASE (\E n \in DOMAIN node : Click(n)) \/ CollapseAll \/ ExpandNext
  BY <1>4, UserCovers
<1>5. ASSUME NEW i \in DOMAIN reqs, Read(i) PROVE CoverInv'
  BY <1>5, ReadCovers
<1>6. ASSUME NEW p \in Path, FsCreate(p) \/ FsRemove(p) PROVE CoverInv'
  BY <1>6, FsCovers
<1> QED
  BY <1>1, <1>2, <1>3, <1>4, <1>5, <1>6 DEF Next, Browser, Server, User

LEMMA InitCovers == Init /\ Calm /\ ~Lossy => CoverInv
<1> SUFFICES ASSUME Init, Calm, ~Lossy PROVE CoverInv
  OBVIOUS
<1> DEFINE nil == <<>>
           first == [path |-> Root, expanded |-> TRUE, ul |-> TRUE, kids |-> nil]
           ask == Ask("render", Root, 1, "none")
           nodes == <<first>>
           asks == <<ask>>
<1>1. node = nodes /\ reqs = asks
  BY DEF Init
<1>2. /\ DOMAIN nodes = {1} /\ nodes[1] = first /\ DOMAIN asks = {1} /\ asks[1] = ask
  OBVIOUS
<1>3. first.ul = TRUE
  OBVIOUS
<1>4. ask.use = "render" /\ ask.to = 1 /\ ask.answer = Unread
  BY DEF Ask
<1> HIDE DEF nil, first, ask, nodes, asks
<1>5. DOMAIN node = {1} /\ node[1].ul /\ DOMAIN reqs = {1} /\ reqs[1] = ask
  BY <1>1, <1>2, <1>3
<1>6. Fetching(1)
  BY <1>4, <1>5 DEF Fetching, For, IsRead
<1>7. Shown \subseteq {1}
  <2>1. TypeInv
    BY InitTypeInv
  <2>2. ViewOK /\ 1 \in DOMAIN node
    BY <1>5, <2>1 DEF TypeInv
  <2> QED
    BY <1>5, <2>2, ShownBelow
<1>8. OpenHaveLists
  BY <1>5 DEF OpenHaveLists
<1>9. \A n \in Shown \ skipped : Covered(n)
  BY <1>6, <1>7 DEF Covered
<1> QED
  BY <1>8, <1>9 DEF CoverInv

LEMMA CoverCovers ==
    ASSUME TypeInv, CalmInv, CoverInv
    PROVE  StalenessIsCovered
<1> SUFFICES ASSUME NEW n \in Watched \ skipped
             PROVE  \/ UpToDate(n)
                    \/ \E i \in DOMAIN reqs : reqs[i].to = n /\ reqs[i].use # "ignore"
                    \/ /\ reg[node[n].path] = n
                       /\ \/ node[n].path \in pending /\ timer
                          \/ node[n].path \in Range(notices)
  BY DEF StalenessIsCovered
<1>1. n \in Shown /\ n \notin skipped /\ node[n].ul /\ Exists(node[n].path)
  BY DEF Watched
<1>2. Covered(n) /\ reg[node[n].path] = n
  BY <1>1 DEF CoverInv, CalmInv, RowsAreRegistered
<1> QED
  BY <1>2 DEF Covered, Fetching, Announced, Settled, LastIsFresh, For

(***************************************************************************)
(* When no notice is lost either, a visible expanded directory that is not *)
(* what is on disk has a notice, a pending refresh or an answer on its way *)
(* to it, unless it was collapsed when its refresh was due (scheduleRefresh,*)
(* refreshDir, toggleDir, reconcileChildren).                              *)
(***************************************************************************)
THEOREM StalenessCovered == Spec /\ Calm /\ ~Lossy => []StalenessIsCovered
<1>1. Init /\ Calm /\ ~Lossy => TypeInv /\ CalmInv /\ CoverInv
  BY InitTypeInv, InitCalm, InitCovers
<1>2. TypeInv /\ CalmInv /\ CoverInv /\ [Next]_vars => (TypeInv /\ CalmInv /\ CoverInv)'
  BY NextTypeInv, NextCalm, NextCovers
<1>3. TypeInv /\ CalmInv /\ CoverInv => StalenessIsCovered
  BY CoverCovers
<1> QED
  BY <1>1, <1>2, <1>3, PTL DEF Spec
=============================================================================
