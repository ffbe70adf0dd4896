---------------------------- MODULE PathsProofs -----------------------------
(***************************************************************************)
(* Theorems about paths of every length, over every set of names, and for  *)
(* every watched directory: the parts of the program agree on what is      *)
(* inside it and on the directory of a change.                             *)
(***************************************************************************)
EXTENDS Paths, SequenceInduction

(***************************************************************************)
(* Cleaning (Clean).                                                       *)
(***************************************************************************)
Cleans(f, z, p) ==
    f = [i \in 0 .. Len(p) |-> IF i = 0 THEN z ELSE Resolve(f[i - 1], p[i])]

\* Its equation, for the start and for each segment.
LEMMA CleanSegments ==
    ASSUME NEW p, NEW z, NEW f, Len(p) \in Nat, Cleans(f, z, p)
    PROVE  /\ DOMAIN f = 0 .. Len(p) /\ f[0] = z
           /\ \A i \in 1 .. Len(p) : f[i] = Resolve(f[i - 1], p[i])
<1> DEFINE n == Len(p)
           h == [i \in 0 .. n |-> IF i = 0 THEN z ELSE Resolve(f[i - 1], p[i])]
<1>1. f = h
  BY DEF Cleans
<1> HIDE DEF n
<1>2. n \in Nat
  BY DEF n
<1>3. DOMAIN h = 0 .. n /\ h[0] = z
  BY <1>2
<1>4. ASSUME NEW i \in 1 .. n PROVE h[i] = Resolve(f[i - 1], p[i])
  <2>1. i \in 0 .. n /\ i # 0
    BY <1>2
  <2> QED
    BY <2>1
<1> QED
  BY <1>1, <1>3, <1>4 DEF n

\* Whatever satisfies the equations cleans.
LEMMA SegmentsClean ==
    ASSUME NEW X, NEW p, NEW z, Len(p) \in Nat, NEW f \in [0 .. Len(p) -> X], f[0] = z,
           \A i \in 1 .. Len(p) : f[i] = Resolve(f[i - 1], p[i])
    PROVE  Cleans(f, z, p)
<1> DEFINE n == Len(p)
           h == [i \in 0 .. n |-> IF i = 0 THEN z ELSE Resolve(f[i - 1], p[i])]
<1> HIDE DEF n
<1>1. ASSUME NEW i \in 0 .. n PROVE h[i] = f[i]
  <2>1. CASE i = 0
    BY <2>1
  <2>2. CASE i # 0
    <3>1. i \in 1 .. n
      BY <2>2 DEF n
    <3>2. h[i] = Resolve(f[i - 1], p[i])
      BY <2>2
    <3> QED
      BY <3>1, <3>2 DEF n
  <2> QED
    BY <2>1, <2>2
<1>2. DOMAIN h = 0 .. n
  OBVIOUS
<1> HIDE DEF h
<1>3. f = [i \in 0 .. n |-> f[i]] /\ h = [i \in 0 .. n |-> h[i]]
  BY DEF n, h
<1>4. f = h
  BY <1>1, <1>3
<1> QED
  BY <1>4 DEF Cleans, h, n

\* A clean path stays clean.
LEMMA ResolveType ==
    ASSUME NEW q \in Seq(Name), NEW s \in Seg
    PROVE  Resolve(q, s) \in Seq(Name)
<1>1. CASE s \in {"", "."}
  BY <1>1 DEF Resolve
<1>2. CASE s = ".."
  <2>1. CASE q = <<>>
    BY <1>2, <2>1 DEF Resolve
  <2>2. CASE q # <<>>
    <3>1. Front(q) \in Seq(Name)
      <4>1. Len(q) \in Nat /\ \A i \in 1 .. Len(q) - 1 : q[i] \in Name
        BY LenProperties, ElementOfSeq
      <4> QED
        BY <4>1, SubSeqProperties DEF Front
    <3>2. Resolve(q, s) = Front(q)
      BY <1>2, <2>2 DEF Resolve
    <3> QED
      BY <3>1, <3>2
  <2> QED
    BY <2>1, <2>2
<1>3. CASE s \notin {"", ".", ".."}
  <2>1. s \in Name
    BY <1>3 DEF Name
  <2>2. Resolve(q, s) = Append(q, s)
    BY <1>3 DEF Resolve
  <2> QED
    BY <2>1, <2>2, AppendProperties
<1> QED
  BY <1>1, <1>2, <1>3

(***************************************************************************)
(* Cleaning goes on from where the shorter path has led.                   *)
(***************************************************************************)
LEMMA CleanAppend ==
    /\ Clean(<<>>) = <<>>
    /\ \A p \in Seq(Seg) : Clean(p) \in Seq(Name)
    /\ \A p \in Seq(Seg), s \in Seg : Clean(Append(p, s)) = Resolve(Clean(p), s)
<1> DEFINE X == Seq(Name)
           z == <<>>
           step == [w \in X \X Seg |-> Resolve(w[1], w[2])]
<1>1. z \in X /\ z \in Seq(Seg)
  BY EmptySeq
<1>2. \A q \in X, s \in Seg : Resolve(q, s) \in X
  BY ResolveType
<1>3. ASSUME NEW p PROVE Clean(p) = (CHOOSE f : Cleans(f, z, p))[Len(p)]
  BY Zenon DEF Clean, Cleans
<1> HIDE DEF X, z
<1>4. IsStep(step, z, X, Seg)
  BY <1>1, <1>2 DEF IsStep
<1>5. \A q \in X, s \in Seg : step[<<q, s>>] = Resolve(q, s)
  OBVIOUS
<1> HIDE DEF step
<1>6. ASSUME NEW p \in Seq(Seg) PROVE Clean(p) = Folded(step, z, p)
  <2> DEFINE n == Len(p)
             g == CHOOSE f : Cleans(f, z, p)
  <2>1. n \in Nat /\ \A i \in 1 .. n : p[i] \in Seg
    BY LenProperties, ElementOfSeq
  <2>2. PICK f \in [0 .. n -> X] : IsFold(f, step, z, p)
    BY <1>1, <1>4, FoldExists
  <2>3. ASSUME NEW i \in 1 .. n
        PROVE  f[i] = Resolve(f[i - 1], p[i])
    <3>1. f[i - 1] \in X /\ p[i] \in Seg
      BY <2>1, <2>2
    <3>2. f[i] = step[<<f[i - 1], p[i]>>]
      BY <2>2 DEF IsFold
    <3> QED
      BY <1>5, <3>1, <3>2
  <2>4. Cleans(f, z, p)
    BY <2>1, <2>2, <2>3, SegmentsClean DEF IsFold
  <2>5. Cleans(g, z, p)
    BY <2>4, Zenon
  <2> HIDE DEF g, n
  <2>6. g[0] = z /\ \A i \in 1 .. n : g[i] = Resolve(g[i - 1], p[i])
    BY <2>1, <2>5, CleanSegments DEF n
  <2>7. \A i \in 1 .. n : g[i - 1] \in X => g[i] = step[<<g[i - 1], p[i]>>]
    BY <1>5, <2>1, <2>6
  <2>8. Clean(p) = g[n]
    BY <1>3 DEF g, n
  <2> QED
    BY <1>1, <1>4, <2>6, <2>7, <2>8, FoldedRounds DEF n
<1>7. /\ Folded(step, z, <<>>) = z
      /\ \A p \in Seq(Seg) : Folded(step, z, p) \in X
      /\ \A p \in Seq(Seg), s \in Seg :
            Folded(step, z, Append(p, s)) = step[<<Folded(step, z, p), s>>]
  BY <1>1, <1>4, FoldedAppend
<1>8. ASSUME NEW p \in Seq(Seg), NEW s \in Seg
      PROVE  Clean(Append(p, s)) = Resolve(Clean(p), s)
  <2>1. Append(p, s) \in Seq(Seg)
    BY AppendProperties
  <2>2. Clean(Append(p, s)) = step[<<Folded(step, z, p), s>>] /\ Folded(step, z, p) \in X
    BY <1>6, <1>7, <2>1
  <2> QED
    BY <1>5, <1>6, <2>2
<1>9. Clean(z) = z
  BY <1>1, <1>6, <1>7 DEF z
<1> QED
  BY <1>6, <1>7, <1>8, <1>9 DEF X, z

\* Appending to the second of two sequences.
LEMMA AppendConcat ==
    ASSUME NEW S, NEW a \in Seq(S), NEW b \in Seq(S), NEW e \in S
    PROVE  a \o Append(b, e) = Append(a \o b, e)
<1>1. Append(b, e) = b \o <<e>>
  BY AppendIsConcat
<1>2. a \o b \in Seq(S) /\ Append(a \o b, e) = (a \o b) \o <<e>>
  BY ConcatProperties, AppendIsConcat
<1>3. <<e>> \in Seq(S)
  OBVIOUS
<1> QED
  BY <1>1, <1>2, <1>3, ConcatAssociative

\* The steps of cleaning, for one path and one segment.
LEMMA CleanSteps ==
    /\ Clean(<<>>) = <<>>
    /\ \A p \in Seq(Seg), s \in Name :
          Append(p, s) \in Seq(Seg) /\ Clean(Append(p, s)) = Append(Clean(p), s)
    /\ Seq(Name) \subseteq Seq(Seg)
<1>1. Name \subseteq Seg
  BY DEF Name
<1>2. Seq(Name) \subseteq Seq(Seg)
  BY <1>1, SeqMonotonic
<1>3. ASSUME NEW p \in Seq(Seg), NEW s \in Name
      PROVE  Append(p, s) \in Seq(Seg) /\ Clean(Append(p, s)) = Append(Clean(p), s)
  <2>1. s \in Seg /\ s \notin {"", ".", ".."}
    BY DEF Name
  <2>2. Append(p, s) \in Seq(Seg)
    BY <2>1, AppendProperties
  <2>3. Clean(Append(p, s)) = Resolve(Clean(p), s)
    BY <2>1, CleanAppend
  <2>4. Resolve(Clean(p), s) = Append(Clean(p), s)
    BY <2>1 DEF Resolve
  <2> QED
    BY <2>2, <2>3, <2>4
<1> QED
  BY <1>2, <1>3, CleanAppend

(***************************************************************************)
(* What is clean is kept, wherever it is put.                              *)
(***************************************************************************)
LEMMA CleanTail ==
    ASSUME NEW p \in Seq(Seg), NEW q \in Seq(Name)
    PROVE  Clean(p \o q) = Clean(p) \o q
<1> DEFINE T == {r \in Seq(Name) : Clean(p \o r) = Clean(p) \o r}
           nil == <<>>
<1>0. Clean(p) \in Seq(Name) /\ Seq(Name) \subseteq Seq(Seg)
  BY CleanAppend, CleanSteps
<1>1. nil \in Seq(Name) /\ p \o nil = p /\ Clean(p) \o nil = Clean(p)
  BY <1>0, EmptySeq, ConcatEmptySeq
<1> HIDE DEF nil
<1>2. nil \in T
  BY <1>1
<1>3. ASSUME NEW r \in Seq(Name), NEW s \in Name, r \in T PROVE Append(r, s) \in T
  <2>1. Append(r, s) \in Seq(Name)
    BY AppendProperties
  <2>2. p \o r \in Seq(Seg) /\ r \in Seq(Seg) /\ s \in Seg
    BY <1>0, ConcatProperties DEF Name
  <2>3. p \o Append(r, s) = Append(p \o r, s)
    BY <2>2, AppendConcat
  <2>4. Clean(p) \o Append(r, s) = Append(Clean(p) \o r, s)
    BY <1>0, AppendConcat
  <2>5. Clean(Append(p \o r, s)) = Append(Clean(p \o r), s)
    BY <2>2, CleanSteps
  <2>6. Clean(p \o r) = Clean(p) \o r
    BY <1>3
  <2> QED
    BY <2>1, <2>3, <2>4, <2>5, <2>6
<1>4. Seq(Name) \subseteq T
  <2> HIDE DEF T
  <2> QED
    BY <1>2, <1>3, SeqInduction DEF nil
<1> QED
  BY <1>4

\* Cleaning a clean path changes nothing.
LEMMA CleanClean ==
    ASSUME NEW q \in Seq(Name)
    PROVE  Clean(q) = q
<1> DEFINE nil == <<>>
<1>1. nil \in Seq(Seg) /\ Clean(nil) = nil /\ nil \o q = q
  BY EmptySeq, CleanSteps, ConcatEmptySeq
<1> HIDE DEF nil
<1>2. Clean(nil \o q) = Clean(nil) \o q
  BY <1>1, CleanTail
<1> QED
  BY <1>1, <1>2
-----------------------------------------------------------------------------
(***************************************************************************)
(* What lies below a directory.                                            *)
(***************************************************************************)

\* A path below d is d and what comes after it.
LEMMA Below ==
    ASSUME NEW d \in Seq(Name), NEW p \in Seq(Name), IsPrefix(d, p)
    PROVE  /\ After(p, d) \in Seq(Name) /\ p = d \o After(p, d)
           /\ Len(After(p, d)) = Len(p) - Len(d)
           /\ d # p => After(p, d) # <<>> /\ Len(p) > Len(d)
<1> DEFINE m == Len(d)
           n == Len(p)
           r == SubSeq(p, m + 1, n)
           front == SubSeq(p, 1, m)
<1>1. /\ m \in Nat /\ n \in Nat /\ m <= n
      /\ \A i \in 1 .. n : p[i] \in Name
      /\ \A i \in 1 .. m : d[i] \in Name
  BY LenProperties, ElementOfSeq DEF IsPrefix
<1>2. front = d
  BY SubSeqFull DEF IsPrefix
<1>3. \A i \in m + 1 .. n : p[i] \in Name
  BY <1>1
<1>4. m + 1 \in Int /\ n \in Int
  BY <1>1
<1>5. r \in Seq(Name) /\ Len(r) = IF m + 1 <= n THEN n - (m + 1) + 1 ELSE 0
  <2> HIDE DEF m, n
  <2> QED
    BY <1>3, <1>4, SubSeqProperties
<1>6. front \o r = p
  <2>1. 1 \in 1 .. n + 1 /\ m \in 1 - 1 .. n /\ n \in m .. n
    BY <1>1
  <2>2. front \o r = SubSeq(p, 1, n)
    BY <2>1, ConcatAdjacentSubSeq
  <2> QED
    BY <2>2, SubSeqFull
<1> HIDE DEF r, front
<1>7. Len(r) = n - m
  BY <1>1, <1>5
<1>8. After(p, d) = r
  BY DEF After, r
<1>9. ASSUME d # p PROVE r # <<>> /\ n > m
  <2>1. r # <<>>
    BY <1>2, <1>6, <1>9, ConcatEmptySeq
  <2>2. Len(r) # 0
    BY <1>5, <2>1, EmptySeq
  <2> QED
    BY <1>1, <1>7, <2>1, <2>2
<1> QED
  BY <1>2, <1>5, <1>6, <1>7, <1>8, <1>9

\* d and what comes after it is a path below d.
LEMMA BelowBack ==
    ASSUME NEW d \in Seq(Name), NEW q \in Seq(Name)
    PROVE  /\ d \o q \in Seq(Name) /\ IsPrefix(d, d \o q)
           /\ After(d \o q, d) = q
           /\ q = <<>> <=> d \o q = d
<1> DEFINE p == d \o q
           m == Len(d)
           n == Len(q)
<1>1. /\ m \in Nat /\ n \in Nat
      /\ p \in Seq(Name) /\ Len(p) = m + n
      /\ \A i \in 1 .. m + n : p[i] = IF i <= m THEN d[i] ELSE q[i - m]
      /\ \A i \in 1 .. m : d[i] \in Name
      /\ \A i \in 1 .. n : q[i] \in Name
  BY LenProperties, ElementOfSeq, ConcatProperties
<1>2. q = <<>> <=> p = d
  BY ConcatEqualIffEmpty
<1> HIDE DEF p
<1>3. SubSeq(p, 1, m) = d
  <2> DEFINE f == SubSeq(p, 1, m)
  <2>1. \A i \in 1 .. m : p[i] \in Name
    BY <1>1
  <2>2. f \in Seq(Name) /\ Len(f) = m /\ \A i \in 1 .. m : f[i] = p[i]
    <3>1. /\ f \in Seq(Name) /\ Len(f) = IF 1 <= m THEN m - 1 + 1 ELSE 0
          /\ \A i \in 1 .. m - 1 + 1 : f[i] = p[1 + i - 1]
      <4> HIDE DEF m
      <4> QED
        BY <1>1, <2>1, SubSeqProperties
    <3> HIDE DEF f
    <3> QED
      BY <1>1, <3>1
  <2> HIDE DEF f
  <2>3. \A i \in 1 .. m : f[i] = d[i]
    BY <1>1, <2>2
  <2>4. f = d
    BY <2>2, <2>3, SeqEqual
  <2> QED
    BY <2>4 DEF f
<1>4. IsPrefix(d, p)
  <2>1. SubSeq(d, 1, m) = d
    BY SubSeqFull
  <2> QED
    BY <1>1, <1>3, <2>1 DEF IsPrefix
<1>5. After(p, d) = q
  <2>1. p = d \o After(p, d) /\ After(p, d) \in Seq(Name)
    BY <1>1, <1>4, Below
  <2>2. d \o q = d \o After(p, d)
    BY <2>1 DEF p
  <2>3. \A a, b, c \in Seq(Name) : a \o b = a \o c => b = c
    BY ConcatSimplifications
  <2> HIDE DEF m, n
  <2> QED
    BY <2>1, <2>2, <2>3
<1> QED
  BY <1>1, <1>2, <1>4, <1>5 DEF p

\* The last name of the longer path is dropped.
LEMMA FrontBelow ==
    ASSUME NEW d \in Seq(Name), NEW q \in Seq(Name), q # <<>>
    PROVE  Front(q) \in Seq(Name) /\ Front(d \o q) = d \o Front(q)
<1>1. PICK r \in Seq(Name), s \in Name : q = Append(r, s)
  BY SequenceEmptyOrAppend
<1>2. ASSUME NEW t \in Seq(Name) PROVE Front(Append(t, s)) = t
  <2> DEFINE a == Append(t, s)
             n == Len(t)
             f == SubSeq(a, 1, n)
  <2>1. n \in Nat /\ Len(a) = n + 1 /\ \A i \in 1 .. n : a[i] = t[i] /\ t[i] \in Name
    BY LenProperties, ElementOfSeq, AppendProperties
  <2>2. Len(a) - 1 = n
    BY <2>1
  <2>3. Front(a) = f
    BY <2>2 DEF Front
  <2> HIDE DEF a
  <2>4. /\ f \in Seq(Name) /\ Len(f) = IF 1 <= n THEN n - 1 + 1 ELSE 0
        /\ \A i \in 1 .. n - 1 + 1 : f[i] = a[1 + i - 1]
    <3>1. \A i \in 1 .. n : a[i] \in Name
      BY <2>1
    <3> HIDE DEF n
    <3> QED
      BY <2>1, <3>1, SubSeqProperties
  <2> HIDE DEF f
  <2>5. Len(f) = n /\ \A i \in 1 .. n : f[i] = t[i]
    BY <2>1, <2>4
  <2>6. f = t
    BY <2>4, <2>5, SeqEqual
  <2> QED
    BY <2>3, <2>6 DEF a
<1>3. d \o q = Append(d \o r, s)
  BY <1>1, AppendConcat
<1>4. d \o r \in Seq(Name)
  BY ConcatProperties
<1> QED
  BY <1>1, <1>2, <1>3, <1>4
-----------------------------------------------------------------------------
(***************************************************************************)
(* The parts of the program.                                               *)
(***************************************************************************)
TypeInv == mac \in BOOLEAN /\ root \in Seq(Name) /\ raw \in Seq(Seg)

\* What is reported has the types of a build, a root and a path.
LEMMA AlwaysTypeInv == Spec => []TypeInv
<1>1. Init => TypeInv
  BY PathsAssumption, EmptySeq DEF Init, TypeInv
<1>2. TypeInv /\ [Next]_vars => TypeInv'
  BY AppendProperties DEF TypeInv, Next, vars
<1> QED
  BY <1>1, <1>2, PTL DEF Spec

\* The file the tap sees has a clean path.
LEMMA FileClean ==
    ASSUME TypeInv
    PROVE  /\ Clean(raw) \in Seq(Name) /\ File \in Seq(Name)
           /\ \A p \in Seq(Name) : normalizePath(p) \in Seq(Name)
<1>1. ASSUME NEW p \in Seq(Name) PROVE normalizePath(p) \in Seq(Name)
  <2>1. CASE mac /\ HasPrefixSlash(p, DataVolume)
    <3>1. DataVolume \in Seq(Name) /\ IsPrefix(DataVolume, p)
      BY <2>1, PathsAssumption DEF HasPrefixSlash, IsStrictPrefix
    <3>2. After(p, DataVolume) \in Seq(Name)
      BY <3>1, Below
    <3> QED
      BY <2>1, <3>2 DEF normalizePath
  <2>2. CASE ~(mac /\ HasPrefixSlash(p, DataVolume))
    BY <2>2 DEF normalizePath
  <2> QED
    BY <2>1, <2>2
<1>2. Clean(raw) \in Seq(Name)
  BY CleanAppend DEF TypeInv
<1> QED
  BY <1>1, <1>2 DEF File

\* The browser finds the place of a path below the root (relFromFull).
LEMMA RelBelow ==
    ASSUME TypeInv, root # <<>>, NEW q \in Seq(Name)
    PROVE  relFromFull(root \o q) = {q}
<1>0. root \in Seq(Name)
  BY DEF TypeInv
<1>1. /\ IsPrefix(root, root \o q) /\ After(root \o q, root) = q
      /\ q = <<>> <=> root \o q = root
  BY <1>0, BelowBack
<1>2. CASE q = <<>>
  BY <1>1, <1>2 DEF relFromFull
<1>3. CASE q # <<>>
  <2>1. root \o q # root /\ HasPrefixSlash(root \o q, root)
    BY <1>1, <1>3 DEF HasPrefixSlash, IsStrictPrefix
  <2> QED
    BY <1>1, <2>1 DEF relFromFull
<1> QED
  BY <1>2, <1>3

\* The endpoint lists the directory of a relative path (treeHandler).
LEMMA ListedBelow ==
    ASSUME TypeInv, root # <<>>, NEW q \in Seq(Name)
    PROVE  Listed(q) = {root \o q}
<1>0. root \in Seq(Name) /\ root \in Seq(Seg)
  BY CleanSteps DEF TypeInv
<1>1. ~(Len(q) > 1 /\ q[1] = "")
  <2>1. Len(q) \in Nat
    BY LenProperties
  <2>2. \A i \in 1 .. Len(q) : q[i] \in Name
    BY ElementOfSeq
  <2>3. \A s \in Name : s # ""
    BY DEF Name
  <2>4. Len(q) > 1 => q[1] \in Name
    BY <2>1, <2>2
  <2> QED
    BY <2>3, <2>4
<1>2. Clean(root \o q) = root \o q
  BY <1>0, CleanTail, CleanClean
<1>3. IsPrefix(root, root \o q)
  BY <1>0, BelowBack
<1>4. root \o q = root \/ HasPrefixSlash(root \o q, root)
  BY <1>3 DEF HasPrefixSlash, IsStrictPrefix
<1> QED
  BY <1>1, <1>2, <1>4 DEF Listed

\* A path that has a place lies below the root.
LEMMA RelOfFile ==
    ASSUME TypeInv, root # <<>>, NEW p \in Seq(Name)
    PROVE  /\ relFromFull(p) # {} <=> p = root \/ HasPrefixSlash(p, root)
           /\ relFromFull(p) # {} => \E q \in Seq(Name) : p = root \o q
<1>0. root \in Seq(Name)
  BY DEF TypeInv
<1>1. relFromFull(p) # {} <=> p = root \/ HasPrefixSlash(p, root)
  BY DEF relFromFull
<1>2. CASE p = root
  <2> DEFINE nil == <<>>
  <2>1. nil \in Seq(Name) /\ root \o nil = root
    BY <1>0, EmptySeq, ConcatEmptySeq
  <2> HIDE DEF nil
  <2> QED
    BY <1>1, <1>2, <2>1
<1>3. CASE HasPrefixSlash(p, root)
  <2>1. IsPrefix(root, p)
    BY <1>3 DEF HasPrefixSlash, IsStrictPrefix
  <2>2. After(p, root) \in Seq(Name) /\ p = root \o After(p, root)
    BY <1>0, <2>1, Below
  <2> QED
    BY <1>1, <2>2
<1> QED
  BY <1>1, <1>2, <1>3

(***************************************************************************)
(* Every part agrees on what is inside the root, for paths of any length   *)
(* and any names (tap.go:57-59, claudehook.go:59-75, tree.go:47,           *)
(* app.js:527-533).                                                        *)
(***************************************************************************)
THEOREM InsideAgrees == Spec => []SameInside
<1>1. TypeInv => SameInside
  <2> SUFFICES ASSUME TypeInv, Served PROVE SameInside
    BY DEF SameInside
  <2>0. /\ root \in Seq(Name) /\ root # <<>>
        /\ File \in Seq(Name) /\ Clean(raw) \in Seq(Name)
    BY FileClean DEF TypeInv, Served
  <2>1. TapKeeps(raw) <=> File = root \/ HasPrefixSlash(File, root)
    BY <2>0 DEF TapKeeps, pathIn, File
  <2>2. TapKeeps(raw) <=> relFromFull(File) # {}
    BY <2>0, <2>1, RelOfFile
  <2>3. ASSUME NEW rel \in relFromFull(File) PROVE Listed(rel) = {File}
    <3>1. PICK q \in Seq(Name) : File = root \o q
      BY <2>0, RelOfFile
    <3>2. rel = q
      BY <2>0, <3>1, RelBelow
    <3> QED
      BY <2>0, <3>1, <3>2, ListedBelow
  <2>4. ASSUME NEW d \in Listed(raw), d = normalizePath(d) PROVE TapKeeps(d)
    <3>1. d = Clean(root \o raw) /\ (d = root \/ HasPrefixSlash(d, root))
      BY DEF Listed
    <3>2. root \o raw \in Seq(Seg)
      BY <2>0, CleanSteps, ConcatProperties DEF TypeInv
    <3>3. Clean(d) = d
      BY <3>1, <3>2, CleanAppend, CleanClean
    <3> QED
      BY <2>4, <3>1, <3>3 DEF TapKeeps, pathIn
  <2>5. cwdInside(raw) => IsPrefix(root, Clean(raw))
    <3>1. IsPrefix(root, root)
      BY <2>0 DEF IsPrefix
    <3> QED
      BY <3>1 DEF cwdInside, IsStrictPrefix
  <2>6. ASSUME TapKeeps(raw), File = Clean(raw), ~cwdInside(raw)
        PROVE  \E s \in Seg : <<"..", s>> \in Extends /\ s = After(File, root)[1]
    <3>1. File # root /\ HasPrefixSlash(File, root)
      BY <2>1, <2>6 DEF cwdInside
    <3>2. IsStrictPrefix(root, File)
      BY <3>1 DEF HasPrefixSlash
    <3>3. <<"..", After(File, root)[1]>> \in Extends
      BY <2>6, <3>1, <3>2 DEF cwdInside
    <3>4. After(File, root)[1] \in Seg
      BY <3>3, PathsAssumption
    <3> QED
      BY <3>3, <3>4
  <2> QED
    BY <2>2, <2>3, <2>4, <2>5, <2>6 DEF SameInside
<1> QED
  BY <1>1, AlwaysTypeInv, PTL

(***************************************************************************)
(* The browser asks for the directory of a change, and the endpoint lists  *)
(* that one (server.go:125-140, app.js:97-99, 551-555, tree.go:34-50).     *)
(***************************************************************************)
THEOREM NoticeFindsDirectory == Spec => []NoticeListsDirectory
<1>1. TypeInv => NoticeListsDirectory
  <2> SUFFICES ASSUME TypeInv, Served, IsStrictPrefix(root, File) PROVE NoticeListsDirectory
    BY DEF NoticeListsDirectory
  <2> DEFINE q == After(File, root)
             dir == Front(File)
  <2>0. root \in Seq(Name) /\ root # <<>> /\ File \in Seq(Name)
    BY FileClean DEF TypeInv, Served
  <2>1. q \in Seq(Name) /\ File = root \o q /\ q # <<>> /\ Len(File) > Len(root)
    BY <2>0, Below DEF IsStrictPrefix
  <2> HIDE DEF q
  <2>2. Front(q) \in Seq(Name) /\ dir = root \o Front(q)
    BY <2>0, <2>1, FrontBelow
  <2>3. Len(root) \in Nat /\ Len(root) # 0 /\ Len(File) \in Nat
    BY <2>0, EmptySeq, LenProperties
  <2>4. parentDir(File) = dir
    BY <2>1, <2>3 DEF parentDir
  <2>5. relFromFull(parentDir(File)) = {Front(q)}
    BY <2>0, <2>2, <2>4, RelBelow
  <2>6. relFromFull(File) = {q} /\ parentRel(q) = Front(q)
    BY <2>0, <2>1, RelBelow DEF parentRel
  <2>7. Listed(Front(q)) = {dir}
    BY <2>0, <2>2, ListedBelow
  <2> HIDE DEF dir
  <2>8. {Listed(rel) : rel \in relFromFull(parentDir(File))} = {{dir}}
    BY <2>5, <2>7
  <2>9. {Listed(parentRel(rel)) : rel \in relFromFull(File)} = {{dir}}
    BY <2>6, <2>7
  <2> QED
    BY <2>8, <2>9 DEF NoticeListsDirectory, dir
<1> QED
  BY <1>1, AlwaysTypeInv, PTL
=============================================================================
