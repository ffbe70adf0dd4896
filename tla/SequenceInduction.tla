-------------------------- MODULE SequenceInduction -------------------------
(***************************************************************************)
(* Induction over numbers and sequences, and functions defined by          *)
(* recursion over a sequence, for what is given as a set.  The theorems of *)
(* the library take operators, which the provers here cannot instantiate;  *)
(* that there is no least counterexample (WFMin) says the same of sets.    *)
(***************************************************************************)
EXTENDS Integers, Functions, Selection, SequenceTheorems, WellFoundedInduction, TLAPS

\* A set that holds 0 and with each number the next holds all numbers.
LEMMA SetInduction ==
    ASSUME NEW T, 0 \in T, \A n \in Nat : n \in T => n + 1 \in T
    PROVE  Nat \subseteq T
<1> SUFFICES ASSUME Nat \ T # {} PROVE FALSE
  OBVIOUS
<1> DEFINE R == OpToRel(<, Nat)
           Bad == Nat \ T
<1>1. IsWellFoundedOn(R, Nat)
  BY NatLessThanWellFounded
<1>2. Bad \subseteq Nat /\ Bad # {}
  OBVIOUS
<1>3. \A x, y \in Nat : y < x => <<y, x>> \in R
  BY DEF OpToRel
<1> HIDE DEF R
<1>4. PICK x \in Bad : \A y \in Bad : ~(<<y, x>> \in R)
  <2> HIDE DEF Bad
  <2> QED
    BY <1>1, <1>2, WFMin
<1>5. x \in Nat /\ x # 0
  OBVIOUS
<1>6. x - 1 \in Nat /\ x - 1 < x /\ (x - 1) + 1 = x
  BY <1>5
<1>7. x - 1 \in T
  BY <1>3, <1>4, <1>5, <1>6
<1> QED
  BY <1>5, <1>6, <1>7

\* A sequence that is not empty is its last element appended to the rest.
LEMMA LastApart ==
    ASSUME NEW S, NEW s \in Seq(S), NEW n \in Nat, Len(s) = n + 1
    PROVE  \E r \in Seq(S), e \in S : s = Append(r, e) /\ Len(r) = n
<1> DEFINE r == SubSeq(s, 1, n)
           e == s[n + 1]
<1>1. \A i \in 1 .. n + 1 : s[i] \in S
  BY ElementOfSeq
<1>2. e \in S
  BY <1>1
<1>3. r \in Seq(S) /\ Len(r) = n /\ \A i \in 1 .. n : r[i] = s[i]
  <2>1. \A i \in 1 .. n : s[i] \in S
    BY <1>1
  <2>2. /\ r \in Seq(S) /\ Len(r) = IF 1 <= n THEN n - 1 + 1 ELSE 0
        /\ \A i \in 1 .. n - 1 + 1 : r[i] = s[1 + i - 1]
    BY <2>1, SubSeqProperties
  <2> HIDE DEF r
  <2>3. n - 1 + 1 = n /\ \A i \in 1 .. n : 1 + i - 1 = i
    OBVIOUS
  <2> QED
    BY <2>2, <2>3
<1> HIDE DEF r, e
<1>4. /\ Append(r, e) \in Seq(S) /\ Len(Append(r, e)) = n + 1
      /\ \A i \in 1 .. n : Append(r, e)[i] = r[i]
      /\ Append(r, e)[n + 1] = e
  BY <1>2, <1>3, AppendProperties
<1>5. \A i \in 1 .. Len(s) : s[i] = Append(r, e)[i]
  <2> TAKE i \in 1 .. Len(s)
  <2>1. i \in 1 .. n \/ i = n + 1
    OBVIOUS
  <2> QED
    BY <1>3, <1>4, <2>1 DEF e
<1>6. s = Append(r, e)
  BY <1>4, <1>5, SeqEqual
<1> QED
  BY <1>2, <1>3, <1>6

\* A set that holds the empty sequence and what comes of appending holds all.
LEMMA SeqInduction ==
    ASSUME NEW S, NEW T, <<>> \in T,
           \A s \in Seq(S), e \in S : s \in T => Append(s, e) \in T
    PROVE  Seq(S) \subseteq T
<1> DEFINE N == {n \in Nat : \A s \in Seq(S) : Len(s) = n => s \in T}
<1>1. 0 \in N
  BY EmptySeq
<1>2. ASSUME NEW n \in Nat, n \in N PROVE n + 1 \in N
  <2> SUFFICES ASSUME NEW s \in Seq(S), Len(s) = n + 1 PROVE s \in T
    OBVIOUS
  <2>1. PICK r \in Seq(S), e \in S : s = Append(r, e) /\ Len(r) = n
    BY LastApart
  <2> QED
    BY <1>2, <2>1
<1>3. Nat \subseteq N
  <2> HIDE DEF N
  <2> QED
    BY <1>1, <1>2, SetInduction
<1> QED
  BY <1>3, LenProperties
-----------------------------------------------------------------------------
(***************************************************************************)
(* A loop over elements of S: its variable, at first x, is of type X.      *)
(***************************************************************************)
IsStep(step, x, X, S) == x \in X /\ step \in [X \X S -> X]

(***************************************************************************)
(* f holds what a loop over s, from x on, has made of the first elements.  *)
(***************************************************************************)
IsFold(f, step, x, s) ==
    /\ DOMAIN f = 0 .. Len(s) /\ f[0] = x
    /\ \A i \in 1 .. Len(s) : f[i] = step[<<f[i - 1], s[i]>>]

\* There is such an f, whose values are of the type of the loop's variable.
LEMMA FoldExists ==
    ASSUME NEW X, NEW S, NEW x, NEW step, IsStep(step, x, X, S), NEW s \in Seq(S)
    PROVE  \E f \in [0 .. Len(s) -> X] : IsFold(f, step, x, s)
<1> DEFINE T == {r \in Seq(S) : \E f \in [0 .. Len(r) -> X] : IsFold(f, step, x, r)}
<1>1. <<>> \in T
  <2> DEFINE f == [i \in 0 .. 0 |-> x]
  <2>1. f \in [0 .. 0 -> X] /\ DOMAIN f = 0 .. 0 /\ f[0] = x
    BY DEF IsStep
  <2> HIDE DEF f
  <2>2. Len(<<>>) = 0 /\ <<>> \in Seq(S)
    BY EmptySeq
  <2>3. IsFold(f, step, x, <<>>)
    BY <2>1, <2>2 DEF IsFold
  <2> QED
    BY <2>1, <2>2, <2>3
<1>2. ASSUME NEW r \in Seq(S), NEW e \in S, r \in T PROVE Append(r, e) \in T
  <2> DEFINE t == Append(r, e)
             n == Len(r)
  <2>1. PICK f \in [0 .. n -> X] : IsFold(f, step, x, r)
    BY <1>2
  <2>2. /\ t \in Seq(S) /\ Len(t) = n + 1 /\ n \in Nat
        /\ \A i \in 1 .. n : t[i] = r[i]
        /\ t[n + 1] = e
    BY LenProperties, AppendProperties
  <2> HIDE DEF t, n
  <2> DEFINE g == [i \in 0 .. n + 1 |-> IF i <= n THEN f[i] ELSE step[<<f[n], e>>]]
  <2>3. DOMAIN g = 0 .. n + 1 /\ (\A i \in 0 .. n : g[i] = f[i]) /\ g[n + 1] = step[<<f[n], e>>]
    BY <2>2
  <2>4. f[n] \in X /\ step[<<f[n], e>>] \in X /\ \A i \in 0 .. n : f[i] \in X
    <3>1. f[n] \in X /\ \A i \in 0 .. n : f[i] \in X
      BY <2>1, <2>2
    <3>2. <<f[n], e>> \in X \X S
      BY <3>1
    <3> QED
      BY <3>1, <3>2 DEF IsStep
  <2>5. g \in [0 .. n + 1 -> X]
    BY <2>2, <2>4
  <2> HIDE DEF g
  <2>6. g[0] = x
    BY <2>1, <2>2, <2>3 DEF IsFold
  <2>7. ASSUME NEW i \in 1 .. n + 1 PROVE g[i] = step[<<g[i - 1], t[i]>>]
    <3>1. CASE i = n + 1
      <4>1. i - 1 = n /\ n \in 0 .. n
        BY <2>2, <3>1
      <4> QED
        BY <2>2, <2>3, <3>1, <4>1
    <3>2. CASE i \in 1 .. n
      <4>1. i \in 0 .. n /\ i - 1 \in 0 .. n
        BY <2>2, <3>2
      <4>2. f[i] = step[<<f[i - 1], r[i]>>]
        BY <2>1, <3>2 DEF IsFold, n
      <4> QED
        BY <2>2, <2>3, <3>2, <4>1, <4>2
    <3> QED
      BY <2>2, <3>1, <3>2
  <2>8. IsFold(g, step, x, t)
    BY <2>2, <2>3, <2>6, <2>7 DEF IsFold
  <2> QED
    BY <2>2, <2>5, <2>8 DEF t
<1>3. Seq(S) \subseteq T
  <2> HIDE DEF T
  <2> QED
    BY <1>1, <1>2, SeqInduction
<1> QED
  BY <1>3

\* Two such functions agree on as many elements as the sequences do.
LEMMA FoldUnique ==
    ASSUME NEW step, NEW x, NEW s, NEW t, NEW f, NEW g, NEW n \in Nat,
           Len(s) \in Nat, Len(t) \in Nat, n <= Len(s), n <= Len(t),
           \A i \in 1 .. n : s[i] = t[i],
           IsFold(f, step, x, s), IsFold(g, step, x, t)
    PROVE  \A i \in 0 .. n : f[i] = g[i]
<1> DEFINE T == {i \in Nat : i <= n => f[i] = g[i]}
<1>1. 0 \in T
  BY DEF IsFold
<1>2. ASSUME NEW i \in Nat, i \in T PROVE i + 1 \in T
  <2> SUFFICES ASSUME i + 1 <= n PROVE f[i + 1] = g[i + 1]
    OBVIOUS
  <2>1. i <= n /\ i + 1 \in 1 .. n /\ i + 1 \in 1 .. Len(s) /\ i + 1 \in 1 .. Len(t)
        /\ (i + 1) - 1 = i
    OBVIOUS
  <2>2. f[i] = g[i] /\ s[i + 1] = t[i + 1]
    BY <1>2, <2>1
  <2>3. f[i + 1] = step[<<f[i], s[i + 1]>>] /\ g[i + 1] = step[<<g[i], t[i + 1]>>]
    BY <2>1 DEF IsFold
  <2> QED
    BY <2>2, <2>3
<1>3. Nat \subseteq T
  <2> HIDE DEF T
  <2> QED
    BY <1>1, <1>2, SetInduction
<1> QED
  BY <1>3

(***************************************************************************)
(* What the loop makes of s.                                               *)
(***************************************************************************)
Folded(step, x, s) == (CHOOSE f : IsFold(f, step, x, s))[Len(s)]

LEMMA FoldedIs ==
    ASSUME NEW X, NEW S, NEW x, NEW step, IsStep(step, x, X, S), NEW s \in Seq(S),
           NEW f, IsFold(f, step, x, s)
    PROVE  Folded(step, x, s) = f[Len(s)] /\ Folded(step, x, s) \in X
<1> DEFINE g == CHOOSE h : IsFold(h, step, x, s)
<1>1. IsFold(g, step, x, s)
  BY Zenon
<1>2. PICK h \in [0 .. Len(s) -> X] : IsFold(h, step, x, s)
  BY FoldExists
<1>3. Len(s) \in Nat /\ Len(s) <= Len(s) /\ Len(s) \in 0 .. Len(s)
  BY LenProperties
<1> HIDE DEF g
<1>4. g[Len(s)] = f[Len(s)]
  BY <1>1, <1>3, FoldUnique
<1>5. g[Len(s)] = h[Len(s)]
  BY <1>1, <1>2, <1>3, FoldUnique
<1>6. Folded(step, x, s) = g[Len(s)]
  BY DEF Folded, g
<1> QED
  BY <1>2, <1>3, <1>4, <1>5, <1>6

\* A function that takes the loop's steps gives what the loop makes.
LEMMA FoldedRounds ==
    ASSUME NEW X, NEW S, NEW x, NEW step, IsStep(step, x, X, S), NEW s \in Seq(S),
           NEW g, g[0] = x,
           \A i \in 1 .. Len(s) : g[i - 1] \in X => g[i] = step[<<g[i - 1], s[i]>>]
    PROVE  Folded(step, x, s) = g[Len(s)]
<1> DEFINE n == Len(s)
<1>1. PICK f \in [0 .. n -> X] : IsFold(f, step, x, s)
  BY FoldExists
<1>2. n \in Nat
  BY LenProperties
<1>3. f[0] = x /\ \A i \in 1 .. n : f[i] = step[<<f[i - 1], s[i]>>]
  BY <1>1 DEF IsFold
<1> DEFINE N == {i \in Nat : i <= n => g[i] = f[i]}
<1>4. 0 \in N
  BY <1>3
<1>5. ASSUME NEW i \in Nat, i \in N PROVE i + 1 \in N
  <2> SUFFICES ASSUME i + 1 <= n PROVE g[i + 1] = f[i + 1]
    OBVIOUS
  <2>1. i <= n /\ i \in 0 .. n /\ i + 1 \in 1 .. n /\ (i + 1) - 1 = i
    BY <1>2
  <2>2. g[i] = f[i] /\ f[i] \in X
    BY <1>1, <1>5, <2>1
  <2> QED
    BY <1>3, <2>1, <2>2
<1>6. Nat \subseteq N
  <2> HIDE DEF N
  <2> QED
    BY <1>4, <1>5, SetInduction
<1>7. g[n] = f[n]
  BY <1>2, <1>6
<1> QED
  BY <1>1, <1>7, FoldedIs

\* Nothing is made of no elements, and the last element is the last to count.
LEMMA FoldedAppend ==
    ASSUME NEW X, NEW S, NEW x, NEW step, IsStep(step, x, X, S)
    PROVE  /\ Folded(step, x, <<>>) = x
           /\ \A s \in Seq(S) : Folded(step, x, s) \in X
           /\ \A s \in Seq(S), e \in S :
                 Folded(step, x, Append(s, e)) = step[<<Folded(step, x, s), e>>]
<1>0. ASSUME NEW s \in Seq(S)
      PROVE  /\ \E f : IsFold(f, step, x, s) /\ Folded(step, x, s) = f[Len(s)]
             /\ Folded(step, x, s) \in X
  <2>1. PICK f \in [0 .. Len(s) -> X] : IsFold(f, step, x, s)
    BY FoldExists
  <2>2. Folded(step, x, s) = f[Len(s)] /\ Folded(step, x, s) \in X
    BY <2>1, FoldedIs
  <2> QED
    BY <2>1, <2>2
<1>1. Folded(step, x, <<>>) = x
  <2>1. <<>> \in Seq(S) /\ Len(<<>>) = 0
    BY EmptySeq
  <2> DEFINE z == <<>>
  <2> HIDE DEF z
  <2>2. PICK f : IsFold(f, step, x, z) /\ Folded(step, x, z) = f[Len(z)]
    BY <1>0, <2>1 DEF z
  <2> QED
    BY <2>1, <2>2 DEF z, IsFold
<1>2. ASSUME NEW s \in Seq(S), NEW e \in S
      PROVE  /\ Folded(step, x, s) \in X
             /\ Folded(step, x, Append(s, e)) = step[<<Folded(step, x, s), e>>]
  <2> DEFINE t == Append(s, e)
             n == Len(s)
  <2>1. /\ t \in Seq(S) /\ Len(t) = n + 1 /\ n \in Nat
        /\ \A i \in 1 .. n : t[i] = s[i]
        /\ t[n + 1] = e
    BY LenProperties, AppendProperties
  <2> HIDE DEF t
  <2>2. PICK f : IsFold(f, step, x, s) /\ Folded(step, x, s) = f[Len(s)]
    BY <1>0
  <2>3. PICK g : IsFold(g, step, x, t) /\ Folded(step, x, t) = g[Len(t)]
    BY <1>0, <2>1
  <2>4. Folded(step, x, s) = f[n] /\ Folded(step, x, s) \in X
    BY <1>0, <2>2
  <2>5. Folded(step, x, t) = g[n + 1]
    BY <2>1, <2>3
  <2>6. n <= Len(s) /\ n <= Len(t) /\ n \in 0 .. n /\ n + 1 \in 1 .. Len(t) /\ (n + 1) - 1 = n
    BY <2>1
  <2>7. g[n] = f[n]
    <3>1. \A i \in 0 .. n : f[i] = g[i]
      <4>1. IsFold(f, step, x, s) /\ IsFold(g, step, x, t)
        BY <2>2, <2>3
      <4>2. n \in Nat /\ Len(s) \in Nat /\ Len(t) \in Nat /\ \A i \in 1 .. n : s[i] = t[i]
        BY <2>1
      <4> HIDE DEF n
      <4> QED
        BY <2>6, <4>1, <4>2, FoldUnique
    <3> QED
      BY <2>6, <3>1
  <2>8. g[n + 1] = step[<<g[n], e>>]
    BY <2>1, <2>3, <2>6 DEF IsFold
  <2> QED
    BY <2>4, <2>5, <2>7, <2>8 DEF t
<1> QED
  BY <1>0, <1>1, <1>2
-----------------------------------------------------------------------------
(***************************************************************************)
(* The loop that keeps the elements of a set (Only), from z on.            *)
(***************************************************************************)
Loops(f, z, s, T) ==
    f = [i \in 0 .. Len(s) |->
           IF i = 0 THEN z
           ELSE IF s[i] \in T THEN Append(f[i - 1], s[i]) ELSE f[i - 1]]

\* Its equation, for the start and for each round.
LEMMA LoopRounds ==
    ASSUME NEW s, NEW T, NEW z, NEW f, Len(s) \in Nat, Loops(f, z, s, T)
    PROVE  /\ DOMAIN f = 0 .. Len(s) /\ f[0] = z
           /\ \A i \in 1 .. Len(s) :
                 f[i] = IF s[i] \in T THEN Append(f[i - 1], s[i]) ELSE f[i - 1]
<1> DEFINE n == Len(s)
           h == [i \in 0 .. n |-> IF i = 0 THEN z
                                  ELSE IF s[i] \in T THEN Append(f[i - 1], s[i]) ELSE f[i - 1]]
<1>1. f = h
  BY DEF Loops
<1> HIDE DEF n
<1>2. n \in Nat
  BY DEF n
<1>3. DOMAIN h = 0 .. n /\ h[0] = z
  BY <1>2
<1>4. ASSUME NEW i \in 1 .. n
      PROVE  h[i] = IF s[i] \in T THEN Append(f[i - 1], s[i]) ELSE f[i - 1]
  <2>1. i \in 0 .. n /\ i # 0
    BY <1>2
  <2> QED
    BY <2>1
<1> QED
  BY <1>1, <1>3, <1>4 DEF n

\* Whatever satisfies the equations gives the loop's result.
LEMMA RoundsLoop ==
    ASSUME NEW X, NEW s, NEW T, NEW z, Len(s) \in Nat, NEW f \in [0 .. Len(s) -> X], f[0] = z,
           \A i \in 1 .. Len(s) :
              f[i] = IF s[i] \in T THEN Append(f[i - 1], s[i]) ELSE f[i - 1]
    PROVE  Loops(f, z, s, T)
<1> DEFINE n == Len(s)
           h == [i \in 0 .. n |-> IF i = 0 THEN z
                                  ELSE IF s[i] \in T THEN Append(f[i - 1], s[i]) ELSE f[i - 1]]
<1> HIDE DEF n
<1>1. ASSUME NEW i \in 0 .. n PROVE h[i] = f[i]
  <2>1. CASE i = 0
    BY <2>1
  <2>2. CASE i # 0
    <3>1. i \in 1 .. n
      BY <2>2 DEF n
    <3>2. h[i] = IF s[i] \in T THEN Append(f[i - 1], s[i]) ELSE f[i - 1]
      BY <2>2
    <3> QED
      BY <3>1, <3>2 DEF n
  <2> QED
    BY <2>1, <2>2
<1>2. DOMAIN h = 0 .. n
  OBVIOUS
<1> HIDE DEF h
<1>3. f = [i \in 0 .. n |-> f[i]] /\ h = [i \in 0 .. n |-> h[i]]
  BY DEF n, h
<1>4. f = h
  BY <1>1, <1>3
<1> QED
  BY <1>4 DEF Loops, h, n

(***************************************************************************)
(* What the loop does with one more element.                               *)
(***************************************************************************)
LEMMA OnlyAppend ==
    ASSUME NEW S, NEW T
    PROVE  /\ Only(<<>>, T) = <<>>
           /\ \A s \in Seq(S) : Only(s, T) \in Seq(S)
           /\ \A s \in Seq(S), e \in S :
                 Only(Append(s, e), T) = IF e \in T THEN Append(Only(s, T), e) ELSE Only(s, T)
<1> DEFINE X == Seq(S)
           z == <<>>
           step == [p \in X \X S |-> IF p[2] \in T THEN Append(p[1], p[2]) ELSE p[1]]
<1>1. z \in X /\ z \in Seq(S)
  BY EmptySeq
<1>2. \A q \in X, e \in S : (IF e \in T THEN Append(q, e) ELSE q) \in X
  BY AppendProperties
<1>3. ASSUME NEW s PROVE Only(s, T) = (CHOOSE f : Loops(f, z, s, T))[Len(s)]
  BY Zenon DEF Only, Loops
<1> HIDE DEF X, z
<1>4. IsStep(step, z, X, S)
  BY <1>1, <1>2 DEF IsStep
<1>5. \A q \in X, e \in S : step[<<q, e>>] = IF e \in T THEN Append(q, e) ELSE q
  OBVIOUS
<1> HIDE DEF step
<1>6. ASSUME NEW s \in Seq(S) PROVE Only(s, T) = Folded(step, z, s)
  <2> DEFINE n == Len(s)
             g == CHOOSE f : Loops(f, z, s, T)
  <2>1. n \in Nat /\ \A i \in 1 .. n : s[i] \in S
    BY LenProperties, ElementOfSeq
  <2>2. PICK f \in [0 .. n -> X] : IsFold(f, step, z, s)
    BY <1>1, <1>4, FoldExists
  <2>3. ASSUME NEW i \in 1 .. n
        PROVE  f[i] = IF s[i] \in T THEN Append(f[i - 1], s[i]) ELSE f[i - 1]
    <3>1. f[i - 1] \in X /\ s[i] \in S
      BY <2>1, <2>2
    <3>2. f[i] = step[<<f[i - 1], s[i]>>]
      BY <2>2 DEF IsFold
    <3> QED
      BY <1>5, <3>1, <3>2
  <2>4. Loops(f, z, s, T)
    BY <2>1, <2>2, <2>3, RoundsLoop DEF IsFold
  <2>5. Loops(g, z, s, T)
    BY <2>4, Zenon
  <2> HIDE DEF g, n
  <2>6. g[0] = z /\ \A i \in 1 .. n : g[i] = IF s[i] \in T THEN Append(g[i - 1], s[i]) ELSE g[i - 1]
    BY <2>1, <2>5, LoopRounds DEF n
  <2>7. \A i \in 1 .. n : g[i - 1] \in X => g[i] = step[<<g[i - 1], s[i]>>]
    BY <1>5, <2>1, <2>6
  <2>8. Only(s, T) = g[n]
    BY <1>3 DEF g, n
  <2> QED
    BY <1>1, <1>4, <2>6, <2>7, <2>8, FoldedRounds DEF n
<1>7. /\ Folded(step, z, <<>>) = z
      /\ \A s \in Seq(S) : Folded(step, z, s) \in X
      /\ \A s \in Seq(S), e \in S :
            Folded(step, z, Append(s, e)) = step[<<Folded(step, z, s), e>>]
  BY <1>1, <1>4, FoldedAppend
<1>8. ASSUME NEW s \in Seq(S), NEW e \in S
      PROVE  Only(Append(s, e), T) = IF e \in T THEN Append(Only(s, T), e) ELSE Only(s, T)
  <2>1. Append(s, e) \in Seq(S)
    BY AppendProperties
  <2>2. Only(Append(s, e), T) = step[<<Folded(step, z, s), e>>] /\ Folded(step, z, s) \in X
    BY <1>6, <1>7, <2>1
  <2> QED
    BY <1>5, <1>6, <2>2
<1>9. Only(z, T) = z
  BY <1>1, <1>6, <1>7 DEF z
<1> QED
  BY <1>6, <1>7, <1>8, <1>9 DEF X, z

\* The same for one sequence and one element.
LEMMA OnlyOneMore ==
    ASSUME NEW S, NEW T, NEW s \in Seq(S), NEW e \in S
    PROVE  /\ Only(s, T) \in Seq(S) /\ Append(s, e) \in Seq(S)
           /\ e \in T => Only(Append(s, e), T) = Append(Only(s, T), e)
           /\ e \notin T => Only(Append(s, e), T) = Only(s, T)
<1>1. /\ \A r \in Seq(S) : Only(r, T) \in Seq(S)
      /\ \A r \in Seq(S), x \in S :
            Only(Append(r, x), T) = IF x \in T THEN Append(Only(r, T), x) ELSE Only(r, T)
  BY OnlyAppend
<1>2. Append(s, e) \in Seq(S)
  BY AppendProperties
<1> QED
  BY <1>1, <1>2

\* A loop over what a loop has left.
LEMMA OnlyTwice ==
    ASSUME NEW S, NEW A, NEW B, NEW s \in Seq(S)
    PROVE  Only(Only(s, A), B) = Only(s, A \cap B)
<1> DEFINE T == {r \in Seq(S) : Only(Only(r, A), B) = Only(r, A \cap B)}
           nil == <<>>
<1>1. nil \in Seq(S) /\ Only(nil, A) = nil /\ Only(nil, B) = nil /\ Only(nil, A \cap B) = nil
  BY EmptySeq, OnlyAppend
<1>2. nil \in T
  <2> HIDE DEF nil
  <2> QED
    BY <1>1
<1>3. ASSUME NEW r \in Seq(S), NEW e \in S, r \in T PROVE Append(r, e) \in T
  <2>1. /\ Append(r, e) \in Seq(S) /\ Only(r, A) \in Seq(S)
        /\ e \in A => Only(Append(r, e), A) = Append(Only(r, A), e)
        /\ e \notin A => Only(Append(r, e), A) = Only(r, A)
    BY OnlyOneMore
  <2>2. /\ e \in B => Only(Append(Only(r, A), e), B) = Append(Only(Only(r, A), B), e)
        /\ e \notin B => Only(Append(Only(r, A), e), B) = Only(Only(r, A), B)
    BY <2>1, OnlyOneMore
  <2>3. /\ e \in A \cap B => Only(Append(r, e), A \cap B) = Append(Only(r, A \cap B), e)
        /\ e \notin A \cap B => Only(Append(r, e), A \cap B) = Only(r, A \cap B)
    BY OnlyOneMore
  <2>5. Only(Only(r, A), B) = Only(r, A \cap B)
    BY <1>3
  <2>6. Only(Only(Append(r, e), A), B) = Only(Append(r, e), A \cap B)
    <3>1. CASE e \in A /\ e \in B
      BY <2>1, <2>2, <2>3, <2>5, <3>1
    <3>2. CASE e \in A /\ e \notin B
      BY <2>1, <2>2, <2>3, <2>5, <3>2
    <3>3. CASE e \notin A
      BY <2>1, <2>3, <2>5, <3>3
    <3> QED
      BY <3>1, <3>2, <3>3
  <2> QED
    BY <2>1, <2>6
<1>4. Seq(S) \subseteq T
  <2> HIDE DEF T
  <2> QED
    BY <1>2, <1>3, SeqInduction
<1> QED
  BY <1>4

\* A loop that takes nothing.
LEMMA OnlyNone ==
    ASSUME NEW S, NEW s \in Seq(S)
    PROVE  Only(s, {}) = <<>>
<1> DEFINE nil == <<>>
           T == {r \in Seq(S) : Only(r, {}) = nil}
<1>1. nil \in Seq(S) /\ Only(nil, {}) = nil
  BY EmptySeq, OnlyAppend
<1>2. \A r \in Seq(S), e \in S : Append(r, e) \in Seq(S) /\ Only(Append(r, e), {}) = Only(r, {})
  BY OnlyOneMore
<1> HIDE DEF nil
<1>3. nil \in T /\ \A r \in Seq(S), e \in S : r \in T => Append(r, e) \in T
  BY <1>1, <1>2
<1>4. Seq(S) \subseteq T
  <2> HIDE DEF T
  <2> QED
    BY <1>3, SeqInduction DEF nil
<1> QED
  BY <1>4 DEF nil
\* What a loop keeps are the elements of the set that the sequence has.
LEMMA OnlyRange ==
    ASSUME NEW S, NEW T, NEW s \in Seq(S)
    PROVE  Only(s, T) \in Seq(S) /\ Range(Only(s, T)) = Range(s) \cap T
<1> DEFINE nil == <<>>
           R == {r \in Seq(S) : Only(r, T) \in Seq(S) /\ Range(Only(r, T)) = Range(r) \cap T}
<1>1. nil \in Seq(S) /\ Only(nil, T) = nil /\ Range(nil) = {}
  BY EmptySeq, OnlyAppend DEF Range
<1>2. ASSUME NEW r \in Seq(S), NEW e \in S
      PROVE  Range(Append(r, e)) = Range(r) \cup {e}
  <2>1. /\ Append(r, e) \in Seq(S) /\ Len(Append(r, e)) = Len(r) + 1 /\ Len(r) \in Nat
        /\ \A i \in 1 .. Len(r) : Append(r, e)[i] = r[i]
        /\ Append(r, e)[Len(r) + 1] = e
    BY AppendProperties, LenProperties
  <2>2. DOMAIN r = 1 .. Len(r) /\ DOMAIN Append(r, e) = 1 .. Len(r) + 1
    BY <2>1, LenProperties
  <2> QED
    BY <2>1, <2>2 DEF Range
<1> HIDE DEF nil
<1>3. nil \in R
  BY <1>1
<1>4. ASSUME NEW r \in Seq(S), NEW e \in S, r \in R PROVE Append(r, e) \in R
  <2>1. /\ Only(r, T) \in Seq(S) /\ Append(r, e) \in Seq(S)
        /\ e \in T => Only(Append(r, e), T) = Append(Only(r, T), e)
        /\ e \notin T => Only(Append(r, e), T) = Only(r, T)
    BY OnlyOneMore
  <2>2. Range(Append(r, e)) = Range(r) \cup {e}
    BY <1>2
  <2>3. Range(Append(Only(r, T), e)) = Range(Only(r, T)) \cup {e}
    BY <1>2, <2>1
  <2>4. Range(Only(r, T)) = Range(r) \cap T
    BY <1>4
  <2>5. Only(Append(r, e), T) \in Seq(S)
    BY OnlyAppend, <2>1
  <2>6. Range(Only(Append(r, e), T)) = Range(Append(r, e)) \cap T
    BY <2>1, <2>2, <2>3, <2>4
  <2> QED
    BY <2>1, <2>5, <2>6
<1>5. Seq(S) \subseteq R
  <2> HIDE DEF R
  <2> QED
    BY <1>3, <1>4, SeqInduction DEF nil
<1> QED
  BY <1>5

\* A loop repeats nothing that the sequence does not repeat.
LEMMA OnlyInjective ==
    ASSUME NEW S, NEW T, NEW s \in Seq(S), IsInjective(s)
    PROVE  IsInjective(Only(s, T))
<1> DEFINE nil == <<>>
           R == {r \in Seq(S) : IsInjective(r) => IsInjective(Only(r, T))}
<1>1. nil \in Seq(S) /\ Only(nil, T) = nil /\ IsInjective(nil)
  BY EmptySeq, OnlyAppend DEF IsInjective
<1>2. ASSUME NEW r \in Seq(S), NEW e \in S
      PROVE  IsInjective(Append(r, e)) <=> IsInjective(r) /\ e \notin Range(r)
  <2>1. /\ Append(r, e) \in Seq(S) /\ Len(Append(r, e)) = Len(r) + 1 /\ Len(r) \in Nat
        /\ \A i \in 1 .. Len(r) : Append(r, e)[i] = r[i]
        /\ Append(r, e)[Len(r) + 1] = e
    BY AppendProperties, LenProperties
  <2>2. DOMAIN r = 1 .. Len(r) /\ DOMAIN Append(r, e) = 1 .. Len(r) + 1
    BY <2>1, LenProperties
  <2> DEFINE t == Append(r, e)
             n == Len(r)
  <2>3. /\ n \in Nat /\ DOMAIN r = 1 .. n /\ DOMAIN t = 1 .. n + 1
        /\ t[n + 1] = e /\ \A i \in 1 .. n : t[i] = r[i]
    BY <2>1, <2>2
  <2> HIDE DEF t, n
  <2>4. IsInjective(t) => IsInjective(r) /\ e \notin Range(r)
    <3> SUFFICES ASSUME IsInjective(t) PROVE IsInjective(r) /\ e \notin Range(r)
      OBVIOUS
    <3>1. \A i \in 1 .. n : i \in DOMAIN t /\ i # n + 1 /\ n + 1 \in DOMAIN t
      BY <2>3
    <3>2. \A i, j \in DOMAIN t : t[i] = t[j] => i = j
      BY DEF IsInjective
    <3>3. \A i, j \in DOMAIN r : r[i] = r[j] => i = j
      BY <2>3, <3>1, <3>2
    <3>4. \A i \in DOMAIN r : r[i] # e
      BY <2>3, <3>1, <3>2
    <3> QED
      BY <3>3, <3>4 DEF IsInjective, Range
  <2>5. ASSUME IsInjective(r), e \notin Range(r) PROVE IsInjective(t)
    <3>1. \A i \in 1 .. n : t[i] # e
      BY <2>3, <2>5 DEF Range
    <3>2. \A i, j \in 1 .. n : t[i] = t[j] => i = j
      BY <2>3, <2>5 DEF IsInjective
    <3>3. \A i \in DOMAIN t : i \in 1 .. n \/ i = n + 1
      BY <2>3
    <3> QED
      BY <2>3, <3>1, <3>2, <3>3 DEF IsInjective
  <2> QED
    BY <2>4, <2>5 DEF t
<1> HIDE DEF nil
<1>3. nil \in R
  BY <1>1
<1>4. ASSUME NEW r \in Seq(S), NEW e \in S, r \in R PROVE Append(r, e) \in R
  <2>1. /\ Only(r, T) \in Seq(S) /\ Append(r, e) \in Seq(S)
        /\ e \in T => Only(Append(r, e), T) = Append(Only(r, T), e)
        /\ e \notin T => Only(Append(r, e), T) = Only(r, T)
    BY OnlyOneMore
  <2>2. Range(Only(r, T)) = Range(r) \cap T
    BY OnlyRange
  <2>3. ASSUME IsInjective(Append(r, e)) PROVE IsInjective(Only(Append(r, e), T))
    <3>1. IsInjective(r) /\ e \notin Range(r)
      BY <1>2, <2>3
    <3>2. IsInjective(Only(r, T)) /\ e \notin Range(Only(r, T))
      BY <1>4, <2>2, <3>1
    <3>3. IsInjective(Append(Only(r, T), e))
      BY <1>2, <2>1, <3>2
    <3> QED
      BY <2>1, <3>2, <3>3
  <2> QED
    BY <2>1, <2>3
<1>5. Seq(S) \subseteq R
  <2> HIDE DEF R
  <2> QED
    BY <1>3, <1>4, SeqInduction DEF nil
<1> QED
  BY <1>5
=============================================================================
