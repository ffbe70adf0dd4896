---------------------------- MODULE WatchProofs -----------------------------
(***************************************************************************)
(* Theorems about the watcher for every set of paths, every capacity of    *)
(* the channels, every window shorter than the purge age and every size    *)
(* above which the dedupe map is purged.                                   *)
(***************************************************************************)
EXTENDS Watch, SequenceTheorems, TLAPS

(***************************************************************************)
(* Types are right before the first event.                                 *)
(***************************************************************************)
LEMMA InitTypeOK == Init => TypeOK
<1> SUFFICES ASSUME Init PROVE TypeOK
  OBVIOUS
<1>1. DOMAIN recent = {}
  BY DEF Init
<1>2. ChanCap \in Nat /\ MaxTime \in Nat /\ MaxEvents \in Nat
  BY WatchAssumption
<1>3. /\ c \in Seq([path : Path, flags : SUBSET Kind]) /\ Len(c) <= ChanCap
      /\ out \in Seq([path : Path, kind : Kind]) /\ Len(out) <= ChanCap
  BY <1>2 DEF Init
<1>4. now \in Time /\ raws \in 0 .. MaxEvents /\ present \subseteq Path
  BY <1>2 DEF Init, Time
<1>5. handled \in [Key -> Time \cup {Never}] /\ announced \in [Key -> Time \cup {Never}]
  BY DEF Init
<1> QED
  BY <1>1, <1>3, <1>4, <1>5 DEF TypeOK

(***************************************************************************)
(* The map after an announcement: the key of the event with the time of    *)
(* now, and of the others those that the purge left, unchanged; what it    *)
(* removed is older than PurgeAge (server.go:118-124).                     *)
(***************************************************************************)
LEMMA Remembered ==
    ASSUME TypeOK, NEW key \in Key
    PROVE  /\ DOMAIN Remember(key) \subseteq DOMAIN recent \cup {key}
           /\ key \in DOMAIN Remember(key)
           /\ \A k \in DOMAIN Remember(key) : Remember(key)[k] = IF k = key THEN now ELSE recent[k]
           /\ \A k \in DOMAIN recent \ DOMAIN Remember(key) : now - recent[k] > PurgeAge
<1> DEFINE keys == DOMAIN recent \cup {key}
           at(k) == IF k = key THEN now ELSE recent[k]
           kept == IF Cardinality(keys) > PurgeAbove
                   THEN {k \in keys : now - at(k) <= PurgeAge} ELSE keys
<1>1. now \in Nat /\ PurgeAge \in Nat /\ \A k \in DOMAIN recent : recent[k] \in Nat
  BY WatchAssumption DEF TypeOK, Time
<1>2. Remember(key) = [k \in kept |-> at(k)]
  BY DEF Remember
<1>3. kept \subseteq keys /\ key \in kept
  BY <1>1
<1>4. \A k \in DOMAIN recent \ kept : now - recent[k] > PurgeAge
  BY <1>1, <1>3
<1> HIDE DEF kept
<1> QED
  BY <1>2, <1>3, <1>4

(***************************************************************************)
(* A send with a default branch keeps a channel within its capacity.       *)
(***************************************************************************)
LEMMA Appended ==
    ASSUME NEW S, NEW s \in Seq(S), NEW e \in S, NEW n \in Nat, Len(s) <= n,
           NEW t, t = IF Len(s) < n THEN Append(s, e) ELSE s
    PROVE  t \in Seq(S) /\ Len(t) <= n
<1>1. Len(s) \in Nat /\ Append(s, e) \in Seq(S) /\ Len(Append(s, e)) = Len(s) + 1
  BY AppendProperties, LenProperties
<1> QED
  BY <1>1

(***************************************************************************)
(* The loop puts into the second channel what it took from the first.      *)
(***************************************************************************)
LEMMA NextTypeOK == TypeOK /\ [Next]_vars => TypeOK'
<1> SUFFICES ASSUME TypeOK, [Next]_vars PROVE TypeOK'
  OBVIOUS
<1>0. ChanCap \in Nat /\ MaxTime \in Nat /\ MaxEvents \in Nat
  BY WatchAssumption
<1>1. CASE Tick
  BY <1>0, <1>1 DEF Tick, TypeOK, Time
<1>2. ASSUME NEW p \in Path, RawEvent(p) PROVE TypeOK'
  <2>1. PICK ch \in Change(p) :
            /\ present' = IF ch[2] THEN present \cup {p} ELSE present \ {p}
            /\ c' = IF Len(c) < ChanCap THEN Append(c, [path |-> p, flags |-> ch[1]]) ELSE c
    BY <1>2 DEF RawEvent
  <2>2. ch[1] \in SUBSET Kind
    <3>1. ch \in {<<{"write"}, TRUE>>, <<{"remove"}, FALSE>>, <<{"rename"}, FALSE>>,
                  <<{"create"}, TRUE>>, <<{"create", "write"}, TRUE>>, <<{"rename"}, TRUE>>}
      BY <2>1 DEF Change
    <3>2. \A A, b : <<A, b>>[1] = A
      OBVIOUS
    <3>3. \/ ch[1] = {"write"} \/ ch[1] = {"remove"} \/ ch[1] = {"rename"}
          \/ ch[1] = {"create"} \/ ch[1] = {"create", "write"}
      BY <3>1, <3>2, Zenon
    <3> QED
      BY <3>3 DEF Kind
  <2>3. present' \subseteq Path
    BY <2>1 DEF TypeOK
  <2>4. c' \in Seq([path : Path, flags : SUBSET Kind]) /\ Len(c') <= ChanCap
    <3> DEFINE e == [path |-> p, flags |-> ch[1]]
    <3>1. e \in [path : Path, flags : SUBSET Kind]
      BY <2>2
    <3>2. c' = IF Len(c) < ChanCap THEN Append(c, e) ELSE c
      BY <2>1
    <3> HIDE DEF e
    <3> QED
      BY <1>0, <3>1, <3>2, Appended DEF TypeOK
  <2>5. raws' \in 0 .. MaxEvents
    BY <1>0, <1>2 DEF RawEvent, TypeOK
  <2> QED
    BY <1>2, <2>3, <2>4, <2>5 DEF RawEvent, TypeOK
<1>3. CASE Forward
  <2> DEFINE e == [path |-> Head(c).path, kind |-> Classify(Head(c).flags)]
  <2>1. Head(c) \in [path : Path, flags : SUBSET Kind]
        /\ c' \in Seq([path : Path, flags : SUBSET Kind]) /\ Len(c') = Len(c) - 1
        /\ Len(c) \in Nat
    BY <1>3, HeadTailProperties, LenProperties DEF Forward, TypeOK
  <2>2. e \in [path : Path, kind : Kind]
    BY <2>1 DEF Classify, Kind
  <2>3. out' = IF Len(out) < ChanCap THEN Append(out, e) ELSE out
    BY <1>3 DEF Forward
  <2> HIDE DEF e
  <2>4. out' \in Seq([path : Path, kind : Kind]) /\ Len(out') <= ChanCap
    BY <1>0, <2>2, <2>3, Appended DEF TypeOK
  <2>5. Len(c') <= ChanCap
    BY <1>0, <2>1 DEF TypeOK
  <2> QED
    BY <1>3, <2>1, <2>4, <2>5 DEF Forward, TypeOK
<1>4. CASE Handle
  <2> DEFINE key == <<Head(out).path, Head(out).kind>>
  <2>1. Head(out) \in [path : Path, kind : Kind]
        /\ out' \in Seq([path : Path, kind : Kind]) /\ Len(out') = Len(out) - 1
        /\ Len(out) \in Nat
    BY <1>4, HeadTailProperties, LenProperties DEF Handle, TypeOK
  <2>2. key \in Key /\ Len(out') <= ChanCap
    BY <1>0, <2>1 DEF Key, TypeOK
  <2> HIDE DEF key
  <2>3. handled' = [handled EXCEPT ![key] = now]
        /\ \/ UNCHANGED <<recent, announced>>
           \/ recent' = Remember(key) /\ announced' = [announced EXCEPT ![key] = now]
    BY <1>4 DEF Handle, key
  <2>4. DOMAIN recent' \subseteq Key /\ \A k \in DOMAIN recent' : recent'[k] \in Time
    <3>1. CASE recent' = recent
      BY <3>1 DEF TypeOK
    <3>2. CASE recent' = Remember(key)
      BY <2>2, <3>2, Remembered DEF TypeOK
    <3> QED
      BY <2>3, <3>1, <3>2
  <2>5. handled' \in [Key -> Time \cup {Never}] /\ announced' \in [Key -> Time \cup {Never}]
    BY <2>2, <2>3 DEF TypeOK
  <2> QED
    BY <1>4, <2>1, <2>2, <2>4, <2>5 DEF Handle, TypeOK
<1>5. CASE UNCHANGED vars
  BY <1>5 DEF vars, TypeOK
<1> QED
  BY <1>1, <1>2, <1>3, <1>4, <1>5 DEF Next

(***************************************************************************)
(* Types are right and both channels within their capacity in every state. *)
(***************************************************************************)
THEOREM TypeCorrect == Spec => []TypeOK
BY InitTypeOK, NextTypeOK, PTL DEF Spec
-----------------------------------------------------------------------------
(***************************************************************************)
(* What the dedupe map knows: of a key it has, when it was last announced; *)
(* a key it has not was never announced, or more than PurgeAge ago, which  *)
(* is longer than Window.  That makes the two properties inductive.        *)
(***************************************************************************)
Remembers ==
    \A k \in Key :
        /\ announced[k] <= now
        /\ k \in DOMAIN recent => recent[k] = announced[k]
        /\ k \notin DOMAIN recent /\ announced[k] # Never => now - announced[k] > PurgeAge

Inv == TypeOK /\ Remembers /\ BurstIsAnnounced

(***************************************************************************)
(* An announcement is the first of its key or comes Window after the last. *)
(***************************************************************************)
LEMMA NotSuppressed ==
    ASSUME TypeOK, Remembers, NEW key \in Key, ~Suppressed(key), announced[key] # Never
    PROVE  now - announced[key] >= Window
<1>1. now \in Nat /\ announced[key] \in Int /\ Window \in Nat /\ PurgeAge \in Nat
      /\ Window < PurgeAge
  BY WatchAssumption DEF TypeOK, Time, Never
<1>2. CASE key \in DOMAIN recent
  BY <1>1, <1>2 DEF Remembers, Suppressed
<1>3. CASE key \notin DOMAIN recent
  BY <1>1, <1>3 DEF Remembers
<1> QED
  BY <1>2, <1>3

(***************************************************************************)
(* Only taking an event out of the second channel touches map or history.  *)
(***************************************************************************)
LEMMA NextInv == Inv /\ [Next]_vars => Inv'
<1> SUFFICES ASSUME Inv, [Next]_vars PROVE Inv'
  OBVIOUS
<1>0. TypeOK /\ Remembers /\ BurstIsAnnounced /\ TypeOK'
  BY NextTypeOK DEF Inv
<1>1. now \in Nat /\ now' \in Nat /\ Window \in Nat \ {0} /\ PurgeAge \in Nat /\ Window < PurgeAge
      /\ \A k \in Key : announced[k] \in Int /\ handled[k] \in Int /\ announced'[k] \in Int
                        /\ handled'[k] \in Int
  BY <1>0, WatchAssumption DEF TypeOK, Time, Never
<1>2. CASE now' >= now /\ UNCHANGED <<recent, announced, handled>>
  <2>1. Remembers'
    BY <1>0, <1>1, <1>2 DEF Remembers
  <2>2. BurstIsAnnounced'
    BY <1>0, <1>2 DEF BurstIsAnnounced
  <2> QED
    BY <1>0, <2>1, <2>2 DEF Inv
<1>3. CASE Handle
  <2> DEFINE key == <<Head(out).path, Head(out).kind>>
  <2>1. key \in Key /\ now' = now /\ handled' = [handled EXCEPT ![key] = now]
    <3>1. Head(out) \in [path : Path, kind : Kind]
      BY <1>0, <1>3, HeadTailProperties DEF Handle, TypeOK
    <3> QED
      BY <1>3, <3>1 DEF Handle, Key
  <2>2. IF Suppressed(key) THEN UNCHANGED <<recent, announced>>
        ELSE recent' = Remember(key) /\ announced' = [announced EXCEPT ![key] = now]
    BY <1>3 DEF Handle
  <2> HIDE DEF key
  <2>3. ASSUME NEW k \in Key, k # key
        PROVE  handled'[k] = handled[k] /\ announced'[k] = announced[k]
    BY <1>0, <2>1, <2>2, <2>3 DEF TypeOK
  <2>4. handled'[key] = now
    BY <1>0, <2>1 DEF TypeOK
  <2>5. CASE Suppressed(key)
    <3>1. announced'[key] = announced[key] /\ recent[key] = announced[key]
          /\ recent[key] \in Nat /\ now - announced[key] < Window
      BY <1>0, <2>1, <2>2, <2>5 DEF Suppressed, Remembers, TypeOK, Time
    <3>2. announced'[key] # Never
      BY <3>1 DEF Never
    <3>3. Remembers'
      BY <1>0, <2>1, <2>2, <2>5 DEF Remembers
    <3>4. BurstIsAnnounced'
      BY <1>0, <2>3, <2>4, <3>1, <3>2 DEF BurstIsAnnounced
    <3> QED
      BY <1>0, <3>3, <3>4 DEF Inv
  <2>6. CASE ~Suppressed(key)
    <3>1. announced'[key] = now /\ recent' = Remember(key)
      BY <1>0, <2>1, <2>2, <2>6 DEF TypeOK
    <3>2. Remembers'
      <4> SUFFICES ASSUME NEW k \in Key
                   PROVE  /\ announced'[k] <= now'
                          /\ k \in DOMAIN recent' => recent'[k] = announced'[k]
                          /\ k \notin DOMAIN recent' /\ announced'[k] # Never =>
                                now' - announced'[k] > PurgeAge
        BY DEF Remembers
      <4>1. CASE k = key
        BY <1>0, <1>1, <2>1, <3>1, <4>1, Remembered
      <4>2. CASE k # key
        <5>1. announced'[k] = announced[k] /\ now' = now
          BY <2>1, <2>3, <4>2
        <5>2. k \in DOMAIN recent' => k \in DOMAIN recent /\ recent'[k] = recent[k]
          BY <1>0, <2>1, <3>1, <4>2, Remembered
        <5>3. k \in DOMAIN recent /\ k \notin DOMAIN recent' => now - recent[k] > PurgeAge
          BY <1>0, <2>1, <3>1, Remembered
        <5> QED
          BY <1>0, <5>1, <5>2, <5>3 DEF Remembers
      <4> QED
        BY <4>1, <4>2
    <3>3. BurstIsAnnounced'
      <4>1. announced'[key] # Never /\ handled'[key] - announced'[key] < Window
        BY <1>1, <2>4, <3>1 DEF Never
      <4> QED
        BY <1>0, <2>3, <4>1 DEF BurstIsAnnounced
    <3> QED
      BY <1>0, <3>2, <3>3 DEF Inv
  <2> QED
    BY <2>5, <2>6
<1>4. CASE Tick
  <2>1. now' >= now /\ UNCHANGED <<recent, announced, handled>>
    BY <1>1, <1>4 DEF Tick
  <2> QED
    BY <1>2, <2>1
<1>5. CASE (\E p \in Path : RawEvent(p)) \/ Forward \/ UNCHANGED vars
  <2>1. now' = now /\ UNCHANGED <<recent, announced, handled>>
    BY <1>5 DEF RawEvent, Forward, vars
  <2> QED
    BY <1>1, <1>2, <2>1
<1> QED
  BY <1>3, <1>4, <1>5 DEF Next

(***************************************************************************)
(* The invariant holds in every state.                                     *)
(***************************************************************************)
LEMMA AlwaysInv == Spec => []Inv
<1>1. Init => Inv
  <2> SUFFICES ASSUME Init PROVE Inv
    OBVIOUS
  <2>1. now = 0 /\ DOMAIN recent = {} /\ \A k \in Key : announced[k] = Never /\ handled[k] = Never
    BY DEF Init
  <2>2. Remembers /\ BurstIsAnnounced
    BY <2>1 DEF Remembers, BurstIsAnnounced, Never
  <2> QED
    BY <2>2, InitTypeOK DEF Inv
<1> QED
  BY <1>1, NextInv, PTL DEF Spec

(***************************************************************************)
(* No burst is swallowed: of an event that was taken, one like it was      *)
(* announced then or less than Window before (server.go:114-117).          *)
(***************************************************************************)
THEOREM BurstCorrect == Spec => []BurstIsAnnounced
<1>1. Inv => BurstIsAnnounced
  BY DEF Inv
<1> QED
  BY <1>1, AlwaysInv, PTL

(***************************************************************************)
(* No two announcements of one key within Window, whatever the purge of    *)
(* the map removes (server.go:118-124).                                    *)
(***************************************************************************)
THEOREM WindowCorrect == Spec => OncePerWindow
<1>1. Inv /\ [Next]_vars =>
          [\A k \in Key : announced'[k] # announced[k] /\ announced[k] # Never =>
              announced'[k] - announced[k] >= Window]_vars
  <2> SUFFICES ASSUME Inv, Next, NEW k \in Key, announced'[k] # announced[k],
                      announced[k] # Never
               PROVE  announced'[k] - announced[k] >= Window
    OBVIOUS
  <2>1. TypeOK /\ Remembers
    BY DEF Inv
  <2>2. Handle
    BY DEF Next, Tick, RawEvent, Forward
  <2> DEFINE key == <<Head(out).path, Head(out).kind>>
  <2>3. IF Suppressed(key) THEN UNCHANGED announced
        ELSE announced' = [announced EXCEPT ![key] = now]
    BY <2>2 DEF Handle
  <2> HIDE DEF key
  <2>4. ~Suppressed(key) /\ k = key /\ announced'[k] = now
    BY <2>1, <2>3 DEF TypeOK
  <2> QED
    BY <2>1, <2>4, NotSuppressed
<1> QED
  BY <1>1, AlwaysInv, PTL DEF Spec, OncePerWindow
=============================================================================
