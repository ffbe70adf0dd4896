----------------------------- MODULE HubProofs ------------------------------
(***************************************************************************)
(* Theorems about the hub for every set of producers and connections and   *)
(* every ring, channel and number of broadcasts: the ring holds the recent *)
(* history, everything keeps its type, there is no gap between replay and  *)
(* live delivery, frames keep their order, the counters add up, and the    *)
(* hub implements the abstract feed.                                       *)
(***************************************************************************)
EXTENDS Hub, SequenceTheorems, FiniteSetTheorems, TLAPS

(***************************************************************************)
(* The ring.  RingInv says where each slot comes from; the lemmas are      *)
(* about Store and Snapshot alone, so that they can be cited where the     *)
(* ring is used inside a larger step.                                      *)
(***************************************************************************)
RingTyped(S) ==
    /\ ring \in [Slots -> S \cup {NoEvent}]
    /\ ringHead \in Slots
    /\ ringFilled \in BOOLEAN
    /\ stored \in Seq(S)

\* The place in the history of what a slot holds.
Origin(i) ==
    IF i < ringHead
    THEN Len(stored) - ringHead + i + 1
    ELSE Len(stored) - ringHead - RingSize + i + 1

\* Before the wrap only the slots below the head are in use, and the history
\* is as long as the head; after it every slot holds one of the last events.
RingInv ==
    /\ ~ringFilled => ringHead = Len(stored)
    /\ ringFilled => Len(stored) >= RingSize
    /\ \A i \in Slots : i < ringHead \/ ringFilled => ring[i] = stored[Origin(i)]

(***************************************************************************)
(* The empty ring satisfies the invariant (NewHub).                        *)
(***************************************************************************)
LEMMA RingInitOK ==
    ASSUME NEW S, RingInit
    PROVE  RingTyped(S) /\ RingInv
<1>1. RingTyped(S)
  BY RingSizeAssumption, EmptySeq DEF RingInit, RingTyped, Slots
<1>2. RingInv
  BY RingSizeAssumption, EmptySeq DEF RingInit, RingInv, Slots
<1> QED
  BY <1>1, <1>2

(***************************************************************************)
(* The head moves to the next slot, or to the first one after the last.    *)
(***************************************************************************)
LEMMA HeadStep ==
    ASSUME NEW h \in Slots
    PROVE  (h + 1) % RingSize = IF h = RingSize - 1 THEN 0 ELSE h + 1
BY RingSizeAssumption DEF Slots

(***************************************************************************)
(* A store keeps the invariant: the event overwrites the oldest slot       *)
(* exactly when the array has wrapped (Hub.send, the critical section).    *)
(***************************************************************************)
LEMMA StoreOK ==
    ASSUME NEW S, NEW ev \in S, RingTyped(S), RingInv, Store(ev)
    PROVE  RingTyped(S)' /\ RingInv'
<1> DEFINE n == Len(stored)
<1> USE RingSizeAssumption DEF Slots
<1>1. ringHead' = IF ringHead = RingSize - 1 THEN 0 ELSE ringHead + 1
  BY HeadStep DEF Store, RingTyped
<1>2. /\ stored' \in Seq(S) /\ n \in Nat /\ Len(stored') = n + 1
      /\ stored'[n + 1] = ev
      /\ \A k \in 1 .. n : stored'[k] = stored[k]
  BY DEF Store, RingTyped
<1>3. RingTyped(S)'
  BY <1>1, <1>2 DEF Store, RingTyped
<1>4. (~ringFilled => ringHead = Len(stored))'
  BY <1>1, <1>2 DEF Store, RingTyped, RingInv
<1>5. (ringFilled => Len(stored) >= RingSize)'
  BY <1>1, <1>2 DEF Store, RingTyped, RingInv
<1>6. ASSUME NEW i \in Slots, i < ringHead' \/ ringFilled'
      PROVE  ring'[i] = stored'[Origin(i)']
  <2>1. CASE i = ringHead
    <3>1. Origin(i)' = n + 1
      BY <1>1, <1>2, <2>1 DEF Origin, RingTyped
    <3> QED
      BY <3>1, <1>2, <2>1 DEF Store, RingTyped
  <2>2. CASE i # ringHead
    <3>1. i < ringHead \/ ringFilled
      BY <1>1, <1>6, <2>2 DEF Store, RingTyped
    <3>2. ring'[i] = stored[Origin(i)]
      BY <3>1, <2>2 DEF Store, RingTyped, RingInv
    <3>3. Origin(i)' = Origin(i)
      BY <1>1, <1>2, <2>2 DEF Origin, RingTyped
    <3>4. Origin(i) \in 1 .. n
      BY <3>1, <1>2, <2>2 DEF Origin, RingTyped, RingInv
    <3> QED
      BY <3>2, <3>3, <3>4, <1>2
  <2> QED
    BY <2>1, <2>2
<1> QED
  BY <1>3, <1>4, <1>5, <1>6 DEF RingInv

(***************************************************************************)
(* The snapshot is the recent history (Hub.snapshot): its length and each  *)
(* of its elements are those of the last events stored.                    *)
(***************************************************************************)
LEMMA SnapshotOK ==
    ASSUME NEW S, RingTyped(S), RingInv
    PROVE  /\ Snapshot = Recent(Len(stored))
           /\ Snapshot \in Seq(S)
<1> DEFINE n == Len(stored)
           m == IF n > RingSize THEN n - RingSize + 1 ELSE 1
<1> USE RingSizeAssumption DEF Slots
<1>1. n \in Nat /\ m \in 1 .. n + 1 /\ (ringFilled => n >= RingSize)
      /\ (~ringFilled => n = ringHead)
  BY DEF RingTyped, RingInv
<1>2. /\ Recent(n) \in Seq(S)
      /\ Len(Recent(n)) = n - m + 1
      /\ \A i \in 1 .. n - m + 1 : Recent(n)[i] = stored[i + m - 1]
  <2>1. \A i \in m .. n : stored[i] \in S
    <3>1. \A i \in m .. n : i \in 1 .. Len(stored)
      BY <1>1
    <3> QED
      BY <3>1, ElementOfSeq DEF RingTyped
  <2>2. Recent(n) = SubSeq(stored, m, n)
    BY DEF Recent
  <2>3. m \in Int /\ n \in Int /\ (m <= n \/ n - m + 1 = 0)
    BY <1>1
  <2>4. /\ SubSeq(stored, m, n) \in Seq(S)
        /\ Len(SubSeq(stored, m, n)) = IF m <= n THEN n - m + 1 ELSE 0
        /\ \A i \in 1 .. n - m + 1 : SubSeq(stored, m, n)[i] = stored[m + i - 1]
    <3> HIDE DEF m, n
    <3> QED
      BY <2>1, <2>3, SubSeqProperties
  <2>5. \A i \in 1 .. n - m + 1 : m + i - 1 = i + m - 1
    BY <1>1
  <2> QED
    BY <2>2, <2>3, <2>4, <2>5
<1>3. /\ Snapshot \in Seq(S)
      /\ Len(Snapshot) = n - m + 1
      /\ \A i \in 1 .. n - m + 1 : Snapshot[i] = stored[i + m - 1]
  <2>1. CASE ~ringFilled
    <3>1. /\ m = 1 /\ n = ringHead
          /\ Snapshot = [i \in 1 .. n |-> ring[i - 1]]
      BY <1>1, <2>1 DEF RingTyped, Snapshot
    <3>2. \A i \in 1 .. n : i - 1 \in Slots /\ i - 1 < ringHead /\ Origin(i - 1) = i
      BY <1>1, <3>1 DEF RingTyped, Origin
    <3>3. \A i \in 1 .. n : ring[i - 1] = stored[i] /\ stored[i] \in S
      BY <3>2 DEF RingInv, RingTyped
    <3> QED
      BY <1>1, <3>1, <3>3
  <2>2. CASE ringFilled
    <3>1. n - m + 1 = RingSize
      BY <1>1, <2>2
    <3>2. Snapshot = [i \in 1 .. RingSize |->
                        IF i <= RingSize - ringHead
                        THEN ring[ringHead + i - 1]
                        ELSE ring[i - 1 - (RingSize - ringHead)]]
      BY <2>2 DEF Snapshot
    <3>3. ASSUME NEW i \in 1 .. RingSize
          PROVE  Snapshot[i] = stored[i + m - 1] /\ stored[i + m - 1] \in S
      <4>1. CASE i <= RingSize - ringHead
        <5>1. ringHead + i - 1 \in Slots /\ Origin(ringHead + i - 1) = i + m - 1
          BY <1>1, <2>2, <4>1 DEF RingTyped, Origin
        <5> QED
          BY <1>1, <2>2, <3>1, <3>2, <4>1, <5>1 DEF RingInv, RingTyped
      <4>2. CASE ~(i <= RingSize - ringHead)
        <5>1. /\ i - 1 - (RingSize - ringHead) \in Slots
              /\ Origin(i - 1 - (RingSize - ringHead)) = i + m - 1
          BY <1>1, <2>2, <4>2 DEF RingTyped, Origin
        <5> QED
          BY <1>1, <2>2, <3>1, <3>2, <4>2, <5>1 DEF RingInv, RingTyped
      <4> QED
        BY <4>1, <4>2
    <3>4. Snapshot \in [1 .. RingSize -> S]
      <4>1. Snapshot = [i \in 1 .. RingSize |-> Snapshot[i]]
        BY <3>2
      <4> QED
        BY <3>3, <4>1
    <3>5. Snapshot \in Seq(S) /\ Len(Snapshot) = RingSize
      BY <3>4
    <3> QED
      BY <3>1, <3>3, <3>5
  <2> QED
    BY <2>1, <2>2
<1> QED
  BY <1>2, <1>3, SeqEqual

-----------------------------------------------------------------------------
\* A producer that is past the counter holds an event.
Busy == \A p \in Producer : spc[p] # "idle" => sev[p] \in Event

\* Only in the loop over its copy of the clients does it offer the event.
Fanning == \A p \in Producer : spc[p] # "fanout" => targets[p] = {}

TypeInv == TypeOK /\ RingInv /\ Busy /\ Fanning

(***************************************************************************)
(* The invariant of the types holds before anything is broadcast (NewHub). *)
(***************************************************************************)
LEMMA InitTypeInv == Init => TypeInv
<1> SUFFICES ASSUME Init PROVE TypeInv
  OBVIOUS
<1>1. RingTyped(Event) /\ RingInv
  BY RingInitOK DEF Init
<1>2. /\ NoFrames \in [Client -> Seq(Frame)]
      /\ NoFrames \in [Client -> Seq(Event)]
  BY EmptySeq DEF NoFrames
<1>3. TypeOK
  BY <1>1, <1>2, HubAssumption DEF Init, TypeOK, RingTyped, Nowhere
<1>4. Busy /\ Fanning
  BY DEF Init, Busy, Fanning
<1> QED
  BY <1>1, <1>3, <1>4 DEF TypeInv

(***************************************************************************)
(* A set of clients can be counted (the map copied in Hub.send).           *)
(***************************************************************************)
LEMMA ClientCount == ASSUME NEW T \in SUBSET Client PROVE Cardinality(T) \in Nat
BY HubAssumption, FS_Subset, FS_CardinalityType

(***************************************************************************)
(* Every step of the producers, handlers and replay goroutines keeps the   *)
(* invariant of the types; Store and Snapshot by the lemmas of the ring.   *)
(***************************************************************************)
LEMMA NextTypeInv == TypeInv /\ [Next]_vars => TypeInv'
<1> SUFFICES ASSUME TypeInv, [Next]_vars PROVE TypeInv'
  OBVIOUS
<1>0. TypeOK /\ RingInv /\ Busy /\ Fanning
  BY DEF TypeInv
<1>1. RingTyped(Event)
  BY <1>0 DEF TypeOK, RingTyped
<1>2. ASSUME UNCHANGED ringVars PROVE RingTyped(Event)' /\ RingInv'
  BY <1>0, <1>1, <1>2 DEF ringVars, RingTyped, RingInv, Origin, Slots
<1>3. ASSUME NEW p \in Producer, NEW store \in BOOLEAN, SendBegin(p, store) PROVE TypeInv'
  <2>1. sev'[p] \in Event /\ bcastCount' \in 0 .. MaxEvents
    <3>1. Sending \subseteq 1 .. MaxEvents
      BY <1>0 DEF Busy, Event, Sending
    <3> QED
      BY <1>0, <1>3, <3>1, HubAssumption DEF SendBegin, TypeOK, Event
  <2>2. RingTyped(Event)' /\ RingInv'
    BY <1>2, <1>3 DEF SendBegin
  <2>3. TypeOK'
    BY <1>0, <1>3, <2>1, <2>2 DEF SendBegin, TypeOK, RingTyped, fanVars, connVars, playVars
  <2>4. Busy'
    BY <1>0, <1>3, <2>1 DEF SendBegin, Busy, TypeOK
  <2>5. Fanning'
    BY <1>0, <1>3 DEF SendBegin, Fanning, TypeOK, fanVars
  <2> QED
    BY <2>2, <2>3, <2>4, <2>5 DEF TypeInv
<1>4. ASSUME NEW p \in Producer, SendLocked(p) PROVE TypeInv'
  <2>1. RingTyped(Event)' /\ RingInv'
    <3>1. CASE sev[p].store
      BY <1>0, <1>1, <1>4, <3>1, StoreOK DEF SendLocked, Busy
    <3>2. CASE ~sev[p].store
      BY <1>2, <1>4, <3>2 DEF SendLocked
    <3> QED
      BY <3>1, <3>2
  <2>2. offered' \in Nat
    <3>1. Cardinality(clients) \in Nat /\ offered \in Nat
      BY <1>0, ClientCount DEF TypeOK
    <3> QED
      BY <1>4, <3>1 DEF SendLocked
  <2>3. TypeOK'
    BY <1>0, <1>4, <2>1, <2>2 DEF SendLocked, TypeOK, RingTyped, connVars, playVars
  <2>4. Busy'
    BY <1>0, <1>4 DEF SendLocked, Busy, TypeOK
  <2>5. Fanning'
    BY <1>0, <1>4 DEF SendLocked, Fanning, TypeOK
  <2> QED
    BY <2>1, <2>3, <2>4, <2>5 DEF TypeInv
<1>5. ASSUME NEW p \in Producer, NEW c \in Client, SendTo(p, c) PROVE TypeInv'
  <2>1. RingTyped(Event)' /\ RingInv'
    BY <1>2, <1>5 DEF SendTo
  <2>2. sev[p] \in Event /\ Live(sev[p]) \in Frame
    BY <1>0, <1>5 DEF SendTo, Busy, Fanning, Live, Frame
  <2>3. Append(queue[c], Live(sev[p])) \in Seq(Frame)
    BY <1>0, <2>2, AppendProperties DEF TypeOK
  <2>4. /\ queue' \in [Client -> Seq(Frame)]
        /\ dropped' \in [Client -> SUBSET Event]
        /\ targets' \in [Producer -> SUBSET Client]
        /\ deliverCount' \in Nat /\ dropCount' \in Nat
    <3>1. queue' \in [Client -> Seq(Frame)]
      BY <1>0, <1>5, <2>3 DEF SendTo, TypeOK
    <3>2. dropped[c] \cup {sev[p]} \in SUBSET Event /\ targets[p] \ {c} \in SUBSET Client
      BY <1>0, <2>2 DEF TypeOK
    <3>3. dropped' \in [Client -> SUBSET Event] /\ targets' \in [Producer -> SUBSET Client]
      <4>1. \/ dropped' = dropped
            \/ dropped' = [dropped EXCEPT ![c] = dropped[c] \cup {sev[p]}]
        BY <1>5 DEF SendTo
      <4>2. targets' = [targets EXCEPT ![p] = targets[p] \ {c}]
        BY <1>5 DEF SendTo
      <4>3. dropped \in [Client -> SUBSET Event] /\ targets \in [Producer -> SUBSET Client]
        BY <1>0 DEF TypeOK
      <4>4. dropped' \in [Client -> SUBSET Event]
        BY <3>2, <4>1, <4>3
      <4> QED
        BY <3>2, <4>2, <4>3, <4>4
    <3>4. deliverCount' \in Nat /\ dropCount' \in Nat
      BY SMTT(30), <1>0, <1>5 DEF SendTo, TypeOK
    <3> QED
      BY <3>1, <3>3, <3>4
  <2>5. TypeOK'
    BY <1>0, <1>5, <2>1, <2>4 DEF SendTo, TypeOK, RingTyped, sendVars, connVars, playVars
  <2>6. Busy'
    BY <1>0, <1>5 DEF SendTo, Busy, sendVars
  <2>7. Fanning'
    BY <1>0, <1>5 DEF SendTo, Fanning, TypeOK, sendVars
  <2> QED
    BY <2>1, <2>5, <2>6, <2>7 DEF TypeInv
<1>6. ASSUME NEW p \in Producer, SendEnd(p) PROVE TypeInv'
  <2>1. RingTyped(Event)' /\ RingInv'
    BY <1>2, <1>6 DEF SendEnd
  <2>2. TypeOK'
    BY <1>0, <1>6, <2>1 DEF SendEnd, TypeOK, RingTyped, fanVars, connVars, playVars
  <2>3. Busy'
    BY <1>0, <1>6 DEF SendEnd, Busy, TypeOK
  <2>4. Fanning'
    BY <1>0, <1>6 DEF SendEnd, Fanning, TypeOK, fanVars
  <2> QED
    BY <2>1, <2>2, <2>3, <2>4 DEF TypeInv
\* The steps of the handler and of the replay leave the producers alone.
<1>7. ASSUME UNCHANGED <<ringVars, sendVars, fanVars>>, TypeOK' PROVE TypeInv'
  <2>1. RingInv'
    BY <1>2, <1>7
  <2>2. Busy'
    BY <1>0, <1>7 DEF Busy, sendVars
  <2>3. Fanning'
    BY <1>0, <1>7 DEF Fanning, sendVars, fanVars
  <2> QED
    BY <1>7, <2>1, <2>2, <2>3 DEF TypeInv
<1>8. ASSUME UNCHANGED ringVars
      PROVE  (/\ ring \in [Slots -> Event \cup {NoEvent}]
              /\ ringHead \in Slots /\ ringFilled \in BOOLEAN
              /\ stored \in Seq(Event))'
  BY <1>2, <1>8 DEF RingTyped
<1>9. ASSUME NEW c \in Client, Serving(c) PROVE TypeInv'
  <2>1. CASE Register(c)
    <3>1. Len(stored) \in Nat
      BY <1>0 DEF TypeOK
    <3>2. TypeOK'
      BY <1>0, <1>8, <2>1, <3>1 DEF Register, TypeOK, sendVars, fanVars
    <3> QED
      BY <1>7, <2>1, <3>2 DEF Register
  <2>2. CASE ReaderEnd(c)
    <3>1. TypeOK'
      BY <1>0, <1>8, <2>2 DEF ReaderEnd, TypeOK, sendVars, fanVars, playVars
    <3> QED
      BY <1>7, <2>2, <3>1 DEF ReaderEnd
  <2>3. CASE WriterDone(c)
    <3>1. TypeOK'
      BY <1>0, <1>8, <2>3 DEF WriterDone, TypeOK, sendVars, fanVars, playVars
    <3> QED
      BY <1>7, <2>3, <3>1 DEF WriterDone
  <2>4. CASE WriterTake(c)
    <3>1. <<Head(queue[c])>> \in Seq(Frame) /\ Tail(queue[c]) \in Seq(Frame)
      BY <1>0, <2>4, HeadTailProperties DEF WriterTake, TypeOK
    <3>2. TypeOK'
      BY <1>0, <1>8, <2>4, <3>1 DEF WriterTake, TypeOK, sendVars, fanVars, playVars
    <3> QED
      BY <1>7, <2>4, <3>2 DEF WriterTake
  <2>5. CASE WriterWrite(c)
    <3>1. written[c] \o hand[c] \in Seq(Frame) /\ <<>> \in Seq(Frame)
      BY <1>0, ConcatProperties, EmptySeq DEF TypeOK
    <3>2. TypeOK'
      BY <1>0, <1>8, <2>5, <3>1 DEF WriterWrite, TypeOK, sendVars, fanVars, playVars
    <3> QED
      BY <1>7, <2>5, <3>2 DEF WriterWrite
  <2>6. CASE WriterFail(c)
    <3>1. TypeOK'
      BY <1>0, <1>8, <2>6, EmptySeq DEF WriterFail, TypeOK, sendVars, fanVars, playVars
    <3> QED
      BY <1>7, <2>6, <3>1 DEF WriterFail
  <2>7. CASE Unregister(c)
    <3>1. TypeOK'
      BY <1>0, <1>8, <2>7 DEF Unregister, TypeOK, sendVars, fanVars, playVars
    <3> QED
      BY <1>7, <2>7, <3>1 DEF Unregister
  <2>8. CASE CloseConn(c)
    <3>1. TypeOK'
      BY <1>0, <1>8, <2>8 DEF CloseConn, TypeOK, sendVars, fanVars, playVars
    <3> QED
      BY <1>7, <2>8, <3>1 DEF CloseConn
  <2> QED
    BY <1>9, <2>1, <2>2, <2>3, <2>4, <2>5, <2>6, <2>7, <2>8 DEF Serving
<1>10. ASSUME NEW c \in Client, Replaying(c) PROVE TypeInv'
  <2>1. CASE ReplaySnapshot(c)
    <3>1. Snapshot \in Seq(Event) /\ Len(stored) \in Nat
      BY <1>0, <1>1, SnapshotOK DEF TypeOK
    <3>2. TypeOK'
      BY <1>0, <1>8, <2>1, <3>1 DEF ReplaySnapshot, TypeOK, sendVars, fanVars, connVars
    <3> QED
      BY <1>7, <2>1, <3>2 DEF ReplaySnapshot
  <2>2. CASE ReplaySend(c)
    <3>1. Head(backlog[c]) \in Event /\ Tail(backlog[c]) \in Seq(Event)
      BY <1>0, <2>2, HeadTailProperties DEF ReplaySend, TypeOK
    <3>2. Append(queue[c], Replayed(Head(backlog[c]))) \in Seq(Frame)
      <4>1. Replayed(Head(backlog[c])) \in Frame
        BY <3>1 DEF Replayed, Frame
      <4> QED
        BY <1>0, <4>1, AppendProperties DEF TypeOK
    <3>3. TypeOK'
      BY <1>0, <1>8, <2>2, <3>1, <3>2 DEF ReplaySend, TypeOK, sendVars, fanVars, connVars
    <3> QED
      BY <1>7, <2>2, <3>3 DEF ReplaySend
  <2>3. CASE ReplayAbort(c)
    <3>1. TypeOK'
      BY <1>0, <1>8, <2>3, EmptySeq DEF ReplayAbort, TypeOK, sendVars, fanVars, connVars
    <3> QED
      BY <1>7, <2>3, <3>1 DEF ReplayAbort
  <2>4. CASE ReplayFinish(c)
    <3>1. TypeOK'
      BY <1>0, <1>8, <2>4 DEF ReplayFinish, TypeOK, sendVars, fanVars, connVars
    <3> QED
      BY <1>7, <2>4, <3>1 DEF ReplayFinish
  <2> QED
    BY <1>10, <2>1, <2>2, <2>3, <2>4 DEF Replaying
<1>11. ASSUME UNCHANGED vars PROVE TypeInv'
  <2>1. TypeOK'
    BY <1>0, <1>8, <1>11 DEF vars, TypeOK, sendVars, fanVars, connVars, playVars
  <2> QED
    BY <1>7, <1>11, <2>1 DEF vars
<1> QED
  BY <1>3, <1>4, <1>5, <1>6, <1>9, <1>10, <1>11 DEF Next, Producing

(***************************************************************************)
(* Type correctness of the hub, together with where every slot of the ring *)
(* comes from.                                                             *)
(***************************************************************************)
THEOREM TypeCorrect == Spec => [](TypeOK /\ RingInv /\ Busy)
<1>1. Init => TypeInv
  BY InitTypeInv
<1>2. TypeInv /\ [Next]_vars => TypeInv'
  BY NextTypeInv
<1> QED
  BY <1>1, <1>2, PTL DEF Spec, TypeInv

(***************************************************************************)
(* What a new connection is replayed is always the recent history: however *)
(* sends and snapshots interleave, the ring of hub.go loses, repeats and   *)
(* reorders nothing, for every size of ring.                               *)
(***************************************************************************)
THEOREM RingCorrect == Spec => []RingHoldsRecentHistory
<1>1. TypeOK /\ RingInv => RingHoldsRecentHistory
  BY SnapshotOK DEF TypeOK, RingTyped, RingHoldsRecentHistory
<1> QED
  BY <1>1, TypeCorrect, PTL

-----------------------------------------------------------------------------
(***************************************************************************)
(* There is no gap between replay and live delivery.                       *)
(***************************************************************************)

\* The events of a sequence of frames.
Evs(s) == {s[i].ev : i \in DOMAIN s}

\* The events of a connection's stream.
Got(c) == Evs(written[c]) \cup Evs(hand[c]) \cup Evs(queue[c]) \cup Range(backlog[c])

Settled(c, e) == e \in Got(c) \/ e \in dropped[c] \/ Offering(c, e)

(***************************************************************************)
(* Frames put one after the other, and frames taken from the front.        *)
(***************************************************************************)
LEMMA EvsConcat ==
    ASSUME NEW S, NEW s \in Seq(S), NEW t \in Seq(S)
    PROVE  Evs(s \o t) = Evs(s) \cup Evs(t)
<1> DEFINE n == Len(s)
<1>1. /\ DOMAIN s = 1 .. n /\ n \in Nat
      /\ DOMAIN t = 1 .. Len(t) /\ Len(t) \in Nat
      /\ DOMAIN (s \o t) = 1 .. n + Len(t)
      /\ \A i \in 1 .. n + Len(t) : (s \o t)[i] = IF i <= n THEN s[i] ELSE t[i - n]
  <2>1. s \o t \in Seq(S) /\ Len(s \o t) = n + Len(t)
        /\ \A i \in 1 .. n + Len(t) : (s \o t)[i] = IF i <= n THEN s[i] ELSE t[i - n]
    BY ConcatProperties
  <2>2. DOMAIN (s \o t) = 1 .. Len(s \o t)
    BY <2>1, LenProperties
  <2> QED
    BY <2>1, <2>2, LenProperties
<1> HIDE DEF n
<1>2. ASSUME NEW i \in 1 .. n + Len(t) PROVE (s \o t)[i].ev \in Evs(s) \cup Evs(t)
  <2>1. CASE i <= n
    <3>1. i \in DOMAIN s /\ (s \o t)[i] = s[i]
      BY <1>1, <2>1
    <3> QED
      BY <3>1 DEF Evs
  <2>2. CASE i > n
    <3>1. i - n \in DOMAIN t /\ (s \o t)[i] = t[i - n]
      BY <1>1, <2>2
    <3> QED
      BY <3>1 DEF Evs
  <2>3. i <= n \/ i > n
    BY <1>1
  <2> QED
    BY <2>1, <2>2, <2>3
<1>3. ASSUME NEW i \in DOMAIN s PROVE s[i].ev \in Evs(s \o t)
  <2>1. i \in DOMAIN (s \o t) /\ (s \o t)[i] = s[i]
    BY <1>1
  <2> QED
    BY <2>1 DEF Evs
<1>4. ASSUME NEW j \in DOMAIN t PROVE t[j].ev \in Evs(s \o t)
  <2>1. n + j \in DOMAIN (s \o t) /\ (s \o t)[n + j] = t[j]
    BY <1>1
  <2> QED
    BY <2>1 DEF Evs
<1>5. Evs(s \o t) \subseteq Evs(s) \cup Evs(t)
  BY <1>1, <1>2 DEF Evs
<1>6. Evs(s) \subseteq Evs(s \o t) /\ Evs(t) \subseteq Evs(s \o t)
  BY <1>3, <1>4 DEF Evs
<1> QED
  BY <1>5, <1>6

(***************************************************************************)
(* A channel gains the frame that is sent.                                 *)
(***************************************************************************)
LEMMA EvsAppend ==
    ASSUME NEW S, NEW s \in Seq(S), NEW f \in S
    PROVE  Evs(s) \subseteq Evs(Append(s, f)) /\ f.ev \in Evs(Append(s, f))
<1>1. /\ Len(s) \in Nat /\ DOMAIN s = 1 .. Len(s)
      /\ DOMAIN Append(s, f) = 1 .. Len(s) + 1
      /\ \A i \in 1 .. Len(s) : Append(s, f)[i] = s[i]
      /\ Append(s, f)[Len(s) + 1] = f
  BY AppendProperties, LenProperties
<1>2. Len(s) + 1 \in 1 .. Len(s) + 1 /\ 1 .. Len(s) \subseteq 1 .. Len(s) + 1
  BY <1>1
<1> QED
  BY <1>1, <1>2 DEF Evs

(***************************************************************************)
(* The writer loop takes the first frame of the channel.                   *)
(***************************************************************************)
LEMMA EvsTake ==
    ASSUME NEW S, NEW s \in Seq(S), s # <<>>
    PROVE  Evs(s) \subseteq Evs(<<Head(s)>>) \cup Evs(Tail(s))
<1>1. /\ Len(s) \in Nat \ {0} /\ DOMAIN s = 1 .. Len(s)
      /\ Len(Tail(s)) = Len(s) - 1 /\ DOMAIN Tail(s) = 1 .. Len(s) - 1
      /\ \A i \in 1 .. Len(s) - 1 : Tail(s)[i] = s[i + 1]
      /\ Head(s) = s[1]
  BY HeadTailProperties, LenProperties, EmptySeq
<1>2. Head(s).ev \in Evs(<<Head(s)>>)
  <2> DEFINE f == Head(s)
  <2> HIDE DEF f
  <2>1. DOMAIN <<f>> = {1} /\ <<f>>[1] = f
    OBVIOUS
  <2>2. f.ev \in Evs(<<f>>)
    BY <2>1 DEF Evs
  <2> QED
    BY <2>2 DEF f
<1>3. ASSUME NEW i \in DOMAIN s PROVE s[i].ev \in Evs(<<Head(s)>>) \cup Evs(Tail(s))
  <2>1. CASE i = 1
    BY <1>1, <1>2, <2>1
  <2>2. CASE i # 1
    <3>1. i - 1 \in DOMAIN Tail(s) /\ Tail(s)[i - 1] = s[i]
      BY <1>1, <2>2
    <3> QED
      BY <3>1 DEF Evs
  <2> QED
    BY <2>1, <2>2
<1> QED
  BY <1>3 DEF Evs

(***************************************************************************)
(* The replay loses from its backlog the event it sends.                   *)
(***************************************************************************)
LEMMA RangeTake ==
    ASSUME NEW S, NEW s \in Seq(S), s # <<>>
    PROVE  Range(s) \subseteq {Head(s)} \cup Range(Tail(s))
<1>1. /\ Len(s) \in Nat \ {0} /\ DOMAIN s = 1 .. Len(s)
      /\ Len(Tail(s)) = Len(s) - 1 /\ DOMAIN Tail(s) = 1 .. Len(s) - 1
      /\ \A i \in 1 .. Len(s) - 1 : Tail(s)[i] = s[i + 1]
      /\ Head(s) = s[1]
  BY HeadTailProperties, LenProperties, EmptySeq
<1>2. ASSUME NEW i \in DOMAIN s PROVE s[i] \in {Head(s)} \cup Range(Tail(s))
  <2>1. CASE i = 1
    BY <1>1, <2>1
  <2>2. CASE i # 1
    <3>1. i - 1 \in DOMAIN Tail(s) /\ Tail(s)[i - 1] = s[i]
      BY <1>1, <2>2
    <3> QED
      BY <3>1 DEF Range
  <2> QED
    BY <2>1, <2>2
<1> QED
  BY <1>2 DEF Range

(***************************************************************************)
(* The stream of a connection has the events that were written, are in the *)
(* writer's hand, in the channel or in the backlog.                        *)
(***************************************************************************)
LEMMA StreamHas ==
    ASSUME TypeOK, NEW c \in Client, NEW e
    PROVE  InStream(c, e) <=> e \in Got(c)
<1>1. written[c] \in Seq(Frame) /\ hand[c] \in Seq(Frame) /\ queue[c] \in Seq(Frame)
      /\ backlog[c] \in Seq(Event)
  BY DEF TypeOK
<1> DEFINE r == ReplayFrames(backlog[c])
<1>2. r \in Seq(Frame) /\ Evs(r) = Range(backlog[c])
  <2>1. DOMAIN backlog[c] = 1 .. Len(backlog[c]) /\ Len(backlog[c]) \in Nat
        /\ \A i \in DOMAIN backlog[c] : backlog[c][i] \in Event
    BY <1>1, LenProperties, ElementOfSeq
  <2>2. \A i \in DOMAIN backlog[c] : Replayed(backlog[c][i]) \in Frame
                                     /\ Replayed(backlog[c][i]).ev = backlog[c][i]
    BY <2>1 DEF Replayed, Frame
  <2>3. r = [i \in 1 .. Len(backlog[c]) |-> Replayed(backlog[c][i])]
    BY <2>1 DEF ReplayFrames
  <2>4. r \in [1 .. Len(backlog[c]) -> Frame]
    BY <2>1, <2>2, <2>3
  <2>5. r \in Seq(Frame)
    BY <2>1, <2>4
  <2>6. DOMAIN r = DOMAIN backlog[c] /\ \A i \in DOMAIN backlog[c] : r[i].ev = backlog[c][i]
    BY <2>1, <2>2, <2>3
  <2> HIDE DEF r
  <2>7. Evs(r) = Range(backlog[c])
    BY <2>6 DEF Evs, Range
  <2> QED
    BY <2>5, <2>7
<1> DEFINE a == written[c] \o hand[c]
           b == a \o queue[c]
<1>3. Stream(c) = b \o r
  BY DEF Stream
<1>4. a \in Seq(Frame) /\ Evs(a) = Evs(written[c]) \cup Evs(hand[c])
  BY <1>1, ConcatProperties, EvsConcat
<1> HIDE DEF a, r
<1>5. b \in Seq(Frame) /\ Evs(b) = Evs(a) \cup Evs(queue[c])
  BY <1>1, <1>4, ConcatProperties, EvsConcat
<1> HIDE DEF b
<1>6. Evs(b \o r) = Evs(b) \cup Evs(r)
  BY <1>2, <1>5, EvsConcat
<1>7. Evs(Stream(c)) = Got(c)
  BY <1>2, <1>3, <1>4, <1>5, <1>6 DEF Got
<1> QED
  BY <1>7 DEF InStream, Evs
-----------------------------------------------------------------------------
(***************************************************************************)
(* NoGap is not inductive: of the time before the snapshot it says         *)
(* nothing.  What was stored since the connection registered is settled,   *)
(* also before it has its snapshot; the snapshot comes after that, so what *)
(* it holds and what was stored later meet without a gap.                  *)
(***************************************************************************)
Shape(c) ==
    /\ hpc[c] # "writing" => hand[c] = <<>>
    /\ hpc[c] = "new" => replay[c] = "none"
    /\ replay[c] \in {"none", "start"} => backlog[c] = <<>>
    /\ hpc[c] \in {"serving", "writing"} => c \in clients
    /\ regAt[c] <= Len(stored)

SinceRegister(c) ==
    \A i \in 1 .. Len(stored) : i > regAt[c] => Settled(c, stored[i])

InSnapshot(c) ==
    /\ regAt[c] <= snapAt[c] /\ snapAt[c] <= Len(stored)
    /\ \A i \in 1 .. snapAt[c] : i > snapAt[c] - RingSize => stored[i] \in Got(c)

ConnInv(c) ==
    /\ Shape(c)
    /\ Intact(c) => SinceRegister(c)
    /\ Intact(c) /\ HasSnapshot(c) => InSnapshot(c)

GapInv == \A c \in Client : ConnInv(c)

(***************************************************************************)
(* It closes the gap.                                                      *)
(***************************************************************************)
LEMMA GapClosed == TypeOK /\ GapInv => NoGap
<1> SUFFICES ASSUME TypeOK, GapInv, NEW c \in Client, Intact(c), HasSnapshot(c),
                    NEW i \in 1 .. Len(stored), i > snapAt[c] - RingSize
             PROVE  \/ InStream(c, stored[i])
                    \/ stored[i] \in dropped[c]
                    \/ Offering(c, stored[i])
  BY DEF NoGap
<1>1. regAt[c] \in Nat /\ snapAt[c] \in Nat /\ Len(stored) \in Nat
  BY DEF TypeOK
<1>2. SinceRegister(c) /\ InSnapshot(c)
  BY DEF GapInv, ConnInv
<1>3. CASE i <= snapAt[c]
  BY <1>1, <1>2, <1>3, StreamHas DEF InSnapshot
<1>4. CASE i > snapAt[c]
  <2>1. Settled(c, stored[i])
    BY <1>1, <1>2, <1>4 DEF InSnapshot, SinceRegister
  <2> QED
    BY <2>1, StreamHas DEF Settled
<1> QED
  BY <1>1, <1>3, <1>4

(***************************************************************************)
(* A step that stores nothing keeps what is known of a connection if it    *)
(* leaves whatever was settled settled.                                    *)
(***************************************************************************)
LEMMA Keep ==
    ASSUME NEW c \in Client, ConnInv(c), Shape(c)',
           stored' = stored, regAt'[c] = regAt[c],
           Intact(c)' => /\ Intact(c)
                         /\ Got(c) \subseteq Got(c)'
                         /\ \A e : Settled(c, e) => Settled(c, e)',
           Intact(c)' /\ HasSnapshot(c)' => HasSnapshot(c) /\ snapAt'[c] = snapAt[c]
    PROVE  ConnInv(c)'
<1>1. ASSUME Intact(c)' PROVE SinceRegister(c)'
  <2>1. Intact(c) /\ SinceRegister(c) /\ \A e : Settled(c, e) => Settled(c, e)'
    BY <1>1 DEF ConnInv
  <2> QED
    BY <2>1 DEF SinceRegister
<1>2. ASSUME Intact(c)', HasSnapshot(c)' PROVE InSnapshot(c)'
  <2>1. InSnapshot(c) /\ Got(c) \subseteq Got(c)' /\ snapAt'[c] = snapAt[c]
    BY <1>2 DEF ConnInv
  <2> QED
    BY <2>1 DEF InSnapshot
<1> QED
  BY <1>1, <1>2 DEF ConnInv

(***************************************************************************)
(* The same for a step that does not touch the connection.                 *)
(***************************************************************************)
LEMMA KeepOther ==
    ASSUME NEW c \in Client, ConnInv(c),
           UNCHANGED <<stored, hpc[c], hand[c], queue[c], written[c], backlog[c], replay[c],
                       done[c], dropped[c], regAt[c], snapAt[c]>>,
           c \in clients => c \in clients',
           \A e : Offering(c, e) => Offering(c, e)'
    PROVE  ConnInv(c)'
<1>1. Got(c)' = Got(c)
  BY DEF Got
<1>2. \A e : Settled(c, e) => Settled(c, e)'
  BY <1>1 DEF Settled
<1>3. Shape(c)'
  BY DEF ConnInv, Shape
<1>4. (Intact(c)' => Intact(c)) /\ (HasSnapshot(c)' => HasSnapshot(c))
  BY DEF Intact, HasSnapshot
<1> QED
  BY <1>1, <1>2, <1>3, <1>4, Keep

(***************************************************************************)
(* Nothing is missing before anything was sent.                            *)
(***************************************************************************)
LEMMA InitGapInv == Init => GapInv
<1> SUFFICES ASSUME Init, NEW c \in Client PROVE ConnInv(c)
  BY DEF GapInv
<1>1. hpc[c] = "new" /\ replay[c] = "none" /\ hand[c] = <<>> /\ backlog[c] = <<>>
      /\ regAt[c] = 0 /\ stored = <<>>
  BY DEF Init, NoFrames, Nowhere, RingInit
<1>2. Shape(c)
  BY <1>1 DEF Shape
<1>3. ~Intact(c)
  BY <1>1 DEF Intact
<1> QED
  BY <1>2, <1>3 DEF ConnInv
-----------------------------------------------------------------------------
(***************************************************************************)
(* The steps of a broadcast.  The critical section stores an event and, in *)
(* the same step, targets every registered connection.                     *)
(***************************************************************************)
LEMMA ProducingGapInv ==
    ASSUME TypeInv, GapInv, NEW p \in Producer, Producing(p)
    PROVE  GapInv'
<1>0. TypeOK /\ Fanning /\ \A c \in Client : ConnInv(c)
  BY DEF TypeInv, GapInv
<1>1. ASSUME NEW store \in BOOLEAN, SendBegin(p, store) PROVE GapInv'
  <2>1. targets[p] = {} /\ targets' = targets
        /\ \A q \in Producer : q # p => spc'[q] = spc[q] /\ sev'[q] = sev[q]
    BY <1>0, <1>1 DEF SendBegin, Fanning, fanVars, TypeOK
  <2>2. ASSUME NEW c \in Client PROVE ConnInv(c)'
    <3>1. \A e : Offering(c, e) => Offering(c, e)'
      BY <2>1 DEF Offering
    <3> QED
      BY <1>0, <1>1, <3>1, KeepOther DEF SendBegin, ringVars, fanVars, connVars, playVars
  <2> QED
    BY <2>2 DEF GapInv
<1>2. ASSUME SendLocked(p) PROVE GapInv'
  <2>1. /\ spc[p] = "counted" /\ targets[p] = {} /\ targets'[p] = clients /\ sev' = sev
        /\ \A q \in Producer : q # p => spc'[q] = spc[q] /\ targets'[q] = targets[q]
        /\ spc'[p] = "fanout"
    BY <1>0, <1>2 DEF SendLocked, Fanning, TypeOK
  <2>2. ASSUME NEW c \in Client PROVE ConnInv(c)'
    <3>1. UNCHANGED <<clients, hpc, hand, queue, written, backlog, replay, done, dropped, regAt,
                      snapAt>>
      BY <1>2 DEF SendLocked, connVars, playVars
    <3>2. \A e : Offering(c, e) => Offering(c, e)'
      BY <2>1 DEF Offering
    <3>3. CASE stored' = stored
      BY <1>0, <3>1, <3>2, <3>3, KeepOther
    <3>4. CASE stored' = Append(stored, sev[p])
      <4>1. /\ Len(stored) \in Nat /\ Len(stored') = Len(stored) + 1
            /\ stored'[Len(stored) + 1] = sev[p]
            /\ \A i \in 1 .. Len(stored) : stored'[i] = stored[i]
        BY <1>0, <3>4 DEF TypeOK
      <4>2. regAt[c] \in Nat /\ snapAt[c] \in Nat
        BY <1>0 DEF TypeOK
      <4>3. Shape(c)'
        BY <1>0, <3>1, <4>1, <4>2 DEF ConnInv, Shape
      <4>4. Got(c)' = Got(c) /\ Intact(c)' = Intact(c) /\ HasSnapshot(c)' = HasSnapshot(c)
        BY <3>1 DEF Got, Intact, HasSnapshot
      <4>5. \A e : Settled(c, e) => Settled(c, e)'
        BY <3>1, <3>2, <4>4 DEF Settled
      <4>6. ASSUME Intact(c) PROVE SinceRegister(c)'
        <5>1. c \in targets'[p]
          BY <1>0, <2>1, <4>6 DEF ConnInv, Shape, Intact
        <5>2. \A e : e = sev[p] => Settled(c, e)'
          BY <2>1, <5>1 DEF Settled, Offering
        <5>3. ASSUME NEW i \in 1 .. Len(stored'), i > regAt[c], NEW e, e = stored'[i]
              PROVE  Settled(c, e)'
          <6>1. CASE i = Len(stored) + 1
            BY <4>1, <5>2, <5>3, <6>1
          <6>2. CASE i \in 1 .. Len(stored)
            <7>1. e = stored[i] /\ Settled(c, stored[i])
              BY <1>0, <4>1, <4>6, <5>3, <6>2 DEF ConnInv, SinceRegister
            <7> QED
              BY <4>5, <7>1
          <6> QED
            BY <4>1, <5>3, <6>1, <6>2
        <5> QED
          BY <3>1, <5>3 DEF SinceRegister
      <4>7. ASSUME Intact(c), HasSnapshot(c) PROVE InSnapshot(c)'
        <5>1. InSnapshot(c)
          BY <1>0, <4>7 DEF ConnInv
        <5>2. \A i \in 1 .. snapAt[c] : stored'[i] = stored[i]
          BY <4>1, <4>2, <5>1 DEF InSnapshot
        <5> QED
          BY <3>1, <4>1, <4>2, <4>4, <5>1, <5>2 DEF InSnapshot
      <4> QED
        BY <4>3, <4>4, <4>6, <4>7 DEF ConnInv
    <3> QED
      BY <1>2, <3>3, <3>4 DEF SendLocked, Store, ringVars
  <2> QED
    BY <2>2 DEF GapInv
<1>3. ASSUME NEW d \in Client, SendTo(p, d) PROVE GapInv'
  <2>1. /\ targets' = [targets EXCEPT ![p] = targets[p] \ {d}]
        /\ UNCHANGED <<stored, clients, spc, sev, hpc, hand, written, backlog, replay, done, regAt,
                       snapAt>>
    BY <1>3 DEF SendTo, ringVars, sendVars, connVars, playVars
  <2>2. ASSUME NEW c \in Client, c # d PROVE ConnInv(c)'
    <3>1. queue'[c] = queue[c] /\ dropped'[c] = dropped[c]
      BY <1>0, <1>3, <2>2 DEF SendTo, TypeOK
    <3>2. \A e : Offering(c, e) => Offering(c, e)'
      BY <1>0, <2>1, <2>2 DEF Offering, TypeOK
    <3> QED
      BY <1>0, <2>1, <3>1, <3>2, KeepOther
  <2>3. ConnInv(d)'
    <3>1. /\ Evs(queue[d]) \subseteq Evs(queue'[d]) /\ dropped[d] \subseteq dropped'[d]
          /\ sev[p] \in Evs(queue'[d]) \cup dropped'[d]
      <4>1. CASE queue' = [queue EXCEPT ![d] = Append(queue[d], Live(sev[p]))] /\ dropped' = dropped
        <5>1. queue[d] \in Seq(Frame) /\ Live(sev[p]) \in Frame /\ Live(sev[p]).ev = sev[p]
          BY <1>0, <1>3 DEF SendTo, TypeInv, Busy, Fanning, TypeOK, Live, Frame
        <5>2. queue'[d] = Append(queue[d], Live(sev[p]))
          BY <1>0, <4>1 DEF TypeOK
        <5> QED
          BY <4>1, <5>1, <5>2, EvsAppend
      <4>2. CASE queue' = queue /\ dropped' = [dropped EXCEPT ![d] = dropped[d] \cup {sev[p]}]
        <5>1. dropped'[d] = dropped[d] \cup {sev[p]}
          BY <1>0, <4>2 DEF TypeOK
        <5> QED
          BY <4>2, <5>1
      <4> QED
        BY <1>3, <4>1, <4>2 DEF SendTo
    <3>2. Got(d) \subseteq Got(d)'
      BY <2>1, <3>1 DEF Got
    <3>3. ASSUME NEW e, Settled(d, e) PROVE Settled(d, e)'
      <4>1. CASE e = sev[p]
        BY <3>1, <4>1 DEF Settled, Got
      <4>2. CASE e # sev[p]
        <5>1. Offering(d, e) => Offering(d, e)'
          BY <1>0, <2>1, <4>2 DEF Offering, TypeOK
        <5> QED
          BY <3>1, <3>2, <3>3, <5>1 DEF Settled
      <4> QED
        BY <4>1, <4>2
    <3>4. Shape(d)'
      BY <1>0, <2>1 DEF ConnInv, Shape
    <3>5. (Intact(d)' => Intact(d)) /\ (HasSnapshot(d)' => HasSnapshot(d))
      BY <2>1 DEF Intact, HasSnapshot
    <3> QED
      BY <1>0, <2>1, <3>2, <3>3, <3>4, <3>5, Keep
  <2> QED
    BY <2>2, <2>3 DEF GapInv
<1>4. ASSUME SendEnd(p) PROVE GapInv'
  <2>1. /\ targets[p] = {} /\ targets' = targets /\ sev' = sev
        /\ \A q \in Producer : q # p => spc'[q] = spc[q]
    BY <1>0, <1>4 DEF SendEnd, fanVars, TypeOK
  <2>2. ASSUME NEW c \in Client PROVE ConnInv(c)'
    <3>1. \A e : Offering(c, e) => Offering(c, e)'
      BY <2>1 DEF Offering
    <3> QED
      BY <1>0, <1>4, <3>1, KeepOther DEF SendEnd, ringVars, fanVars, connVars, playVars
  <2> QED
    BY <2>2 DEF GapInv
<1> QED
  BY <1>1, <1>2, <1>3, <1>4 DEF Producing

(***************************************************************************)
(* The steps of the handler: a connection registers before anything is     *)
(* owed to it, frames go from the channel through the writer's hand to the *)
(* peer, and what is lost is lost with the connection.                     *)
(***************************************************************************)
LEMMA ServingGapInv ==
    ASSUME TypeInv, GapInv, NEW d \in Client, Serving(d)
    PROVE  GapInv'
<1>0. TypeOK /\ \A c \in Client : ConnInv(c)
  BY DEF TypeInv, GapInv
<1>1. UNCHANGED <<stored, spc, sev, targets, dropped, backlog, snapAt>>
  BY DEF Serving, Register, ReaderEnd, WriterDone, WriterTake, WriterWrite, WriterFail,
         Unregister, CloseConn, ringVars, sendVars, fanVars, playVars
<1>2. \A c \in Client : \A e : Offering(c, e) => Offering(c, e)'
  BY <1>1 DEF Offering
<1>3. ASSUME NEW c \in Client, c # d PROVE ConnInv(c)'
  <2>1. c \in clients => c \in clients'
    BY <1>3 DEF Serving, Register, ReaderEnd, WriterDone, WriterTake, WriterWrite, WriterFail,
         Unregister, CloseConn
  <2>2. UNCHANGED <<hpc[c], hand[c], queue[c], written[c], replay[c], done[c], regAt[c]>>
    BY SMTT(30), <1>0, <1>3 DEF Serving, Register, ReaderEnd, WriterDone, WriterTake, WriterWrite, WriterFail,
         Unregister, CloseConn, playVars, TypeOK
  <2> QED
    BY <1>0, <1>1, <1>2, <2>1, <2>2, KeepOther
<1>4. ConnInv(d)'
  <2>0. ConnInv(d) /\ Shape(d)
    BY <1>0 DEF ConnInv
  <2>1. CASE Register(d)
    <3>1. /\ hpc[d] = "new" /\ hpc'[d] = "serving" /\ replay'[d] = "start" /\ d \in clients'
          /\ regAt'[d] = Len(stored) /\ UNCHANGED <<hand, backlog, stored>>
      BY <1>0, <1>1, <2>1 DEF Register, TypeOK
    <3>2. hand[d] = <<>> /\ Len(stored) \in Nat
      BY <1>0, <2>0, <3>1 DEF Shape, TypeOK
    <3>3. backlog[d] = <<>>
      BY <2>0, <3>1 DEF Shape
    <3>4. Shape(d)'
      BY <3>1, <3>2, <3>3 DEF Shape
    <3>5. SinceRegister(d)' /\ ~HasSnapshot(d)'
      BY <3>1, <3>2 DEF SinceRegister, HasSnapshot
    <3> QED
      BY <3>4, <3>5 DEF ConnInv
  <2>2. CASE ReaderEnd(d)
    <3>1. ~Intact(d)'
      BY <1>0, <2>2 DEF ReaderEnd, Intact, TypeOK
    <3>2. Shape(d)'
      BY <1>1, <2>0, <2>2 DEF ReaderEnd, Shape, playVars
    <3> QED
      BY <3>1, <3>2 DEF ConnInv
  <2>3. CASE WriterDone(d) \/ WriterFail(d) \/ Unregister(d) \/ CloseConn(d)
    <3>1. /\ hpc'[d] \in {"leaving", "unregistered", "closed"} /\ hand'[d] = <<>>
          /\ UNCHANGED <<replay, regAt>>
      BY <1>0, <2>0, <2>3 DEF WriterDone, WriterFail, Unregister, CloseConn, playVars, TypeOK, Shape
    <3>2. ~Intact(d)'
      BY <3>1 DEF Intact
    <3>3. Shape(d)'
      BY <1>1, <2>0, <3>1 DEF Shape
    <3> QED
      BY <3>2, <3>3 DEF ConnInv
  <2>4. CASE WriterTake(d)
    <3>1. /\ hpc[d] = "serving" /\ hpc'[d] = "writing" /\ queue[d] # <<>>
          /\ hand'[d] = <<Head(queue[d])>> /\ queue'[d] = Tail(queue[d])
          /\ UNCHANGED <<clients, done, written, replay, regAt>>
      BY <1>0, <2>4 DEF WriterTake, playVars, TypeOK
    <3>2. hand[d] = <<>> /\ Evs(hand[d]) = {}
      BY <2>0, <3>1 DEF Shape, Evs
    <3>3. Evs(queue[d]) \subseteq Evs(hand'[d]) \cup Evs(queue'[d])
      BY <1>0, <3>1, EvsTake DEF TypeOK
    <3>4. Got(d) \subseteq Got(d)'
      BY <1>1, <3>1, <3>2, <3>3 DEF Got
    <3>5. \A e : Settled(d, e) => Settled(d, e)'
      BY <1>1, <1>2, <3>4 DEF Settled
    <3>6. Shape(d)'
      BY <1>1, <2>0, <3>1 DEF Shape
    <3>7. Intact(d)' = Intact(d) /\ HasSnapshot(d)' = HasSnapshot(d)
      BY <3>1 DEF Intact, HasSnapshot
    <3> QED
      BY <1>1, <2>0, <3>1, <3>4, <3>5, <3>6, <3>7, Keep
  <2>5. CASE WriterWrite(d)
    <3>1. /\ hpc[d] = "writing" /\ hpc'[d] = "serving"
          /\ hand'[d] = <<>> /\ written'[d] = written[d] \o hand[d]
          /\ UNCHANGED <<clients, done, queue, replay, regAt>>
      BY <1>0, <2>5 DEF WriterWrite, playVars, TypeOK
    <3>2. Evs(written'[d]) = Evs(written[d]) \cup Evs(hand[d])
      BY <1>0, <3>1, EvsConcat DEF TypeOK
    <3>3. Got(d) \subseteq Got(d)'
      BY <1>1, <3>1, <3>2 DEF Got
    <3>4. \A e : Settled(d, e) => Settled(d, e)'
      BY <1>1, <1>2, <3>3 DEF Settled
    <3>5. Shape(d)'
      BY <1>1, <2>0, <3>1 DEF Shape
    <3>6. Intact(d)' = Intact(d) /\ HasSnapshot(d)' = HasSnapshot(d)
      BY <3>1 DEF Intact, HasSnapshot
    <3> QED
      BY <1>1, <2>0, <3>1, <3>3, <3>4, <3>5, <3>6, Keep
  <2> QED
    BY <2>1, <2>2, <2>3, <2>4, <2>5 DEF Serving
<1> QED
  BY <1>3, <1>4 DEF GapInv

(***************************************************************************)
(* The recent history ends with the last RingSize events.                  *)
(***************************************************************************)
LEMMA RecentHas ==
    ASSUME TypeOK, NEW i \in 1 .. Len(stored), i > Len(stored) - RingSize
    PROVE  stored[i] \in Range(Recent(Len(stored)))
<1> DEFINE n == Len(stored)
           m == IF n > RingSize THEN n - RingSize + 1 ELSE 1
<1>1. n \in Nat /\ RingSize \in Nat \ {0} /\ stored \in Seq(Event)
      /\ \A k \in 1 .. n : stored[k] \in Event
  BY RingSizeAssumption, ElementOfSeq DEF TypeOK
<1>2. m \in 1 .. n /\ i \in m .. n /\ Recent(n) = SubSeq(stored, m, n)
  BY <1>1 DEF Recent
<1> HIDE DEF m, n
<1>3. m \in Int /\ n \in Int /\ \A k \in m .. n : stored[k] \in Event
  BY <1>1, <1>2
<1>4. /\ SubSeq(stored, m, n) \in Seq(Event)
      /\ Len(SubSeq(stored, m, n)) = IF m <= n THEN n - m + 1 ELSE 0
      /\ \A k \in 1 .. n - m + 1 : SubSeq(stored, m, n)[k] = stored[m + k - 1]
  BY <1>3, SubSeqProperties
<1>5. i - m + 1 \in 1 .. n - m + 1 /\ m + (i - m + 1) - 1 = i /\ m <= n
  BY <1>1, <1>2
<1>6. DOMAIN Recent(n) = 1 .. n - m + 1
  BY <1>2, <1>4, <1>5, LenProperties
<1>7. i - m + 1 \in DOMAIN Recent(n) /\ Recent(n)[i - m + 1] = stored[i]
  BY <1>2, <1>4, <1>5, <1>6
<1> QED
  BY <1>7 DEF Range, n

(***************************************************************************)
(* The steps of the replay: its backlog is the recent history, and it goes *)
(* into the channel event by event unless the connection ends.             *)
(***************************************************************************)
LEMMA ReplayingGapInv ==
    ASSUME TypeInv, GapInv, NEW d \in Client, Replaying(d)
    PROVE  GapInv'
<1>0. TypeOK /\ \A c \in Client : ConnInv(c)
  BY DEF TypeInv, GapInv
<1>1. UNCHANGED <<stored, clients, spc, sev, targets, dropped, hpc, hand, done, written, regAt>>
  BY DEF Replaying, ReplaySnapshot, ReplaySend, ReplayAbort, ReplayFinish, ringVars, sendVars,
         fanVars, connVars
<1>2. \A c \in Client : \A e : Offering(c, e) => Offering(c, e)'
  BY <1>1 DEF Offering
<1>3. ASSUME NEW c \in Client, c # d PROVE ConnInv(c)'
  <2>1. UNCHANGED <<queue[c], backlog[c], replay[c], snapAt[c]>>
    BY SMTT(30), <1>0, <1>3
      DEF Replaying, ReplaySnapshot, ReplaySend, ReplayAbort, ReplayFinish, TypeOK
  <2> QED
    BY <1>0, <1>1, <1>2, <2>1, KeepOther
<1>4. ConnInv(d)'
  <2>0. ConnInv(d) /\ Shape(d) /\ Intact(d)' = Intact(d)
    BY <1>0, <1>1 DEF ConnInv, Intact
  <2>1. CASE ReplaySnapshot(d)
    <3>1. /\ replay[d] = "start" /\ replay'[d] = "sending" /\ backlog[d] = <<>>
          /\ backlog'[d] = Snapshot /\ snapAt'[d] = Len(stored) /\ queue' = queue
      BY <1>0, <2>0, <2>1 DEF ReplaySnapshot, TypeOK, Shape
    <3>2. Snapshot = Recent(Len(stored))
      BY <1>0, SnapshotOK DEF TypeInv, TypeOK, RingTyped
    <3>3. Range(backlog[d]) = {}
      BY <3>1 DEF Range
    <3>4. Got(d) \subseteq Got(d)' /\ Range(Recent(Len(stored))) \subseteq Got(d)'
      BY <1>1, <3>1, <3>2, <3>3 DEF Got
    <3>5. \A e : Settled(d, e) => Settled(d, e)'
      BY <1>1, <1>2, <3>4 DEF Settled
    <3>6. Shape(d)'
      BY <1>1, <2>0, <3>1 DEF Shape
    <3>7. Intact(d)' => SinceRegister(d)'
      BY <1>1, <2>0, <3>5 DEF ConnInv, SinceRegister
    <3>8. InSnapshot(d)'
      <4>1. regAt'[d] <= snapAt'[d] /\ snapAt'[d] <= Len(stored')
        BY <1>0, <1>1, <2>0, <3>1 DEF Shape, TypeOK
      <4>2. \A i \in 1 .. Len(stored) : i > Len(stored) - RingSize => stored[i] \in Got(d)'
        BY <1>0, <3>4, RecentHas
      <4>3. \A i \in 1 .. snapAt'[d] : i > snapAt'[d] - RingSize => stored'[i] \in Got(d)'
        BY <1>1, <3>1, <4>2
      <4> QED
        BY <4>1, <4>3 DEF InSnapshot
    <3> QED
      BY <3>6, <3>7, <3>8 DEF ConnInv
  <2>2. CASE ReplaySend(d)
    <3>1. /\ replay' = replay /\ snapAt' = snapAt /\ replay[d] = "sending" /\ backlog[d] # <<>>
          /\ queue'[d] = Append(queue[d], Replayed(Head(backlog[d])))
          /\ backlog'[d] = Tail(backlog[d])
      BY <1>0, <2>2 DEF ReplaySend, TypeOK
    <3>2. Head(backlog[d]) \in Event /\ Range(backlog[d]) \subseteq
                {Head(backlog[d])} \cup Range(backlog'[d])
      BY <1>0, <3>1, HeadTailProperties, RangeTake DEF TypeOK
    <3>3. Evs(queue[d]) \cup {Head(backlog[d])} \subseteq Evs(queue'[d])
      <4> DEFINE f == Replayed(Head(backlog[d]))
      <4>1. f \in Frame /\ f.ev = Head(backlog[d]) /\ queue[d] \in Seq(Frame)
        BY <1>0, <3>2 DEF Replayed, Frame, TypeOK
      <4>2. queue'[d] = Append(queue[d], f)
        BY <3>1
      <4> HIDE DEF f
      <4> QED
        BY <4>1, <4>2, EvsAppend
    <3>4. Got(d) \subseteq Got(d)'
      BY <1>1, <3>2, <3>3 DEF Got
    <3>5. \A e : Settled(d, e) => Settled(d, e)'
      BY <1>1, <1>2, <3>4 DEF Settled
    <3>6. Shape(d)'
      BY <1>1, <2>0, <3>1 DEF Shape
    <3>7. HasSnapshot(d)' = HasSnapshot(d)
      BY <3>1 DEF HasSnapshot
    <3> QED
      BY <1>1, <2>0, <3>1, <3>4, <3>5, <3>6, <3>7, Keep
  <2>3. CASE ReplayAbort(d)
    <3>1. done[d] /\ replay[d] = "sending" /\ replay'[d] = "ended"
      BY <1>0, <2>3 DEF ReplayAbort, TypeOK
    <3>2. ~Intact(d)'
      BY <2>0, <3>1 DEF Intact
    <3>3. Shape(d)'
      BY <1>1, <2>0, <3>1 DEF Shape
    <3> QED
      BY <3>2, <3>3 DEF ConnInv
  <2>4. CASE ReplayFinish(d)
    <3>1. replay[d] = "sending" /\ replay'[d] = "ended" /\ UNCHANGED <<queue, backlog, snapAt>>
      BY <1>0, <2>4 DEF ReplayFinish, TypeOK
    <3>2. Got(d)' = Got(d) /\ HasSnapshot(d)' = HasSnapshot(d)
      BY <1>1, <3>1 DEF Got, HasSnapshot
    <3>3. \A e : Settled(d, e) => Settled(d, e)'
      BY <1>1, <1>2, <3>2 DEF Settled
    <3>4. Shape(d)'
      BY <1>1, <2>0, <3>1 DEF Shape
    <3> QED
      BY <1>1, <2>0, <3>1, <3>2, <3>3, <3>4, Keep
  <2> QED
    BY <2>1, <2>2, <2>3, <2>4 DEF Replaying
<1> QED
  BY <1>3, <1>4 DEF GapInv

(***************************************************************************)
(* Every step keeps it.                                                    *)
(***************************************************************************)
LEMMA NextGapInv == TypeInv /\ GapInv /\ [Next]_vars => GapInv'
<1> SUFFICES ASSUME TypeInv, GapInv, [Next]_vars PROVE GapInv'
  OBVIOUS
<1>1. CASE \E p \in Producer : Producing(p)
  BY <1>1, ProducingGapInv
<1>2. CASE \E c \in Client : Serving(c) \/ Replaying(c)
  BY <1>2, ServingGapInv, ReplayingGapInv
<1>3. CASE UNCHANGED vars
  <2> SUFFICES ASSUME NEW c \in Client PROVE ConnInv(c)'
    BY DEF GapInv
  <2>1. ConnInv(c) /\ \A e : Offering(c, e) => Offering(c, e)'
    BY <1>3 DEF vars, sendVars, fanVars, GapInv, Offering
  <2> QED
    BY <1>3, <2>1, KeepOther DEF vars, ringVars, fanVars, connVars, playVars
<1> QED
  BY <1>1, <1>2, <1>3 DEF Next

(***************************************************************************)
(* No event falls into a gap: a connection gets the recent history of the  *)
(* moment of its snapshot and every event stored later, or has it counted  *)
(* as dropped, however registration, snapshot, broadcasts and the writer   *)
(* interleave (server.go:193-216, hub.go:84-118).                          *)
(***************************************************************************)
THEOREM GapFree == Spec => []NoGap
<1>1. TypeInv /\ GapInv => NoGap
  BY GapClosed DEF TypeInv
<1> QED
  BY <1>1, InitTypeInv, NextTypeInv, InitGapInv, NextGapInv, PTL DEF Spec
-----------------------------------------------------------------------------
(***************************************************************************)
(* The order of the frames on a connection: the live frames of each        *)
(* producer come in order and at most once, the replayed frames are the    *)
(* recent history, and the counters add up.  With these invariants the hub *)
(* implements the abstract feed.                                           *)
(***************************************************************************)
\* t is s with the frame f put behind the first n frames.
Grown(s, t, n, f) ==
    /\ Len(s) \in Nat /\ n \in 0 .. Len(s)
    /\ DOMAIN s = 1 .. Len(s) /\ DOMAIN t = 1 .. Len(s) + 1
    /\ \A i \in 1 .. n : t[i] = s[i]
    /\ t[n + 1] = f
    /\ \A i \in n + 1 .. Len(s) : t[i + 1] = s[i]

\* t is s without the k frames behind the first n.
Cut(s, t, n, k) ==
    /\ Len(s) \in Nat /\ n \in Nat /\ k \in Nat /\ n + k <= Len(s)
    /\ DOMAIN s = 1 .. Len(s) /\ DOMAIN t = 1 .. Len(s) - k
    /\ \A i \in DOMAIN t : t[i] = IF i <= n THEN s[i] ELSE s[i + k]

(***************************************************************************)
(* A frame sent on the channel comes between what was sent before and the  *)
(* rest of the replay.                                                     *)
(***************************************************************************)
LEMMA GrownConcat ==
    ASSUME NEW S, NEW a \in Seq(S), NEW b \in Seq(S), NEW f \in S
    PROVE  Grown(a \o b, Append(a, f) \o b, Len(a), f)
<1> DEFINE s == a \o b
           x == Append(a, f)
           t == x \o b
           n == Len(a)
           m == Len(b)
<1>1. n \in Nat /\ m \in Nat
  BY LenProperties
<1>2. /\ s \in Seq(S) /\ Len(s) = n + m
      /\ \A i \in 1 .. n + m : s[i] = IF i <= n THEN a[i] ELSE b[i - n]
  BY ConcatProperties
<1>3. /\ x \in Seq(S) /\ Len(x) = n + 1 /\ x[n + 1] = f
      /\ \A i \in 1 .. n : x[i] = a[i]
  BY AppendProperties
<1> HIDE DEF x
<1>4. /\ t \in Seq(S) /\ Len(t) = n + 1 + m
      /\ \A i \in 1 .. n + 1 + m : t[i] = IF i <= n + 1 THEN x[i] ELSE b[i - (n + 1)]
  <2>1. /\ t \in Seq(S) /\ Len(t) = Len(x) + Len(b)
        /\ \A i \in 1 .. Len(x) + Len(b) : t[i] = IF i <= Len(x) THEN x[i] ELSE b[i - Len(x)]
    BY <1>3, ConcatProperties
  <2> QED
    BY <1>3, <2>1
<1>5. DOMAIN s = 1 .. n + m /\ DOMAIN t = 1 .. n + m + 1
  BY <1>1, <1>2, <1>4, LenProperties
<1> HIDE DEF s, t, n, m
<1>6. \A i \in 1 .. n : t[i] = s[i]
  BY <1>1, <1>2, <1>3, <1>4
<1>7. t[n + 1] = f
  BY <1>1, <1>3, <1>4
<1>8. \A i \in n + 1 .. n + m : t[i + 1] = s[i]
  <2> TAKE i \in n + 1 .. n + m
  <2>1. i \in Int /\ n + 1 <= i /\ i <= n + m
    BY <1>1
  <2>2. t[i + 1] = b[i + 1 - (n + 1)]
    <3>1. i + 1 \in 1 .. n + 1 + m /\ ~(i + 1 <= n + 1)
      BY <1>1, <2>1
    <3> QED
      BY <1>1, <1>4, <2>1, <3>1
  <2>3. s[i] = b[i - n]
    BY <1>1, <1>2, <2>1
  <2> QED
    BY <1>1, <2>1, <2>2, <2>3
<1> QED
  BY SMTT(30), <1>1, <1>2, <1>5, <1>6, <1>7, <1>8 DEF Grown, s, t, n, x

(***************************************************************************)
(* A failed write takes the frame in the writer's hand away.               *)
(***************************************************************************)
LEMMA CutConcat ==
    ASSUME NEW S, NEW a \in Seq(S), NEW h \in Seq(S), NEW b \in Seq(S)
    PROVE  Cut((a \o h) \o b, a \o b, Len(a), Len(h))
<1> DEFINE x == a \o h
           s == x \o b
           t == a \o b
           n == Len(a)
           k == Len(h)
           m == Len(b)
<1>1. n \in Nat /\ k \in Nat /\ m \in Nat
  BY LenProperties
<1>2. /\ x \in Seq(S) /\ Len(x) = n + k
      /\ \A i \in 1 .. n + k : x[i] = IF i <= n THEN a[i] ELSE h[i - n]
  BY ConcatProperties
<1> HIDE DEF x
<1>3. /\ s \in Seq(S) /\ Len(s) = n + k + m
      /\ \A i \in 1 .. n + k + m : s[i] = IF i <= n + k THEN x[i] ELSE b[i - (n + k)]
  <2>1. /\ s \in Seq(S) /\ Len(s) = Len(x) + Len(b)
        /\ \A i \in 1 .. Len(x) + Len(b) : s[i] = IF i <= Len(x) THEN x[i] ELSE b[i - Len(x)]
    <3>1. x \in Seq(S)
      BY <1>2
    <3> QED
      BY <3>1, ConcatProperties
  <2> HIDE DEF s, t, n, k, m
  <2> QED
    BY <1>1, <1>2, <2>1 DEF m
<1>4. /\ t \in Seq(S) /\ Len(t) = n + m
      /\ \A i \in 1 .. n + m : t[i] = IF i <= n THEN a[i] ELSE b[i - n]
  BY ConcatProperties
<1>5. DOMAIN s = 1 .. n + k + m /\ DOMAIN t = 1 .. n + m
  BY <1>1, <1>3, <1>4, LenProperties
<1> HIDE DEF s, t, n, m, k
<1>6. ASSUME NEW i \in 1 .. n + m PROVE t[i] = IF i <= n THEN s[i] ELSE s[i + k]
  <2>1. i \in Int /\ 1 <= i /\ i <= n + m
    BY <1>1
  <2>2. CASE i <= n
    <3>1. i <= n + k /\ i <= n + k + m
      BY <1>1, <2>1, <2>2
    <3> QED
      BY <1>1, <1>2, <1>3, <1>4, <2>1, <2>2, <3>1
  <2>3. CASE i > n
    <3>1. t[i] = b[i - n]
      BY <1>1, <1>4, <2>1, <2>3
    <3>2. s[i + k] = b[i + k - (n + k)]
      BY SMTT(30), <1>1, <1>3, <2>1, <2>3
    <3> QED
      BY <1>1, <2>1, <2>3, <3>1, <3>2
  <2> QED
    BY <1>1, <2>1, <2>2, <2>3
<1> QED
  BY SMTT(30), <1>1, <1>3, <1>5, <1>6 DEF Cut, s, t, n, k, x
-----------------------------------------------------------------------------
(***************************************************************************)
(* BroadcastOrder is not inductive: that the next live frame may come      *)
(* behind those before it must be known when it is offered, and that a     *)
(* producer offers each of its events once.  Numbered ties the producers   *)
(* to the counter and to each other, for broadcasts under way overlap;     *)
(* Older ties the frames of a stream to the producers.                     *)
(***************************************************************************)

\* e and f are different, and e may come first.
InTurn(e, f) == e.id # f.id /\ ~Precedes(f, e)

Numbered ==
    /\ \A p \in Producer : spc[p] # "idle" => sev[p].from = p /\ sev[p].id <= bcastCount
    /\ \A p, q \in Producer :
           p # q /\ spc[p] # "idle" /\ spc[q] # "idle" => InTurn(sev[p], sev[q])

\* Producer p has yet to put its event on the channel of connection c.
Owes(p, c) == spc[p] = "counted" \/ c \in targets[p]

Older(c, f) ==
    ~f.replayed => /\ f.ev.id <= bcastCount
                   /\ \A p \in Producer : Owes(p, c) => InTurn(f.ev, sev[p])

StoredOnce ==
    /\ \A i, j \in 1 .. Len(stored) : i < j => InTurn(stored[i], stored[j])
    /\ \A i \in 1 .. Len(stored) : stored[i].id <= bcastCount
    /\ \A i \in 1 .. Len(stored), p \in Producer :
           spc[p] = "counted" => InTurn(stored[i], sev[p])

\* Frame f comes before frame g.
Before(f, g) ==
    /\ f.replayed /\ g.replayed => f.ev # g.ev
    /\ ~f.replayed /\ ~g.replayed => InTurn(f.ev, g.ev)

Orderly(s) == \A j \in DOMAIN s : \A i \in 1 .. j - 1 : Before(s[i], s[j])

Sent(c) == written[c] \o hand[c] \o queue[c]

LineInv(c) ==
    /\ Orderly(Stream(c))
    /\ \A i \in DOMAIN Stream(c) : Older(c, Stream(c)[i])
    /\ ~HasSnapshot(c) => \A i \in DOMAIN Stream(c) : ~Stream(c)[i].replayed
    /\ Intact(c) /\ HasSnapshot(c) => Replays(Stream(c), Recent(snapAt[c]))

OrderInv == Numbered /\ StoredOnce /\ \A c \in Client : LineInv(c)

(***************************************************************************)
(* A frame behind all live frames and before all replayed ones keeps the   *)
(* order.                                                                  *)
(***************************************************************************)
LEMMA GrownOrderly ==
    ASSUME NEW s, NEW t, NEW n, NEW f, Grown(s, t, n, f), Orderly(s),
           \A i \in 1 .. n : Before(s[i], f),
           \A i \in n + 1 .. Len(s) : Before(f, s[i])
    PROVE  Orderly(t)
<1>1. SUFFICES ASSUME NEW j \in DOMAIN t, NEW i \in 1 .. j - 1 PROVE Before(t[i], t[j])
  BY DEF Orderly
<1>2. /\ Len(s) \in Nat /\ n \in Nat /\ n <= Len(s)
      /\ j \in Int /\ i \in Int /\ 1 <= i /\ i < j /\ j <= Len(s) + 1
  BY <1>1 DEF Grown
<1>3. CASE j <= n
  <2>1. t[j] = s[j] /\ t[i] = s[i] /\ j \in DOMAIN s
    BY <1>2, <1>3 DEF Grown
  <2> QED
    BY <1>1, <2>1 DEF Orderly
<1>4. CASE j = n + 1
  <2>1. t[j] = f /\ t[i] = s[i] /\ i \in 1 .. n
    BY <1>2, <1>4 DEF Grown
  <2> QED
    BY <2>1
<1>5. CASE j > n + 1
  <2>1. j - 1 \in n + 1 .. Len(s) /\ t[j] = s[j - 1] /\ j - 1 \in DOMAIN s
    <3>1. j - 1 \in n + 1 .. Len(s) /\ (j - 1) + 1 = j
      BY <1>2, <1>5
    <3>2. t[(j - 1) + 1] = s[j - 1]
      BY <3>1 DEF Grown
    <3> QED
      BY <1>2, <1>5, <3>1, <3>2 DEF Grown
  <2>2. CASE i <= n
    <3>1. t[i] = s[i] /\ i \in 1 .. (j - 1) - 1
      BY <1>2, <1>5, <2>2 DEF Grown
    <3> QED
      BY <2>1, <3>1 DEF Orderly
  <2>3. CASE i = n + 1
    BY <2>1, <2>3 DEF Grown
  <2>4. CASE i > n + 1
    <3>1. i - 1 \in n + 1 .. Len(s) /\ (i - 1) + 1 = i /\ i - 1 \in 1 .. (j - 1) - 1
      BY <1>2, <1>5, <2>4
    <3>2. t[(i - 1) + 1] = s[i - 1]
      BY <3>1 DEF Grown
    <3> QED
      BY <2>1, <3>1, <3>2 DEF Orderly
  <2> QED
    BY <1>2, <2>2, <2>3, <2>4
<1>6. j <= n \/ j = n + 1 \/ j > n + 1
  BY <1>2
<1> QED
  BY <1>3, <1>4, <1>5, <1>6

(***************************************************************************)
(* It is no replayed frame, so those are where they were, but for the      *)
(* shift of the ones behind it.                                            *)
(***************************************************************************)
LEMMA GrownReplays ==
    ASSUME NEW s, NEW t, NEW n, NEW f, Grown(s, t, n, f), ~f.replayed,
           NEW evs, Replays(s, evs)
    PROVE  Replays(t, evs)
<1>1. PICK at \in [DOMAIN evs -> DOMAIN s] :
          /\ \A j, k \in DOMAIN evs : j < k => at[j] < at[k]
          /\ \A k \in DOMAIN evs : s[at[k]] = Replayed(evs[k])
          /\ \A i \in DOMAIN s : s[i].replayed => \E k \in DOMAIN evs : i = at[k]
  BY DEF Replays
<1>2. Len(s) \in Nat /\ n \in Nat /\ n <= Len(s)
  BY DEF Grown
<1> DEFINE to == [k \in DOMAIN evs |-> IF at[k] <= n THEN at[k] ELSE at[k] + 1]
<1>3. \A k \in DOMAIN evs : at[k] \in Int /\ 1 <= at[k] /\ at[k] <= Len(s)
  BY <1>1 DEF Grown
<1>4. \A k \in DOMAIN evs : to[k] \in DOMAIN t /\ t[to[k]] = s[at[k]]
  <2> TAKE k \in DOMAIN evs
  <2>1. CASE at[k] <= n
    BY <1>2, <1>3, <2>1 DEF Grown
  <2>2. CASE at[k] > n
    <3>1. at[k] \in n + 1 .. Len(s)
      BY <1>2, <1>3, <2>2
    <3>2. to[k] = at[k] + 1
      BY <1>2, <1>3, <2>2
    <3> QED
      BY <1>2, <3>1, <3>2 DEF Grown
  <2> QED
    BY <1>2, <1>3, <2>1, <2>2
<1>5. to \in [DOMAIN evs -> DOMAIN t]
  BY <1>4
<1>6. \A j, k \in DOMAIN evs : j < k => to[j] < to[k]
  <2> SUFFICES ASSUME NEW j \in DOMAIN evs, NEW k \in DOMAIN evs, j < k PROVE to[j] < to[k]
    OBVIOUS
  <2>1. at[j] < at[k]
    BY <1>1
  <2> QED
    BY <1>2, <1>3, <2>1
<1>7. ASSUME NEW i \in DOMAIN t, t[i].replayed PROVE \E k \in DOMAIN evs : i = to[k]
  <2>1. i \in Int /\ 1 <= i /\ i <= Len(s) + 1 /\ i # n + 1
    BY <1>2, <1>7 DEF Grown
  <2>2. CASE i <= n
    <3>1. t[i] = s[i] /\ i \in DOMAIN s
      BY <1>2, <2>1, <2>2 DEF Grown
    <3>2. PICK k \in DOMAIN evs : i = at[k]
      BY <1>1, <1>7, <3>1
    <3> QED
      BY <2>2, <3>2
  <2>3. CASE i > n + 1
    <3>1. i - 1 \in n + 1 .. Len(s) /\ (i - 1) + 1 = i /\ i - 1 \in DOMAIN s /\ ~(i - 1 <= n)
      BY <1>2, <2>1, <2>3 DEF Grown
    <3>2. t[(i - 1) + 1] = s[i - 1]
      BY <3>1 DEF Grown
    <3>3. PICK k \in DOMAIN evs : i - 1 = at[k]
      BY <1>1, <1>7, <3>1, <3>2
    <3>4. to[k] = (i - 1) + 1
      BY <3>1, <3>3
    <3> QED
      BY <3>1, <3>4
  <2> QED
    BY <1>2, <2>1, <2>2, <2>3
<1> HIDE DEF to
<1> QED
  BY <1>1, <1>4, <1>5, <1>6, <1>7 DEF Replays

(***************************************************************************)
(* Frames that are taken away leave the others in order.                   *)
(***************************************************************************)
LEMMA CutOrderly ==
    ASSUME NEW s, NEW t, NEW n, NEW k, Cut(s, t, n, k), Orderly(s)
    PROVE  Orderly(t)
<1>1. SUFFICES ASSUME NEW j \in DOMAIN t, NEW i \in 1 .. j - 1 PROVE Before(t[i], t[j])
  BY DEF Orderly
<1>2. /\ Len(s) \in Nat /\ n \in Nat /\ k \in Nat /\ n + k <= Len(s)
      /\ j \in Int /\ i \in Int /\ 1 <= i /\ i < j /\ j <= Len(s) - k
      /\ i \in DOMAIN t
  BY <1>1 DEF Cut
<1> DEFINE at(x) == IF x <= n THEN x ELSE x + k
<1>3. t[i] = s[at(i)] /\ t[j] = s[at(j)]
  BY <1>2 DEF Cut
<1>4. at(j) \in DOMAIN s /\ at(i) \in 1 .. at(j) - 1
  BY <1>2 DEF Cut
<1> HIDE DEF at
<1> QED
  BY <1>3, <1>4 DEF Orderly
-----------------------------------------------------------------------------
(***************************************************************************)
(* The replayed frames of a sequence of events.                            *)
(***************************************************************************)
LEMMA ReplayFramesOK ==
    ASSUME NEW evs \in Seq(Event)
    PROVE  /\ ReplayFrames(evs) \in Seq(Frame)
           /\ Len(ReplayFrames(evs)) = Len(evs)
           /\ DOMAIN ReplayFrames(evs) = DOMAIN evs
           /\ \A i \in DOMAIN evs : ReplayFrames(evs)[i] = Replayed(evs[i])
<1>1. DOMAIN evs = 1 .. Len(evs) /\ Len(evs) \in Nat
  BY LenProperties
<1>2. \A i \in 1 .. Len(evs) : Replayed(evs[i]) \in Frame
  BY ElementOfSeq DEF Replayed, Frame
<1>3. ReplayFrames(evs) = [i \in 1 .. Len(evs) |-> Replayed(evs[i])]
  BY <1>1 DEF ReplayFrames
<1>4. ReplayFrames(evs) \in [1 .. Len(evs) -> Frame]
  BY <1>2, <1>3
<1>5. ReplayFrames(evs) \in Seq(Frame) /\ Len(ReplayFrames(evs)) = Len(evs)
  BY <1>1, <1>4
<1> QED
  BY <1>1, <1>3, <1>5

(***************************************************************************)
(* A sequence is its first element and the rest.                           *)
(***************************************************************************)
LEMMA HeadConcatTail ==
    ASSUME NEW S, NEW s \in Seq(S), s # <<>>
    PROVE  /\ <<Head(s)>> \in Seq(S)
           /\ s = <<Head(s)>> \o Tail(s)
<1>1. /\ Len(s) \in Nat \ {0} /\ Head(s) \in S /\ Tail(s) \in Seq(S)
      /\ Len(Tail(s)) = Len(s) - 1 /\ Head(s) = s[1]
      /\ \A i \in 1 .. Len(s) - 1 : Tail(s)[i] = s[i + 1]
  BY HeadTailProperties, EmptySeq
<1> DEFINE h == Head(s)
           r == Tail(s)
           u == <<h>>
<1> HIDE DEF h, r
<1>2. u \in Seq(S) /\ Len(u) = 1 /\ u[1] = h
  BY <1>1 DEF h
<1> HIDE DEF u
<1>3. /\ u \o r \in Seq(S) /\ Len(u \o r) = Len(s)
      /\ \A i \in 1 .. Len(s) : (u \o r)[i] = IF i <= 1 THEN u[i] ELSE r[i - 1]
  <2>1. r \in Seq(S) /\ Len(r) = Len(s) - 1
    BY <1>1 DEF r
  <2>2. /\ u \o r \in Seq(S) /\ Len(u \o r) = Len(u) + Len(r)
        /\ \A i \in 1 .. Len(u) + Len(r) : (u \o r)[i] = IF i <= Len(u) THEN u[i] ELSE r[i - Len(u)]
    BY <1>2, <2>1, ConcatProperties
  <2> QED
    BY <1>1, <1>2, <2>1, <2>2
<1>4. ASSUME NEW i \in 1 .. Len(s) PROVE s[i] = (u \o r)[i]
  <2>1. CASE i = 1
    BY <1>1, <1>2, <1>3, <2>1 DEF h
  <2>2. CASE i # 1
    <3>1. i - 1 \in 1 .. Len(s) - 1 /\ (i - 1) + 1 = i /\ ~(i <= 1)
      BY <1>1, <2>2
    <3>2. r[i - 1] = s[(i - 1) + 1]
      BY <1>1, <3>1 DEF r
    <3> QED
      BY <1>3, <3>1, <3>2
  <2> QED
    BY <2>1, <2>2
<1>5. s = u \o r
  BY <1>3, <1>4, SeqEqual
<1> QED
  BY <1>2, <1>5 DEF u, h, r

(***************************************************************************)
(* The stream is what was sent on the channel and then the backlog.        *)
(***************************************************************************)
LEMMA StreamSplit ==
    ASSUME TypeOK, NEW c \in Client
    PROVE  /\ written[c] \in Seq(Frame) /\ hand[c] \in Seq(Frame) /\ queue[c] \in Seq(Frame)
           /\ backlog[c] \in Seq(Event) /\ ReplayFrames(backlog[c]) \in Seq(Frame)
           /\ Sent(c) \in Seq(Frame) /\ Stream(c) \in Seq(Frame)
           /\ Stream(c) = Sent(c) \o ReplayFrames(backlog[c])
<1>1. /\ written[c] \in Seq(Frame) /\ hand[c] \in Seq(Frame) /\ queue[c] \in Seq(Frame)
      /\ backlog[c] \in Seq(Event) /\ ReplayFrames(backlog[c]) \in Seq(Frame)
  BY ReplayFramesOK DEF TypeOK
<1>2. Sent(c) \in Seq(Frame)
  BY <1>1, ConcatProperties DEF Sent
<1>3. Stream(c) = Sent(c) \o ReplayFrames(backlog[c])
  BY DEF Stream, Sent
<1> QED
  BY <1>1, <1>2, <1>3, ConcatProperties

\* At most one event is stored.
StoresAtMostOne == stored' = stored \/ \E e : stored' = Append(stored, e)

(***************************************************************************)
(* What the history of the first n stored events is does not change.       *)
(***************************************************************************)
LEMMA RecentStable ==
    ASSUME TypeOK, TypeOK', StoresAtMostOne,
           NEW c \in Client, snapAt'[c] = snapAt[c], snapAt[c] <= Len(stored)
    PROVE  Recent(snapAt[c])' = Recent(snapAt[c])
<1> DEFINE n == snapAt[c]
<1>0. n \in Nat /\ n <= Len(stored) /\ snapAt'[c] = n
  BY DEF TypeOK
<1>1. CASE stored' = stored
  BY <1>1 DEF Recent
<1>2. ASSUME NEW e, stored' = Append(stored, e) PROVE Recent(snapAt[c])' = Recent(snapAt[c])
  <2> DEFINE m == IF n > RingSize THEN n - RingSize + 1 ELSE 1
  <2>1. m \in Int /\ 1 <= m /\ n \in Int
    BY <1>0, RingSizeAssumption
  <2>2. /\ stored \in Seq(Event) /\ stored' \in Seq(Event) /\ Len(stored) \in Nat
        /\ Len(stored') = Len(stored) + 1
        /\ \A i \in 1 .. Len(stored) : stored'[i] = stored[i]
    BY <1>2 DEF TypeOK
  <2>3. /\ Recent(snapAt[c]) = SubSeq(stored, m, n)
        /\ Recent(snapAt[c])' = SubSeq(stored', m, n)
    BY <1>0 DEF Recent
  <2> HIDE DEF m, n
  <2>4. \A i \in m .. n : i \in 1 .. Len(stored) /\ i \in 1 .. Len(stored')
    BY <1>0, <2>1, <2>2
  <2>5. \A i \in m .. n : stored[i] \in Event /\ stored'[i] \in Event
    BY <2>2, <2>4, ElementOfSeq
  <2>6. /\ SubSeq(stored, m, n) \in Seq(Event)
        /\ Len(SubSeq(stored, m, n)) = IF m <= n THEN n - m + 1 ELSE 0
        /\ \A i \in 1 .. n - m + 1 : SubSeq(stored, m, n)[i] = stored[m + i - 1]
    BY <2>1, <2>5, SubSeqProperties
  <2>7. /\ SubSeq(stored', m, n) \in Seq(Event)
        /\ Len(SubSeq(stored', m, n)) = IF m <= n THEN n - m + 1 ELSE 0
        /\ \A i \in 1 .. n - m + 1 : SubSeq(stored', m, n)[i] = stored'[m + i - 1]
    BY <2>1, <2>5, SubSeqProperties
  <2>8. ASSUME NEW i \in 1 .. Len(SubSeq(stored, m, n))
        PROVE  SubSeq(stored, m, n)[i] = SubSeq(stored', m, n)[i]
    <3>1. i \in 1 .. n - m + 1 /\ m + i - 1 \in m .. n
      BY <2>1, <2>6
    <3> QED
      BY <2>2, <2>4, <2>6, <2>7, <3>1
  <2>9. SubSeq(stored, m, n) = SubSeq(stored', m, n)
    BY <2>6, <2>7, <2>8, SeqEqual
  <2> QED
    BY <2>3, <2>9
<1> QED
  BY <1>1, <1>2 DEF StoresAtMostOne
-----------------------------------------------------------------------------
(***************************************************************************)
(* A step that leaves a stream alone keeps what is known of it.            *)
(***************************************************************************)
LEMMA KeepLine ==
    ASSUME TypeOK, NEW c \in Client, LineInv(c), Stream(c)' = Stream(c),
           \A f \in Frame : Older(c, f) => Older(c, f)',
           HasSnapshot(c)' = HasSnapshot(c),
           Intact(c)' /\ HasSnapshot(c) =>
               Intact(c) /\ Recent(snapAt[c])' = Recent(snapAt[c])
    PROVE  LineInv(c)'
<1>1. Orderly(Stream(c)')
  BY DEF LineInv
<1>2. \A i \in DOMAIN Stream(c)' : Older(c, Stream(c)[i])'
  <2>1. \A i \in DOMAIN Stream(c) : Stream(c)[i] \in Frame
    BY StreamSplit, LenProperties, ElementOfSeq
  <2>2. ASSUME NEW i \in DOMAIN Stream(c)' PROVE Older(c, Stream(c)[i])'
    <3>1. PICK f \in Frame : f = Stream(c)[i] /\ f = Stream(c)'[i]
      BY <2>1
    <3>2. Older(c, f)'
      BY <3>1 DEF LineInv
    <3> QED
      BY <3>1, <3>2 DEF Older
  <2> QED
    BY <2>2
<1>3. ~HasSnapshot(c)' => \A i \in DOMAIN Stream(c)' : ~Stream(c)'[i].replayed
  BY DEF LineInv
<1>4. Intact(c)' /\ HasSnapshot(c)' => Replays(Stream(c)', Recent(snapAt[c])')
  BY DEF LineInv
<1> QED
  BY <1>1, <1>2, <1>3, <1>4 DEF LineInv, Orderly, Replays, Before

(***************************************************************************)
(* So does a step that has nothing to do with the connection.              *)
(***************************************************************************)
LEMMA KeepOtherLine ==
    ASSUME TypeOK, TypeOK', GapInv, NEW c \in Client, LineInv(c),
           UNCHANGED <<written[c], hand[c], queue[c], backlog[c], replay[c], hpc[c], done[c],
                       snapAt[c]>>,
           StoresAtMostOne,
           \A f \in Frame : Older(c, f) => Older(c, f)'
    PROVE  LineInv(c)'
<1>1. Stream(c)' = Stream(c)
  BY DEF Stream, ReplayFrames
<1>2. HasSnapshot(c)' = HasSnapshot(c) /\ Intact(c)' = Intact(c)
  BY DEF HasSnapshot, Intact
<1>3. ASSUME Intact(c), HasSnapshot(c) PROVE Recent(snapAt[c])' = Recent(snapAt[c])
  <2>1. snapAt[c] \in Nat /\ snapAt[c] <= Len(stored)
    BY <1>3 DEF GapInv, ConnInv, InSnapshot, TypeOK
  <2> QED
    BY <2>1, RecentStable
<1> QED
  BY <1>1, <1>2, <1>3, KeepLine

(***************************************************************************)
(* Before any broadcast there is nothing to be out of order.               *)
(***************************************************************************)
LEMMA InitOrderInv == Init => OrderInv
<1> SUFFICES ASSUME Init PROVE OrderInv
  OBVIOUS
<1>1. Numbered
  BY DEF Init, Numbered
<1>2. StoredOnce
  BY DEF Init, RingInit, StoredOnce
<1>3. ASSUME NEW c \in Client PROVE LineInv(c)
  <2>1. written[c] = <<>> /\ hand[c] = <<>> /\ queue[c] = <<>> /\ backlog[c] = <<>>
        /\ hpc[c] = "new"
    BY <1>3 DEF Init, NoFrames
  <2>2. TypeOK
    BY InitTypeInv DEF TypeInv
  <2>3. Sent(c) = <<>>
    <3>1. <<>> \in Seq(Frame)
      BY EmptySeq
    <3> QED
      BY <2>1, <3>1, ConcatEmptySeq DEF Sent
  <2>4. Len(Stream(c)) = 0
    <3>1. ReplayFrames(backlog[c]) \in Seq(Frame) /\ Len(ReplayFrames(backlog[c])) = 0
      BY <2>1, EmptySeq, ReplayFramesOK
    <3>2. Stream(c) = ReplayFrames(backlog[c])
      BY <2>2, <2>3, <3>1, StreamSplit, ConcatEmptySeq
    <3> QED
      BY <3>1, <3>2
  <2>5. DOMAIN Stream(c) = {}
    BY <2>2, <2>4, StreamSplit, LenProperties
  <2>6. ~Intact(c)
    BY <2>1 DEF Intact
  <2> QED
    BY <2>5, <2>6 DEF LineInv, Orderly
<1> QED
  BY <1>1, <1>2, <1>3 DEF OrderInv

(***************************************************************************)
(* A stream that grew or was cut has no other frames.                      *)
(***************************************************************************)
LEMMA GrownHas ==
    ASSUME NEW s, NEW t, NEW n, NEW f, Grown(s, t, n, f), NEW i \in DOMAIN t
    PROVE  t[i] = f \/ \E j \in DOMAIN s : t[i] = s[j]
<1>1. /\ Len(s) \in Nat /\ n \in Nat /\ n <= Len(s)
      /\ i \in Int /\ 1 <= i /\ i <= Len(s) + 1
  BY DEF Grown
<1>2. CASE i <= n
  BY <1>1, <1>2 DEF Grown
<1>3. CASE i = n + 1
  BY <1>3 DEF Grown
<1>4. CASE i > n + 1
  <2>1. i - 1 \in n + 1 .. Len(s) /\ (i - 1) + 1 = i /\ i - 1 \in 1 .. Len(s)
    BY <1>1, <1>4
  <2>2. t[(i - 1) + 1] = s[i - 1]
    BY <2>1 DEF Grown
  <2> QED
    BY <2>1, <2>2 DEF Grown
<1> QED
  BY <1>1, <1>2, <1>3, <1>4

\* What is left of a sequence that loses frames was in it before.
LEMMA CutHas ==
    ASSUME NEW s, NEW t, NEW n, NEW k, Cut(s, t, n, k), NEW i \in DOMAIN t
    PROVE  \E j \in DOMAIN s : t[i] = s[j]
BY DEF Cut

(***************************************************************************)
(* What is appended to the last of two sequences is appended to both.      *)
(***************************************************************************)
LEMMA AppendBehind ==
    ASSUME NEW S, NEW s \in Seq(S), NEW t \in Seq(S), NEW f \in S
    PROVE  s \o Append(t, f) = Append(s \o t, f)
<1>1. ASSUME NEW u \in Seq(S) PROVE (s \o t) \o u = s \o (t \o u)
  BY ConcatAssociative
<1>2. s \o t \in Seq(S) /\ <<f>> \in Seq(S)
  BY ConcatProperties
<1>3. Append(t, f) = t \o <<f>> /\ Append(s \o t, f) = (s \o t) \o <<f>>
  BY <1>2, AppendIsConcat
<1> QED
  BY <1>1, <1>2, <1>3

(***************************************************************************)
(* A frame sent to a connection that the producer owed it grows its stream *)
(* behind everything that was sent and before the rest of the replay.      *)
(***************************************************************************)
LEMMA SentGrows ==
    ASSUME TypeOK, NEW c \in Client, NEW f \in Frame,
           UNCHANGED <<written[c], hand[c], backlog[c]>>, queue'[c] = Append(queue[c], f)
    PROVE  Grown(Stream(c), Stream(c)', Len(Sent(c)), f)
<1> DEFINE w == written[c] \o hand[c]
           b == ReplayFrames(backlog[c])
<1>1. w \in Seq(Frame) /\ queue[c] \in Seq(Frame) /\ b \in Seq(Frame)
  BY StreamSplit, ConcatProperties
<1>2. Stream(c) = Sent(c) \o b /\ Sent(c) = w \o queue[c] /\ Sent(c) \in Seq(Frame)
  BY StreamSplit DEF Sent
<1>3. b' = b
  BY DEF ReplayFrames
<1>4. w' = w
  OBVIOUS
<1>5. Stream(c)' = (w \o Append(queue[c], f)) \o b
  BY <1>3, <1>4 DEF Stream
<1> HIDE DEF w, b
<1>6. w \o Append(queue[c], f) = Append(w \o queue[c], f)
  BY SMTT(30), <1>1, AppendBehind
<1>7. Stream(c)' = Append(Sent(c), f) \o b
  BY <1>2, <1>5, <1>6
<1> QED
  BY <1>1, <1>2, <1>7, GrownConcat

(***************************************************************************)
(* The goroutines of one connection leave the other connections alone.     *)
(***************************************************************************)
LEMMA OthersUntouched ==
    ASSUME TypeOK, NEW d \in Client, Serving(d) \/ Replaying(d), NEW c \in Client, c # d
    PROVE  UNCHANGED <<hpc[c], hand[c], queue[c], written[c], done[c], replay[c], backlog[c],
                       snapAt[c], regAt[c]>>
<1>1. CASE Serving(d)
  <2>1. CASE Register(d) \/ ReaderEnd(d) \/ WriterDone(d) \/ Unregister(d) \/ CloseConn(d)
    BY <2>1 DEF Register, ReaderEnd, WriterDone, Unregister, CloseConn, playVars, TypeOK
  <2>2. CASE WriterTake(d) \/ WriterWrite(d) \/ WriterFail(d)
    BY SMTT(30), <2>2 DEF WriterTake, WriterWrite, WriterFail, playVars, TypeOK
  <2> QED
    BY <1>1, <2>1, <2>2 DEF Serving
<1>2. CASE Replaying(d)
  BY SMTT(30), <1>2 DEF Replaying, ReplaySnapshot, ReplaySend, ReplayAbort, ReplayFinish, connVars, TypeOK
<1> QED
  BY <1>1, <1>2

(***************************************************************************)
(* The steps of a broadcast: the counter makes its event the youngest, the *)
(* critical section stores it once, and each connection is offered it once *)
(* and behind everything that the producer sent before.                    *)
(***************************************************************************)
LEMMA ProducingOrderInv ==
    ASSUME TypeInv, TypeOK', GapInv, OrderInv, NEW p \in Producer, Producing(p)
    PROVE  OrderInv'
<1>0. /\ TypeOK /\ Busy /\ Fanning /\ Numbered /\ StoredOnce
      /\ \A c \in Client : LineInv(c)
      /\ bcastCount \in Nat
  BY DEF TypeInv, GapInv, OrderInv, TypeOK
<1>1. ASSUME NEW store \in BOOLEAN, SendBegin(p, store) PROVE OrderInv'
  <2>1. /\ spc[p] = "idle" /\ spc'[p] = "counted" /\ targets[p] = {}
        /\ sev'[p].id = bcastCount + 1 /\ sev'[p].from = p /\ bcastCount' = bcastCount + 1
        /\ sev'[p].during = Sending
        /\ \A q \in Producer : q # p => spc'[q] = spc[q] /\ sev'[q] = sev[q]
        /\ stored' = stored /\ targets' = targets
        /\ UNCHANGED <<written, hand, queue, backlog, replay, hpc, done, snapAt>>
    BY <1>0, <1>1 DEF SendBegin, Fanning, TypeOK, ringVars, fanVars, connVars, playVars
  <2>2. \A q \in Producer : spc[q] # "idle" => sev[q].id \in Nat
    BY <1>0 DEF Busy, Event
  <2>3. Numbered'
    <3>1. ASSUME NEW q \in Producer, spc'[q] # "idle"
          PROVE  sev'[q].from = q /\ sev'[q].id <= bcastCount + 1
      <4>1. CASE q = p
        BY <1>0, <2>1, <4>1
      <4>2. CASE q # p
        BY <1>0, <2>1, <2>2, <3>1, <4>2 DEF Numbered
      <4> QED
        BY <4>1, <4>2
    <3>2. ASSUME NEW q \in Producer, q # p, spc'[q] # "idle"
          PROVE  InTurn(sev'[p], sev'[q]) /\ InTurn(sev'[q], sev'[p])
      <4>1. /\ spc[q] # "idle" /\ sev'[q] = sev[q] /\ sev[q].from = q
            /\ sev[q].id \in Nat /\ sev[q].id <= bcastCount
        BY <1>0, <2>1, <2>2, <3>2 DEF Numbered
      <4>2. sev[q].id \in Sending
        BY <4>1 DEF Sending
      <4> QED
        BY <1>0, <2>1, <3>2, <4>1, <4>2 DEF InTurn, Precedes
    <3>3. ASSUME NEW q \in Producer, NEW r \in Producer, q # r, q # p, r # p,
                 spc'[q] # "idle", spc'[r] # "idle"
          PROVE  InTurn(sev'[q], sev'[r])
      BY <1>0, <2>1, <3>3 DEF Numbered
    <3> QED
      BY <2>1, <3>1, <3>2, <3>3 DEF Numbered
  <2>4. StoredOnce'
    <3>1. \A i \in 1 .. Len(stored) : stored[i].id \in Nat
      <4>1. stored \in Seq(Event)
        BY <1>0 DEF TypeOK
      <4>2. \A i \in 1 .. Len(stored) : stored[i] \in Event
        BY <4>1, ElementOfSeq
      <4> QED
        BY <4>2 DEF Event
    <3>2. \A i \in 1 .. Len(stored) : stored[i].id <= bcastCount'
      BY <1>0, <2>1, <3>1 DEF StoredOnce
    <3>3. \A i \in 1 .. Len(stored) : InTurn(stored[i], sev'[p])
      BY <1>0, <2>1, <3>1 DEF StoredOnce, InTurn, Precedes
    <3>4. \A i \in 1 .. Len(stored), q \in Producer :
              spc'[q] = "counted" => InTurn(stored[i], sev'[q])
      BY <1>0, <2>1, <3>3 DEF StoredOnce
    <3> QED
      BY <1>0, <2>1, <3>2, <3>4 DEF StoredOnce
  <2>5. ASSUME NEW c \in Client PROVE LineInv(c)'
    <3>1. ASSUME NEW f \in Frame, Older(c, f) PROVE Older(c, f)'
      <4>1. f.ev.id \in Nat
        BY DEF Frame, Event
      <4>2. f.ev.id <= bcastCount => InTurn(f.ev, sev'[p])
        BY <1>0, <2>1, <4>1 DEF InTurn, Precedes
      <4>3. \A q \in Producer : q # p /\ Owes(q, c)' => Owes(q, c) /\ sev'[q] = sev[q]
        BY <2>1 DEF Owes
      <4> QED
        BY <1>0, <2>1, <3>1, <4>1, <4>2, <4>3 DEF Older
    <3>2. StoresAtMostOne
      BY <2>1 DEF StoresAtMostOne
    <3> QED
      BY <1>0, <2>1, <3>1, <3>2, KeepOtherLine
  <2> QED
    BY <2>3, <2>4, <2>5 DEF OrderInv
<1>2. ASSUME SendLocked(p) PROVE OrderInv'
  <2>1. /\ spc[p] = "counted" /\ spc'[p] = "fanout" /\ sev' = sev /\ bcastCount' = bcastCount
        /\ \A q \in Producer : q # p => spc'[q] = spc[q] /\ targets'[q] = targets[q]
        /\ UNCHANGED <<written, hand, queue, backlog, replay, hpc, done, snapAt>>
    BY <1>0, <1>2 DEF SendLocked, TypeOK, connVars, playVars
  <2>2. stored' \in {stored, Append(stored, sev[p])}
    BY <1>2 DEF SendLocked, Store, ringVars
  <2>3. Numbered'
    BY <1>0, <2>1 DEF Numbered
  <2>4. StoredOnce'
    <3>1. CASE stored' = stored
      BY <1>0, <2>1, <3>1 DEF StoredOnce
    <3>2. CASE stored' = Append(stored, sev[p])
      <4> DEFINE n == Len(stored)
      <4>1. /\ n \in Nat /\ Len(stored') = n + 1 /\ stored'[n + 1] = sev[p]
            /\ \A i \in 1 .. n : stored'[i] = stored[i]
        BY <1>0, <3>2 DEF TypeOK
      <4> HIDE DEF n
      <4>2. /\ \A i \in 1 .. n : InTurn(stored'[i], sev[p]) /\ stored'[i].id <= bcastCount
            /\ \A i, j \in 1 .. n : i < j => InTurn(stored'[i], stored'[j])
            /\ \A i \in 1 .. n, q \in Producer : spc[q] = "counted" => InTurn(stored'[i], sev[q])
        BY <1>0, <2>1, <4>1 DEF StoredOnce, n
      <4>3. sev[p].id <= bcastCount
            /\ \A q \in Producer : spc[q] = "counted" /\ q # p => InTurn(sev[p], sev[q])
        BY <1>0, <2>1 DEF Numbered
      <4>4. \A i \in 1 .. n + 1 : i = n + 1 \/ i \in 1 .. n
        BY <4>1
      <4>5. \A i, j \in 1 .. n + 1 : i < j => InTurn(stored'[i], stored'[j])
        <5>1. \A i, j \in 1 .. n + 1 : i < j => i \in 1 .. n /\ (j = n + 1 \/ j \in 1 .. n)
          BY <4>1
        <5> QED
          BY <4>1, <4>2, <5>1
      <4>6. \A i \in 1 .. n + 1 : stored'[i].id <= bcastCount
        BY <4>1, <4>2, <4>3, <4>4
      <4>7. \A i \in 1 .. n + 1, q \in Producer : spc'[q] = "counted" => InTurn(stored'[i], sev[q])
        BY <2>1, <4>1, <4>2, <4>3, <4>4
      <4> QED
        BY <2>1, <4>1, <4>5, <4>6, <4>7 DEF StoredOnce
    <3> QED
      BY <2>2, <3>1, <3>2
  <2>5. ASSUME NEW c \in Client PROVE LineInv(c)'
    <3>1. ASSUME NEW f \in Frame, Older(c, f) PROVE Older(c, f)'
      <4>1. f.ev.from \in Producer
        BY DEF Frame, Event
      <4> QED
        BY <2>1, <3>1, <4>1 DEF Older, Owes
    <3>2. StoresAtMostOne
      BY <2>2 DEF StoresAtMostOne
    <3> QED
      BY <1>0, <2>1, <3>1, <3>2, KeepOtherLine
  <2> QED
    BY <2>3, <2>4, <2>5 DEF OrderInv
<1>3. ASSUME NEW d \in Client, SendTo(p, d) PROVE OrderInv'
  <2>1. /\ spc[p] = "fanout" /\ sev[p] \in Event /\ d \in targets[p]
        /\ targets' = [targets EXCEPT ![p] = targets[p] \ {d}]
        /\ UNCHANGED <<stored, bcastCount, spc, sev, hpc, hand, written, backlog, replay, done, snapAt>>
    BY <1>0, <1>3 DEF SendTo, Busy, Fanning, ringVars, sendVars, connVars, playVars
  <2>2. /\ d \notin targets'[p]
        /\ \A q \in Producer : targets'[q] \subseteq targets[q]
    BY <1>0, <2>1 DEF TypeOK
  <2>3. Numbered' /\ StoredOnce'
    BY <1>0, <2>1 DEF Numbered, StoredOnce
  <2>4. ASSUME NEW c \in Client, NEW f \in Frame, Older(c, f) PROVE Older(c, f)'
    <3>1. f.ev.from \in Producer
      BY DEF Frame, Event
    <3> QED
      BY <2>1, <2>2, <2>4, <3>1 DEF Older, Owes
  <2>5. StoresAtMostOne
    BY <2>1 DEF StoresAtMostOne
  <2>6. ASSUME NEW c \in Client, queue'[c] = queue[c] PROVE LineInv(c)'
    BY <1>0, <2>1, <2>4, <2>5, <2>6, KeepOtherLine
  <2>7. ASSUME queue'[d] = Append(queue[d], Live(sev[p])) PROVE LineInv(d)'
    <3> DEFINE f == Live(sev[p])
               n == Len(Sent(d))
               s == Stream(d)
               t == Stream(d)'
    <3>1. /\ f \in Frame /\ ~f.replayed /\ f.ev = sev[p] /\ f.ev.from = p
          /\ f.ev.id <= bcastCount /\ f.ev.id \in Nat
      BY <1>0, <2>1 DEF Live, Frame, Busy, Numbered, Event
    <3> HIDE DEF f
    <3>2. Grown(s, t, n, f)
      BY <1>0, <2>1, <2>7, <3>1, SentGrows DEF f
    <3>3. LineInv(d) /\ \A i \in DOMAIN s : s[i] \in Frame /\ Older(d, s[i])
      BY <1>0, StreamSplit, LenProperties, ElementOfSeq DEF LineInv
    <3>4. \A i \in n + 1 .. Len(s) : s[i].replayed
      <4> DEFINE b == ReplayFrames(backlog[d])
      <4>1. Sent(d) \in Seq(Frame) /\ b \in Seq(Frame) /\ s = Sent(d) \o b
            /\ Len(b) = Len(backlog[d]) /\ DOMAIN b = 1 .. Len(b)
            /\ \A i \in DOMAIN b : b[i].replayed
        <5>1. \A e : Replayed(e).replayed
          BY DEF Replayed
        <5>2. \A i \in DOMAIN b : b[i].replayed
          BY <1>0, <5>1, StreamSplit, ReplayFramesOK
        <5> QED
          BY <1>0, <5>2, StreamSplit, ReplayFramesOK, LenProperties
      <4> HIDE DEF b, s
      <4>2. n \in Nat /\ Len(b) \in Nat /\ Len(s) = n + Len(b)
            /\ \A i \in 1 .. n + Len(b) : s[i] = IF i <= n THEN Sent(d)[i] ELSE b[i - n]
        <5>1. n \in Nat /\ Len(b) \in Nat
          BY <4>1, LenProperties
        <5>2. /\ Len(Sent(d) \o b) = n + Len(b)
              /\ \A i \in 1 .. n + Len(b) :
                     (Sent(d) \o b)[i] = IF i <= n THEN Sent(d)[i] ELSE b[i - n]
          BY <4>1, ConcatProperties
        <5> HIDE DEF n
        <5> QED
          BY <4>1, <5>1, <5>2
      <4> HIDE DEF n
      <4>3. ASSUME NEW i \in n + 1 .. Len(s) PROVE s[i].replayed
        <5>1. i \in 1 .. n + Len(b) /\ ~(i <= n) /\ i - n \in 1 .. Len(b)
          BY <4>2
        <5>2. i - n \in DOMAIN b /\ s[i] = b[i - n]
          BY <4>1, <4>2, <5>1
        <5> QED
          BY <4>1, <5>2
      <4> QED
        BY <4>3
    <3>5. \A i \in 1 .. n : i \in DOMAIN s
      BY <3>2 DEF Grown
    <3> HIDE DEF s, t, n
    <3>6. \A i \in 1 .. n : Before(s[i], f)
      BY <2>1, <3>1, <3>3, <3>5 DEF Before, Older, Owes
    <3>7. \A i \in n + 1 .. Len(s) : Before(f, s[i])
      BY <3>1, <3>4 DEF Before
    <3>8. Orderly(t)
      BY <3>2, <3>3, <3>6, <3>7, GrownOrderly DEF LineInv, s
    <3>9. ASSUME NEW g \in Frame, (\E i \in DOMAIN t : g = t[i]) PROVE Older(d, g)'
      <4>1. g = f => Older(d, g)'
        <5>1. \A q \in Producer : Owes(q, d)' => q # p /\ spc[q] # "idle"
          BY <1>0, <2>1, <2>2 DEF Owes, Fanning
        <5> QED
          BY <1>0, <2>1, <3>1, <5>1 DEF Older, Numbered
      <4>2. g = f \/ \E j \in DOMAIN s : g = s[j]
        BY <3>2, <3>9, GrownHas
      <4> QED
        BY <2>4, <3>3, <4>1, <4>2
    <3>10. \A i \in DOMAIN t : t[i] \in Frame
      BY <3>1, <3>2, <3>3, GrownHas
    <3>11. \A i \in DOMAIN Stream(d)' : Older(d, Stream(d)[i])'
      BY <3>9, <3>10 DEF Older, t
    <3>12. ~HasSnapshot(d)' => \A i \in DOMAIN t : ~t[i].replayed
      <4>1. HasSnapshot(d)' = HasSnapshot(d)
        BY <2>1 DEF HasSnapshot
      <4>2. ~HasSnapshot(d) => \A i \in DOMAIN s : ~s[i].replayed
        BY <3>3 DEF LineInv, s
      <4> QED
        BY <3>1, <3>2, <4>1, <4>2, GrownHas
    <3>13. ASSUME Intact(d)', HasSnapshot(d)' PROVE Replays(t, Recent(snapAt[d])')
      <4>1. Intact(d) /\ HasSnapshot(d) /\ snapAt' = snapAt
        BY <2>1, <3>13 DEF Intact, HasSnapshot
      <4>2. snapAt[d] <= Len(stored)
        BY <1>0, <4>1 DEF GapInv, ConnInv, InSnapshot
      <4>3. Recent(snapAt[d])' = Recent(snapAt[d])
        BY <1>0, <2>5, <4>1, <4>2, RecentStable
      <4>4. Replays(s, Recent(snapAt[d]))
        BY <3>3, <4>1 DEF LineInv, s
      <4> QED
        BY <3>1, <3>2, <4>3, <4>4, GrownReplays
    <3> QED
      BY <3>8, <3>11, <3>12, <3>13 DEF LineInv, Orderly, Replays, Before, t
  <2>8. LineInv(d)'
    <3>1. queue' = queue \/ queue' = [queue EXCEPT ![d] = Append(queue[d], Live(sev[p]))]
      BY <1>3 DEF SendTo
    <3>2. CASE queue' = queue
      BY <2>6, <3>2
    <3>3. CASE queue' = [queue EXCEPT ![d] = Append(queue[d], Live(sev[p]))]
      <4>1. queue'[d] = Append(queue[d], Live(sev[p]))
        BY <1>0, <3>3 DEF TypeOK
      <4> QED
        BY <2>7, <4>1
    <3> QED
      BY <3>1, <3>2, <3>3
  <2>9. ASSUME NEW c \in Client, c # d PROVE LineInv(c)'
    <3>1. queue'[c] = queue[c]
      BY <1>0, <1>3, <2>9 DEF SendTo, TypeOK
    <3> QED
      BY <2>6, <3>1
  <2> QED
    BY <2>3, <2>8, <2>9 DEF OrderInv
<1>4. ASSUME SendEnd(p) PROVE OrderInv'
  <2>1. /\ spc[p] = "fanout" /\ spc'[p] = "idle" /\ targets' = targets
        /\ \A q \in Producer : q # p => spc'[q] = spc[q]
        /\ UNCHANGED <<stored, bcastCount, sev, hpc, hand, queue, written, backlog, replay, done,
                       snapAt>>
    BY <1>0, <1>4 DEF SendEnd, TypeOK, ringVars, fanVars, connVars, playVars
  <2>2. Numbered' /\ StoredOnce'
    BY <1>0, <2>1 DEF Numbered, StoredOnce
  <2>3. ASSUME NEW c \in Client PROVE LineInv(c)'
    <3>1. ASSUME NEW f \in Frame, Older(c, f) PROVE Older(c, f)'
      <4>1. f.ev.from \in Producer
        BY DEF Frame, Event
      <4> QED
        BY <2>1, <3>1, <4>1 DEF Older, Owes
    <3>2. StoresAtMostOne
      BY <2>1 DEF StoresAtMostOne
    <3> QED
      BY <1>0, <2>1, <3>1, <3>2, KeepOtherLine
  <2> QED
    BY <2>2, <2>3 DEF OrderInv
<1> QED
  BY <1>1, <1>2, <1>3, <1>4 DEF Producing

(***************************************************************************)
(* A connection that fails keeps what is known of its stream, which loses  *)
(* what was in the writer's hand or in the backlog.                        *)
(***************************************************************************)
LEMMA CutLine ==
    ASSUME TypeOK, NEW c \in Client, LineInv(c), NEW n, NEW k,
           Cut(Stream(c), Stream(c)', n, k),
           \A f \in Frame : Older(c, f) => Older(c, f)',
           HasSnapshot(c)' = HasSnapshot(c), ~Intact(c)'
    PROVE  LineInv(c)'
<1> DEFINE s == Stream(c)
           t == Stream(c)'
<1>1. Orderly(s) /\ \A i \in DOMAIN s : s[i] \in Frame /\ Older(c, s[i])
  BY StreamSplit, LenProperties, ElementOfSeq DEF LineInv
<1>2. Orderly(t)
  BY <1>1, CutOrderly
<1>3. \A i \in DOMAIN t : \E j \in DOMAIN s : t[i] = s[j]
  BY CutHas
<1>4. ASSUME NEW g \in Frame, (\E i \in DOMAIN t : g = t[i]) PROVE Older(c, g)'
  BY <1>1, <1>3, <1>4
<1>5. \A i \in DOMAIN t : t[i] \in Frame
  BY <1>1, <1>3
<1>6. \A i \in DOMAIN Stream(c)' : Older(c, Stream(c)[i])'
  BY <1>4, <1>5 DEF Older
<1>7. ~HasSnapshot(c)' => \A i \in DOMAIN t : ~t[i].replayed
  BY <1>3 DEF LineInv
<1> QED
  BY <1>2, <1>6, <1>7 DEF LineInv, Orderly, Before

(***************************************************************************)
(* The steps of the handler: the writer moves frames along the stream, and *)
(* a failed write takes one out of it.                                     *)
(***************************************************************************)
LEMMA ServingOrderInv ==
    ASSUME TypeInv, TypeOK', GapInv, OrderInv, NEW d \in Client, Serving(d)
    PROVE  OrderInv'
<1>0. /\ TypeOK /\ Numbered /\ StoredOnce /\ LineInv(d) /\ Shape(d)
      /\ \A c \in Client : LineInv(c)
  BY DEF TypeInv, GapInv, ConnInv, OrderInv
<1>1. UNCHANGED <<stored, bcastCount, spc, sev, targets, backlog, snapAt>>
  BY DEF Serving, Register, ReaderEnd, WriterDone, WriterTake, WriterWrite, WriterFail,
         Unregister, CloseConn, ringVars, sendVars, fanVars, playVars
<1>2. Numbered' /\ StoredOnce'
  BY <1>0, <1>1 DEF Numbered, StoredOnce
<1>3. \A c \in Client, f \in Frame : Older(c, f) => Older(c, f)'
  BY <1>1 DEF Older, Owes
<1>4. StoresAtMostOne
  BY <1>1 DEF StoresAtMostOne
<1>5. ASSUME NEW c \in Client, c # d PROVE LineInv(c)'
  <2>1. UNCHANGED <<hpc[c], hand[c], queue[c], written[c], replay[c], done[c]>>
    BY <1>0, <1>5, OthersUntouched
  <2> QED
    BY <1>0, <1>1, <1>3, <1>4, <2>1, KeepOtherLine
\* A step that leaves the stream alone, with a connection that stays or ends.
<1>6. ASSUME Stream(d)' = Stream(d), HasSnapshot(d)' = HasSnapshot(d),
             Intact(d)' /\ HasSnapshot(d) => Intact(d)
      PROVE  LineInv(d)'
  <2>1. ASSUME Intact(d), HasSnapshot(d) PROVE Recent(snapAt[d])' = Recent(snapAt[d])
    <3>1. snapAt[d] <= Len(stored)
      BY <2>1 DEF GapInv, ConnInv, InSnapshot
    <3> QED
      BY <1>0, <1>1, <1>4, <3>1, RecentStable
  <2> QED
    BY <1>0, <1>3, <1>6, <2>1, KeepLine
<1>7. LineInv(d)'
  <2>1. CASE Register(d)
    <3>1. /\ hpc[d] = "new" /\ replay'[d] = "start" /\ UNCHANGED <<hand, queue, written>>
      BY <1>0, <2>1 DEF Register, TypeOK
    <3>2. ~HasSnapshot(d) /\ ~HasSnapshot(d)'
      BY <1>0, <3>1 DEF Shape, HasSnapshot
    <3>3. Stream(d)' = Stream(d)
      BY <1>1, <3>1 DEF Stream, ReplayFrames
    <3> QED
      BY <1>6, <3>2, <3>3 DEF HasSnapshot
  <2>2. CASE ReaderEnd(d) \/ WriterDone(d) \/ Unregister(d) \/ CloseConn(d)
    <3>1. UNCHANGED <<hand, queue, written, replay>>
      BY <2>2 DEF ReaderEnd, WriterDone, Unregister, CloseConn, playVars
    <3>2. ~Intact(d)'
      BY SMTT(30), <1>0, <2>2 DEF ReaderEnd, WriterDone, Unregister, CloseConn, Intact, TypeOK
    <3>3. Stream(d)' = Stream(d) /\ HasSnapshot(d)' = HasSnapshot(d)
      BY <1>1, <3>1 DEF Stream, ReplayFrames, HasSnapshot
    <3> QED
      BY <1>6, <3>2, <3>3
  <2>3. CASE WriterTake(d)
    <3>1. /\ hpc[d] = "serving" /\ hpc'[d] = "writing" /\ queue[d] # <<>>
          /\ hand'[d] = <<Head(queue[d])>> /\ queue'[d] = Tail(queue[d])
          /\ UNCHANGED <<done, written, replay>>
      BY <1>0, <2>3 DEF WriterTake, playVars, TypeOK
    <3>2. hand[d] = <<>>
      BY <1>0, <3>1 DEF Shape
    <3>3. Sent(d)' = Sent(d)
      <4> DEFINE w == written[d]
                 q == queue[d]
                 u == <<Head(q)>>
                 r == Tail(q)
      <4>1. w \in Seq(Frame) /\ q \in Seq(Frame) /\ r \in Seq(Frame)
        BY <1>0, <3>1, HeadTailProperties DEF TypeOK
      <4>2. u \in Seq(Frame) /\ q = u \o r
        BY <3>1, <4>1, HeadConcatTail
      <4>3. Sent(d) = w \o q
        BY <3>2, <4>1, ConcatEmptySeq DEF Sent
      <4>4. Sent(d)' = (w \o u) \o r
        BY <3>1 DEF Sent
      <4> HIDE DEF w, q, u, r
      <4>5. (w \o u) \o r = w \o (u \o r)
        BY <4>1, <4>2, ConcatAssociative
      <4> QED
        BY <4>2, <4>3, <4>4, <4>5
    <3>4. Stream(d)' = Stream(d)
      BY <1>1, <3>3 DEF Stream, Sent, ReplayFrames
    <3>5. HasSnapshot(d)' = HasSnapshot(d) /\ Intact(d)' = Intact(d)
      BY <3>1 DEF HasSnapshot, Intact
    <3> QED
      BY <1>6, <3>4, <3>5
  <2>4. CASE WriterWrite(d)
    <3>1. /\ hpc[d] = "writing" /\ hpc'[d] = "serving"
          /\ hand'[d] = <<>> /\ written'[d] = written[d] \o hand[d]
          /\ UNCHANGED <<done, queue, replay>>
      BY <1>0, <2>4 DEF WriterWrite, playVars, TypeOK
    <3>2. (written[d] \o hand[d]) \o <<>> = written[d] \o hand[d]
      <4>1. written[d] \o hand[d] \in Seq(Frame)
        BY <1>0, ConcatProperties DEF TypeOK
      <4> QED
        BY <4>1, ConcatEmptySeq
    <3>3. Stream(d)' = Stream(d)
      BY <1>1, <3>1, <3>2 DEF Stream, ReplayFrames
    <3>4. HasSnapshot(d)' = HasSnapshot(d) /\ Intact(d)' = Intact(d)
      BY <3>1 DEF HasSnapshot, Intact
    <3> QED
      BY <1>6, <3>3, <3>4
  <2>5. CASE WriterFail(d)
    <3>1. hpc'[d] = "leaving" /\ hand'[d] = <<>> /\ UNCHANGED <<queue, written, replay>>
      BY <1>0, <2>5 DEF WriterFail, playVars, TypeOK
    <3>2. ~Intact(d)' /\ HasSnapshot(d)' = HasSnapshot(d)
      BY <3>1 DEF Intact, HasSnapshot
    <3>3. Cut(Stream(d), Stream(d)', Len(written[d]), Len(hand[d]))
      <4> DEFINE w == written[d]
                 h == hand[d]
                 q == queue[d]
                 r == ReplayFrames(backlog[d])
      <4>1. w \in Seq(Frame) /\ h \in Seq(Frame) /\ q \in Seq(Frame) /\ r \in Seq(Frame)
        BY <1>0, StreamSplit
      <4>2. r' = r
        BY <1>1 DEF ReplayFrames
      <4>3. Stream(d) = ((w \o h) \o q) \o r
        BY DEF Stream
      <4>4. Stream(d)' = ((w \o <<>>) \o q) \o r
        BY <3>1, <4>2 DEF Stream
      <4> HIDE DEF w, h, q, r
      <4>5. w \o <<>> = w
        BY <4>1, ConcatEmptySeq
      <4>6. w \o h \in Seq(Frame) /\ q \o r \in Seq(Frame)
        BY <4>1, ConcatProperties
      <4>7. ((w \o h) \o q) \o r = (w \o h) \o (q \o r)
        <5>1. ASSUME NEW a \in Seq(Frame) PROVE (a \o q) \o r = a \o (q \o r)
          BY SMTT(30), <4>1, ConcatAssociative
        <5> QED
          BY <4>6, <5>1
      <4>8. (w \o q) \o r = w \o (q \o r)
        BY <4>1, ConcatAssociative
      <4>9. Cut((w \o h) \o (q \o r), w \o (q \o r), Len(w), Len(h))
        BY <4>1, <4>6, CutConcat
      <4> QED
        BY <4>3, <4>4, <4>5, <4>7, <4>8, <4>9 DEF w, h
    <3> QED
      BY <1>0, <1>3, <3>2, <3>3, CutLine
  <2> QED
    BY <2>1, <2>2, <2>3, <2>4, <2>5 DEF Serving
<1> QED
  BY <1>2, <1>5, <1>7 DEF OrderInv

(***************************************************************************)
(* The recent history has no event twice.                                  *)
(***************************************************************************)
LEMMA RecentDistinct ==
    ASSUME TypeOK, StoredOnce
    PROVE  /\ Recent(Len(stored)) \in Seq(Event)
           /\ \A i, j \in DOMAIN Recent(Len(stored)) :
                i # j => Recent(Len(stored))[i] # Recent(Len(stored))[j]
<1> DEFINE n == Len(stored)
           m == IF n > RingSize THEN n - RingSize + 1 ELSE 1
           r == Recent(n)
<1>1. n \in Nat /\ \A i \in 1 .. n : stored[i] \in Event
  BY LenProperties, ElementOfSeq DEF TypeOK
<1>2. m \in 1 .. n + 1 /\ r = SubSeq(stored, m, n)
  BY <1>1, RingSizeAssumption DEF Recent
<1> HIDE DEF m, n
<1>3. m \in Int /\ n \in Int /\ \A i \in m .. n : stored[i] \in Event
  BY <1>1, <1>2
<1>4. /\ SubSeq(stored, m, n) \in Seq(Event)
      /\ Len(SubSeq(stored, m, n)) = IF m <= n THEN n - m + 1 ELSE 0
      /\ \A i \in 1 .. n - m + 1 : SubSeq(stored, m, n)[i] = stored[m + i - 1]
  BY <1>3, SubSeqProperties
<1>5. Len(r) = n - m + 1 /\ r \in Seq(Event) /\ DOMAIN r = 1 .. n - m + 1
  BY <1>1, <1>2, <1>4, LenProperties
<1> HIDE DEF r
<1>6. ASSUME NEW i \in 1 .. n - m + 1, NEW j \in 1 .. n - m + 1, i # j PROVE r[i] # r[j]
  <2>1. m + i - 1 \in 1 .. n /\ m + j - 1 \in 1 .. n /\ m + i - 1 # m + j - 1
    BY <1>1, <1>2, <1>6
  <2>2. r[i] = stored[m + i - 1] /\ r[j] = stored[m + j - 1]
    BY <1>2, <1>4
  <2>3. ASSUME NEW k \in 1 .. n, NEW l \in 1 .. n, k # l PROVE stored[k] # stored[l]
    <3>1. k < l \/ l < k
      BY <1>1, <2>3
    <3> QED
      BY <3>1 DEF StoredOnce, InTurn, n
  <2> QED
    BY <2>1, <2>2, <2>3
<1> QED
  BY <1>5, <1>6 DEF r, n

(***************************************************************************)
(* The steps of the replay: the snapshot comes behind everything that was  *)
(* sent, and its events move along the stream.                             *)
(***************************************************************************)
LEMMA ReplayingOrderInv ==
    ASSUME TypeInv, TypeOK', GapInv, OrderInv, NEW d \in Client, Replaying(d)
    PROVE  OrderInv'
<1>0. /\ TypeOK /\ Numbered /\ StoredOnce /\ LineInv(d) /\ Shape(d)
      /\ \A c \in Client : LineInv(c)
  BY DEF TypeInv, GapInv, ConnInv, OrderInv
<1>1. UNCHANGED <<stored, bcastCount, spc, sev, targets, hpc, hand, done, written>>
  BY DEF Replaying, ReplaySnapshot, ReplaySend, ReplayAbort, ReplayFinish, ringVars, sendVars,
         fanVars, connVars
<1>2. Numbered' /\ StoredOnce'
  BY <1>0, <1>1 DEF Numbered, StoredOnce
<1>3. \A c \in Client, f \in Frame : Older(c, f) => Older(c, f)'
  BY <1>1 DEF Older, Owes
<1>4. StoresAtMostOne
  BY <1>1 DEF StoresAtMostOne
<1>5. ASSUME NEW c \in Client, c # d PROVE LineInv(c)'
  <2>1. UNCHANGED <<queue[c], backlog[c], replay[c], snapAt[c]>>
    BY <1>0, <1>5, OthersUntouched
  <2> QED
    BY <1>0, <1>1, <1>3, <1>4, <2>1, KeepOtherLine
<1>6. Intact(d)' = Intact(d)
  BY <1>1 DEF Intact
\* A step that leaves the stream alone.
<1>7. ASSUME Stream(d)' = Stream(d), HasSnapshot(d)' = HasSnapshot(d), snapAt' = snapAt
      PROVE  LineInv(d)'
  <2>1. ASSUME Intact(d), HasSnapshot(d) PROVE Recent(snapAt[d])' = Recent(snapAt[d])
    <3>1. snapAt[d] <= Len(stored)
      BY <2>1 DEF GapInv, ConnInv, InSnapshot
    <3> QED
      BY <1>0, <1>4, <1>7, <3>1, RecentStable
  <2> QED
    BY <1>0, <1>3, <1>6, <1>7, <2>1, KeepLine
<1>8. LineInv(d)'
  <2>1. CASE ReplaySnapshot(d)
    <3> DEFINE r == Recent(Len(stored))
               s == Sent(d)
               b == ReplayFrames(r)
               t == s \o b
               n == Len(s)
    <3>1. /\ replay[d] = "start" /\ backlog[d] = <<>> /\ backlog'[d] = Snapshot
          /\ snapAt'[d] = Len(stored) /\ queue' = queue
      BY <1>0, <2>1 DEF ReplaySnapshot, TypeOK, Shape
    <3>2. Snapshot = r
      BY <1>0, SnapshotOK DEF TypeInv, TypeOK, RingTyped
    <3>3. r \in Seq(Event) /\ \A i, j \in DOMAIN r : i # j => r[i] # r[j]
      BY <1>0, RecentDistinct
    <3>4. Recent(snapAt[d])' = r
      BY <1>1, <3>1 DEF Recent
    <3>5. Stream(d)' = t
      BY <1>1, <3>1, <3>2 DEF Stream, Sent, ReplayFrames
    <3>6. Stream(d) = s /\ s \in Seq(Frame) /\ \A i \in DOMAIN s : s[i] \in Frame
      <4>1. ReplayFrames(backlog[d]) \in Seq(Frame) /\ Len(ReplayFrames(backlog[d])) = 0
        BY <3>1, EmptySeq, ReplayFramesOK
      <4>2. ReplayFrames(backlog[d]) = <<>>
        BY <4>1, EmptySeq
      <4>3. Stream(d) = s \o <<>> /\ s \in Seq(Frame)
        BY <1>0, <4>2, StreamSplit
      <4>4. s \o <<>> = s
        BY <4>3, ConcatEmptySeq
      <4> QED
        BY <4>3, <4>4, ElementOfSeq, LenProperties
    <3>7. Orderly(s) /\ \A i \in DOMAIN s : Older(d, s[i]) /\ ~s[i].replayed
      BY <1>0, <3>1, <3>6 DEF LineInv, HasSnapshot
    <3>8. /\ b \in Seq(Frame) /\ DOMAIN b = DOMAIN r /\ DOMAIN r = 1 .. Len(r)
          /\ \A i \in DOMAIN r : b[i] = Replayed(r[i])
          /\ Len(b) = Len(r) /\ Len(r) \in Nat /\ n \in Nat /\ DOMAIN s = 1 .. n
      BY <3>3, <3>6, ReplayFramesOK, LenProperties
    <3> HIDE DEF r, s, b
    <3>9. /\ t \in Seq(Frame) /\ Len(t) = n + Len(r)
          /\ \A i \in 1 .. n + Len(r) : t[i] = IF i <= n THEN s[i] ELSE b[i - n]
      <4>1. /\ t \in Seq(Frame) /\ Len(t) = Len(s) + Len(b)
            /\ \A i \in 1 .. Len(s) + Len(b) : t[i] = IF i <= Len(s) THEN s[i] ELSE b[i - Len(s)]
        <5>1. s \in Seq(Frame) /\ b \in Seq(Frame)
          BY <3>6, <3>8
        <5> QED
          BY <5>1, ConcatProperties
      <4> QED
        BY <3>8, <4>1
    <3>10. DOMAIN t = 1 .. n + Len(r)
      BY <3>8, <3>9, LenProperties
    <3> HIDE DEF t, n
    <3>11. ASSUME NEW i \in DOMAIN t
           PROVE  \/ i \in DOMAIN s /\ t[i] = s[i] /\ ~t[i].replayed
                  \/ i - n \in DOMAIN r /\ i > n /\ t[i] = Replayed(r[i - n])
      <4>1. i \in 1 .. n + Len(r) /\ i \in Int
        BY <3>8, <3>10
      <4>2. CASE i <= n
        BY <3>7, <3>8, <3>9, <4>1, <4>2
      <4>3. CASE i > n
        <5>1. i - n \in DOMAIN r /\ ~(i <= n)
          BY <3>8, <4>1, <4>3
        <5>2. t[i] = b[i - n] /\ b[i - n] = Replayed(r[i - n])
          BY <3>8, <3>9, <4>1, <5>1
        <5> QED
          BY <4>3, <5>1, <5>2
      <4> QED
        BY <3>8, <4>1, <4>2, <4>3
    <3>12. \A e : Replayed(e).replayed /\ Replayed(e).ev = e
      BY DEF Replayed
    <3>13. ASSUME NEW j \in DOMAIN t, NEW i \in 1 .. j - 1 PROVE Before(t[i], t[j])
      <4>1. i \in DOMAIN t /\ i \in Int /\ j \in Int /\ i < j
        BY <3>8, <3>10
      <4>2. CASE j \in DOMAIN s
        <5>1. i \in DOMAIN s /\ i <= n /\ j <= n
          BY <3>8, <4>1, <4>2
        <5>2. t[i] = s[i] /\ t[j] = s[j]
          BY <3>8, <3>11, <4>1, <4>2, <5>1
        <5> QED
          BY <3>7, <4>2, <5>2 DEF Orderly
      <4>3. CASE j \notin DOMAIN s
        <5>1. j - n \in DOMAIN r /\ t[j] = Replayed(r[j - n])
          BY <3>11, <4>3
        <5>2. CASE ~t[i].replayed
          BY <3>12, <5>1, <5>2 DEF Before
        <5>3. CASE t[i].replayed
          <6>1. i - n \in DOMAIN r /\ t[i] = Replayed(r[i - n]) /\ i - n # j - n
            BY <3>8, <3>11, <4>1, <5>3
          <6>2. r[i - n] # r[j - n]
            BY <3>3, <5>1, <6>1
          <6> QED
            BY <3>12, <5>1, <6>1, <6>2 DEF Before
        <5> QED
          BY <5>2, <5>3
      <4> QED
        BY <4>2, <4>3
    <3>14. \A i \in DOMAIN Stream(d)' : Older(d, Stream(d)[i])'
      <4>1. ASSUME NEW g \in Frame, (\E i \in DOMAIN t : g = t[i]) PROVE Older(d, g)'
        <5>1. CASE g.replayed
          BY <5>1 DEF Older
        <5>2. CASE ~g.replayed
          <6>1. \E i \in DOMAIN s : g = s[i]
            BY <3>11, <3>12, <4>1, <5>2
          <6> QED
            BY <1>3, <3>7, <6>1
        <5> QED
          BY <5>1, <5>2
      <4>2. \A i \in DOMAIN t : t[i] \in Frame
        BY <3>9, LenProperties, ElementOfSeq
      <4> QED
        BY <3>5, <4>1, <4>2 DEF Older
    <3>15. Replays(t, r)
      <4> DEFINE at == [k \in DOMAIN r |-> n + k]
      <4>1. \A k \in DOMAIN r : at[k] \in DOMAIN t /\ at[k] = n + k
        BY <3>8, <3>10
      <4>2. at \in [DOMAIN r -> DOMAIN t]
        BY <4>1
      <4>3. \A j, k \in DOMAIN r : j < k => at[j] < at[k]
        BY <3>8, <4>1
      <4>4. ASSUME NEW k \in DOMAIN r PROVE t[at[k]] = Replayed(r[k])
        <5>1. n + k \in DOMAIN t /\ n + k \notin DOMAIN s /\ (n + k) - n = k
          BY <3>8, <3>10
        <5> QED
          BY <3>11, <4>1, <5>1
      <4>5. ASSUME NEW i \in DOMAIN t, t[i].replayed PROVE \E k \in DOMAIN r : i = at[k]
        <5>1. i - n \in DOMAIN r /\ i \in Int
          BY <3>8, <3>10, <3>11, <4>5
        <5>2. i = n + (i - n)
          BY <3>8, <5>1
        <5> QED
          BY <4>1, <5>1, <5>2
      <4> HIDE DEF at
      <4> QED
        BY <4>2, <4>3, <4>4, <4>5 DEF Replays
    <3>16. HasSnapshot(d)'
      BY <1>0, <2>1 DEF ReplaySnapshot, TypeOK, HasSnapshot
    <3> QED
      BY <3>4, <3>5, <3>13, <3>14, <3>15, <3>16 DEF LineInv, Orderly, Replays, Before
  <2>2. CASE ReplaySend(d)
    <3>1. /\ replay' = replay /\ snapAt' = snapAt /\ backlog[d] # <<>>
          /\ queue'[d] = Append(queue[d], Replayed(Head(backlog[d])))
          /\ backlog'[d] = Tail(backlog[d])
      BY <1>0, <2>2 DEF ReplaySend, TypeOK
    <3>2. Stream(d)' = Stream(d)
      <4> DEFINE w == written[d] \o hand[d]
                 q == queue[d]
                 b == backlog[d]
                 f == Replayed(Head(b))
                 r == ReplayFrames(b)
                 u == ReplayFrames(Tail(b))
      <4>1. w \in Seq(Frame) /\ q \in Seq(Frame) /\ b \in Seq(Event) /\ r \in Seq(Frame)
        BY <1>0, StreamSplit, ConcatProperties
      <4>2. /\ Head(b) \in Event /\ Tail(b) \in Seq(Event) /\ Len(b) \in Nat \ {0}
            /\ Len(Tail(b)) = Len(b) - 1 /\ Head(b) = b[1]
            /\ \A i \in 1 .. Len(b) - 1 : Tail(b)[i] = b[i + 1]
        BY <3>1, <4>1, HeadTailProperties, EmptySeq
      <4>3. f \in Frame
        BY <4>2 DEF Replayed, Frame
      <4>4. Stream(d) = (w \o q) \o r
        BY DEF Stream
      <4>5. Stream(d)' = (w \o Append(q, f)) \o u
        BY <1>1, <3>1 DEF Stream, ReplayFrames
      <4>6. r = <<f>> \o u
        <5>1. /\ Len(r) = Len(b) /\ u \in Seq(Frame) /\ Len(u) = Len(b) - 1
              /\ \A i \in 1 .. Len(b) : r[i] = Replayed(b[i])
              /\ \A i \in 1 .. Len(b) - 1 : u[i] = Replayed(Tail(b)[i])
          BY <4>1, <4>2, ReplayFramesOK, LenProperties
        <5>2. r # <<>>
          BY <4>2, <5>1
        <5>3. <<Head(r)>> \in Seq(Frame) /\ r = <<Head(r)>> \o Tail(r)
          BY <4>1, <5>2, HeadConcatTail
        <5>4. /\ Head(r) = r[1] /\ Tail(r) \in Seq(Frame) /\ Len(Tail(r)) = Len(r) - 1
              /\ \A i \in 1 .. Len(r) - 1 : Tail(r)[i] = r[i + 1]
          BY <4>1, <5>2, HeadTailProperties
        <5>5. Head(r) = f
          BY <4>2, <5>1, <5>4
        <5>6. ASSUME NEW i \in 1 .. Len(b) - 1 PROVE Tail(r)[i] = u[i]
          <6>1. i + 1 \in 1 .. Len(b)
            BY <4>2
          <6>2. Tail(r)[i] = r[i + 1] /\ r[i + 1] = Replayed(b[i + 1])
            BY <5>1, <5>4, <6>1
          <6>3. u[i] = Replayed(Tail(b)[i]) /\ Tail(b)[i] = b[i + 1]
            BY <4>2, <5>1
          <6> QED
            BY <6>2, <6>3
        <5>7. Tail(r) = u
          BY <5>1, <5>4, <5>6, SeqEqual
        <5> QED
          BY <5>3, <5>5, <5>7
      <4>7. u \in Seq(Frame) /\ <<f>> \in Seq(Frame)
        <5>1. u \in Seq(Frame)
          BY <4>2, ReplayFramesOK
        <5> HIDE DEF f
        <5> QED
          BY <4>3, <5>1
      <4> HIDE DEF w, q, b, f, r, u
      <4>8. w \o q \in Seq(Frame)
        BY <4>1, ConcatProperties
      <4>9. w \o Append(q, f) = (w \o q) \o <<f>>
        BY <4>1, <4>3, <4>8, AppendBehind, AppendIsConcat
      <4>10. ASSUME NEW x \in Seq(Frame), NEW y \in Seq(Frame), NEW z \in Seq(Frame)
             PROVE  (x \o y) \o z = x \o (y \o z)
        BY ConcatAssociative
      <4>11. ((w \o q) \o <<f>>) \o u = (w \o q) \o (<<f>> \o u)
        BY <4>7, <4>8, <4>10
      <4> QED
        BY <4>4, <4>5, <4>6, <4>9, <4>11
    <3>3. HasSnapshot(d)' = HasSnapshot(d)
      BY <3>1 DEF HasSnapshot
    <3> QED
      BY <1>7, <3>1, <3>2, <3>3
  <2>3. CASE ReplayAbort(d)
    <3>1. /\ done[d] /\ backlog'[d] = <<>> /\ UNCHANGED <<queue, snapAt>>
          /\ HasSnapshot(d)' = HasSnapshot(d)
      BY <1>0, <2>3 DEF ReplayAbort, TypeOK, HasSnapshot
    <3>2. ~Intact(d)'
      BY <1>1, <3>1 DEF Intact
    <3>3. \E n, k : Cut(Stream(d), Stream(d)', n, k)
      <4> DEFINE s == Sent(d)
                 r == ReplayFrames(backlog[d])
      <4>1. s \in Seq(Frame) /\ r \in Seq(Frame) /\ Stream(d) = s \o r
        BY <1>0, StreamSplit
      <4>2. ReplayFrames(<<>>) = <<>>
        <5>1. ReplayFrames(<<>>) \in Seq(Frame) /\ Len(ReplayFrames(<<>>)) = 0
          BY EmptySeq, ReplayFramesOK
        <5> QED
          BY <5>1, EmptySeq
      <4>3. Stream(d)' = s \o <<>>
        BY <1>1, <3>1, <4>2 DEF Stream, Sent, ReplayFrames
      <4> HIDE DEF s, r
      <4>4. s \o r \in Seq(Frame) /\ <<>> \in Seq(Frame)
        BY <4>1, ConcatProperties, EmptySeq
      <4>5. (s \o r) \o <<>> = s \o r
        BY <4>4, ConcatEmptySeq
      <4>6. Cut((s \o r) \o <<>>, s \o <<>>, Len(s), Len(r))
        BY <4>1, <4>4, CutConcat
      <4> QED
        BY <4>1, <4>3, <4>5, <4>6
    <3> QED
      BY <1>0, <1>3, <3>1, <3>2, <3>3, CutLine
  <2>4. CASE ReplayFinish(d)
    <3>1. UNCHANGED <<queue, backlog, snapAt>> /\ HasSnapshot(d)' = HasSnapshot(d)
      BY <1>0, <2>4 DEF ReplayFinish, TypeOK, HasSnapshot
    <3>2. Stream(d)' = Stream(d)
      BY <1>1, <3>1 DEF Stream, ReplayFrames
    <3> QED
      BY <1>7, <3>1, <3>2
  <2> QED
    BY <2>1, <2>2, <2>3, <2>4 DEF Replaying
<1> QED
  BY <1>2, <1>5, <1>8 DEF OrderInv

(***************************************************************************)
(* OrderInv holds in every state.                                          *)
(***************************************************************************)
LEMMA OrderInvariant == Spec => [](TypeInv /\ GapInv /\ OrderInv)
<1>1. Init => TypeInv /\ GapInv /\ OrderInv
  BY InitTypeInv, InitGapInv, InitOrderInv
<1>2. TypeInv /\ GapInv /\ OrderInv /\ [Next]_vars => OrderInv'
  <2> SUFFICES ASSUME TypeInv, GapInv, OrderInv, [Next]_vars PROVE OrderInv'
    OBVIOUS
  <2>0. TypeOK'
    BY NextTypeInv DEF TypeInv
  <2>1. CASE \E p \in Producer : Producing(p)
    BY <2>0, <2>1, ProducingOrderInv
  <2>2. CASE \E c \in Client : Serving(c) \/ Replaying(c)
    BY <2>0, <2>2, ServingOrderInv, ReplayingOrderInv
  <2>3. CASE UNCHANGED vars
    <3>1. Numbered' /\ StoredOnce'
      BY <2>3 DEF vars, ringVars, sendVars, OrderInv, Numbered, StoredOnce
    <3>2. ASSUME NEW c \in Client PROVE LineInv(c)'
      <4>1. TypeOK /\ LineInv(c) /\ StoresAtMostOne /\ \A f \in Frame : Older(c, f) => Older(c, f)'
        BY <2>3 DEF vars, ringVars, sendVars, fanVars, TypeInv, OrderInv, StoresAtMostOne, Older, Owes
      <4>2. UNCHANGED <<written[c], hand[c], queue[c], backlog[c], replay[c], hpc[c], done[c],
                        snapAt[c]>>
        BY <2>3 DEF vars, connVars, playVars
      <4> QED
        BY <2>0, <4>1, <4>2, KeepOtherLine
    <3> QED
      BY <3>1, <3>2 DEF OrderInv
  <2> QED
    BY <2>1, <2>2, <2>3 DEF Next
<1>3. TypeInv /\ GapInv /\ [Next]_vars => TypeInv' /\ GapInv'
  BY NextTypeInv, NextGapInv
<1> QED
  BY <1>1, <1>2, <1>3, PTL DEF Spec

(***************************************************************************)
(* Of two events in the ring's history, and of two live frames of a        *)
(* connection, the first is another one and may come first.                *)
(***************************************************************************)
LEMMA EventsInTurn ==
    ASSUME OrderInv
    PROVE  /\ \A j \in DOMAIN stored : \A i \in 1 .. j - 1 : InTurn(stored[i], stored[j])
           /\ \A c \in Client : \A j \in DOMAIN Stream(c) : \A i \in 1 .. j - 1 :
                  LET f == Stream(c)[i]
                      g == Stream(c)[j]
                  IN  ~f.replayed /\ ~g.replayed => InTurn(f.ev, g.ev)
<1>1. ASSUME NEW j \in DOMAIN stored, NEW i \in 1 .. j - 1 PROVE InTurn(stored[i], stored[j])
  BY DEF OrderInv, StoredOnce
<1>2. ASSUME NEW c \in Client, NEW j \in DOMAIN Stream(c), NEW i \in 1 .. j - 1
      PROVE  Before(Stream(c)[i], Stream(c)[j])
  BY DEF OrderInv, LineInv, Orderly
<1> QED
  BY <1>1, <1>2 DEF Before

(***************************************************************************)
(* Whatever the broadcasts, the writers and the replays do meanwhile, the  *)
(* events are stored, and the live frames reach every connection, in an    *)
(* order that respects the order of the broadcasts (hub.go, send).         *)
(***************************************************************************)
THEOREM BroadcastsInOrder == Spec => []BroadcastOrder
<1>1. OrderInv => BroadcastOrder
  BY EventsInTurn DEF BroadcastOrder, InTurn
<1> QED
  BY <1>1, OrderInvariant, PTL

(***************************************************************************)
(* And each at most once: no event is stored twice, or comes twice as a    *)
(* live frame to the same connection, whatever copies of the client set    *)
(* the producers still go through (hub.go:93-120).                         *)
(***************************************************************************)
EachOnce ==
    /\ \A j \in DOMAIN stored : \A i \in 1 .. j - 1 : stored[i].id # stored[j].id
    /\ \A c \in Client : \A j \in DOMAIN Stream(c) : \A i \in 1 .. j - 1 :
           LET f == Stream(c)[i]
               g == Stream(c)[j]
           IN  ~f.replayed /\ ~g.replayed => f.ev.id # g.ev.id

THEOREM BroadcastsOnce == Spec => []EachOnce
<1>1. OrderInv => EachOnce
  BY EventsInTurn DEF EachOnce, InTurn
<1> QED
  BY <1>1, OrderInvariant, PTL

(***************************************************************************)
(* The replay of an intact connection is the recent history at its         *)
(* snapshot, every event once and in order, however live frames come       *)
(* between (server.go, the replay goroutine).                              *)
(***************************************************************************)
THEOREM ReplayComplete == Spec => []ReplayIntact
<1>1. OrderInv => ReplayIntact
  BY DEF OrderInv, LineInv, ReplayIntact
<1> QED
  BY <1>1, OrderInvariant, PTL
-----------------------------------------------------------------------------
(***************************************************************************)
(* The offers that are outstanding can be counted.                         *)
(***************************************************************************)
LEMMA StillToOfferFinite == IsFiniteSet(StillToOffer) /\ Cardinality(StillToOffer) \in Nat
<1>1. IsFiniteSet(Producer \X Client)
  BY HubAssumption, FS_Product
<1>2. StillToOffer \in SUBSET (Producer \X Client)
  BY DEF StillToOffer
<1> QED
  BY <1>1, <1>2, FS_Subset, FS_CardinalityType

(***************************************************************************)
(* Every step of the broadcasts keeps the counters in balance.             *)
(***************************************************************************)
LEMMA NextFramesConserved ==
    ASSUME TypeInv, GapInv, FramesConserved, [Next]_vars
    PROVE  FramesConserved'
<1>0. /\ TypeOK /\ Fanning
      /\ offered \in Nat /\ deliverCount \in Nat /\ dropCount \in Nat
      /\ targets \in [Producer -> SUBSET Client] /\ clients \subseteq Client
      /\ offered = deliverCount + dropCount + Cardinality(StillToOffer)
  BY DEF TypeInv, GapInv, TypeOK, FramesConserved
<1>1. ASSUME UNCHANGED fanVars PROVE FramesConserved'
  BY <1>1 DEF fanVars, FramesConserved, StillToOffer
<1>2. ASSUME NEW p \in Producer, SendLocked(p) PROVE FramesConserved'
  <2> DEFINE new == {p} \X clients
  <2>1. /\ targets[p] = {} /\ targets' = [targets EXCEPT ![p] = clients]
        /\ offered' = offered + Cardinality(clients)
        /\ deliverCount' = deliverCount /\ dropCount' = dropCount
    BY <1>0, <1>2 DEF SendLocked, Fanning
  <2>2. StillToOffer' = StillToOffer \cup new /\ StillToOffer \cap new = {}
    <3>1. StillToOffer' = {pc \in Producer \X Client : pc[2] \in targets'[pc[1]]}
      BY DEF StillToOffer
    <3>2. ASSUME NEW q \in Producer, NEW c \in Client
          PROVE  /\ <<q, c>> \in StillToOffer' <=> (<<q, c>> \in StillToOffer \/ <<q, c>> \in new)
                 /\ <<q, c>> \in StillToOffer => <<q, c>> \notin new
      <4>1. c \in targets'[q] <=> (c \in targets[q] \/ (q = p /\ c \in clients))
        BY <1>0, <2>1
      <4>2. q = p => c \notin targets[q]
        BY <2>1
      <4> QED
        BY <3>1, <4>1, <4>2 DEF StillToOffer
    <3>3. StillToOffer \subseteq Producer \X Client /\ StillToOffer' \subseteq Producer \X Client
      BY <3>1 DEF StillToOffer
    <3>4. new \subseteq Producer \X Client
      BY <1>0
    <3> QED
      BY <3>2, <3>3, <3>4
  <2>3. IsFiniteSet(clients) /\ IsFiniteSet({p}) /\ Cardinality({p}) = 1
        /\ Cardinality(clients) \in Nat
    BY <1>0, HubAssumption, FS_Subset, FS_Singleton, FS_CardinalityType
  <2>4. IsFiniteSet(new) /\ Cardinality(new) = Cardinality(clients)
    <3>1. IsFiniteSet(new) /\ Cardinality(new) = 1 * Cardinality(clients)
      BY <2>3, FS_Product
    <3> QED
      BY <2>3, <3>1
  <2> HIDE DEF new
  <2>5. Cardinality(StillToOffer') = Cardinality(StillToOffer) + Cardinality(clients)
    <3>1. Cardinality(StillToOffer \cup new) =
            Cardinality(StillToOffer) + Cardinality(new) - Cardinality(StillToOffer \cap new)
      BY <2>4, StillToOfferFinite, FS_Union
    <3>2. Cardinality(StillToOffer \cap new) = 0
      BY <2>2, FS_EmptySet
    <3> QED
      BY <2>2, <2>3, <2>4, <3>1, <3>2, StillToOfferFinite
  <2> QED
    BY <1>0, <2>1, <2>3, <2>5, StillToOfferFinite DEF FramesConserved
<1>3. ASSUME NEW p \in Producer, NEW c \in Client, SendTo(p, c) PROVE FramesConserved'
  <2>1. /\ c \in targets[p] /\ targets' = [targets EXCEPT ![p] = targets[p] \ {c}]
        /\ offered' = offered
        /\ \/ deliverCount' = deliverCount + 1 /\ dropCount' = dropCount
           \/ deliverCount' = deliverCount /\ dropCount' = dropCount + 1
    BY <1>3 DEF SendTo
  <2>2. StillToOffer' = StillToOffer \ {<<p, c>>} /\ <<p, c>> \in StillToOffer
    <3>1. StillToOffer' = {pc \in Producer \X Client : pc[2] \in targets'[pc[1]]}
      BY DEF StillToOffer
    <3>2. ASSUME NEW q \in Producer, NEW d \in Client
          PROVE  <<q, d>> \in StillToOffer' <=> (<<q, d>> \in StillToOffer /\ <<q, d>> # <<p, c>>)
      <4>1. d \in targets'[q] <=> (d \in targets[q] /\ ~(q = p /\ d = c))
        BY <1>0, <2>1
      <4> QED
        BY <3>1, <4>1 DEF StillToOffer
    <3>3. StillToOffer \subseteq Producer \X Client /\ StillToOffer' \subseteq Producer \X Client
      BY <3>1 DEF StillToOffer
    <3>4. <<p, c>> \in StillToOffer
      BY <2>1 DEF StillToOffer
    <3> QED
      BY <3>2, <3>3, <3>4
  <2>3. Cardinality(StillToOffer') = Cardinality(StillToOffer) - 1
    BY <2>2, StillToOfferFinite, FS_RemoveElement
  <2>4. offered' = deliverCount' + dropCount' + (Cardinality(StillToOffer) - 1)
    <3>1. offered = deliverCount + dropCount + Cardinality(StillToOffer)
          /\ Cardinality(StillToOffer) \in Nat
      BY <1>0, StillToOfferFinite
    <3>2. CASE deliverCount' = deliverCount + 1 /\ dropCount' = dropCount
      BY <1>0, <2>1, <3>1, <3>2
    <3>3. CASE deliverCount' = deliverCount /\ dropCount' = dropCount + 1
      BY <1>0, <2>1, <3>1, <3>3
    <3> QED
      BY <2>1, <3>2, <3>3
  <2> QED
    BY <2>3, <2>4 DEF FramesConserved
<1>4. CASE \E p \in Producer : Producing(p)
  <2> PICK p \in Producer : Producing(p)
    BY <1>4
  <2>1. ASSUME NEW store \in BOOLEAN, SendBegin(p, store) PROVE FramesConserved'
    BY <1>1, <2>1 DEF SendBegin
  <2>2. ASSUME SendEnd(p) PROVE FramesConserved'
    BY <1>1, <2>2 DEF SendEnd
  <2> QED
    BY <1>2, <1>3, <2>1, <2>2 DEF Producing
<1>5. CASE \E c \in Client : Serving(c) \/ Replaying(c)
  BY <1>1, <1>5 DEF Serving, Register, ReaderEnd, WriterDone, WriterTake, WriterWrite, WriterFail,
     Unregister, CloseConn, Replaying, ReplaySnapshot, ReplaySend, ReplayAbort, ReplayFinish
<1>6. CASE UNCHANGED vars
  BY <1>1, <1>6 DEF vars
<1> QED
  BY <1>4, <1>5, <1>6 DEF Next

(***************************************************************************)
(* No frame is counted twice and none is forgotten (deliverCount and       *)
(* dropCount of hub.go).                                                   *)
(***************************************************************************)
THEOREM CountersAddUp == Spec => []FramesConserved
<1>1. Init => FramesConserved
  <2> SUFFICES ASSUME Init PROVE FramesConserved
    OBVIOUS
  <2>1. StillToOffer = {}
    BY DEF Init, StillToOffer
  <2> QED
    BY <2>1, FS_EmptySet DEF Init, FramesConserved
<1>2. TypeInv /\ GapInv /\ FramesConserved /\ [Next]_vars => FramesConserved'
  BY NextFramesConserved
<1> QED
  BY <1>1, <1>2, OrderInvariant, PTL DEF Spec

-----------------------------------------------------------------------------
(***************************************************************************)
(* The hub and its handlers implement the abstract feed: each of their     *)
(* steps is a step of the feed or changes nothing of it.                   *)
(***************************************************************************)

\* What the feed's variables stand for, as in the refinement mapping of Hub.
Owed     == [c \in Client |-> Pending(c)]
CaughtUp == {c \in Client : HasSnapshot(c)}
Breakage == {c \in Client : hpc[c] # "new" /\ ~Intact(c)}

\* What is still to be offered to a connection.
Fanned(c) == {Live(sev[p]) : p \in {q \in Producer : c \in targets[q]}}

(***************************************************************************)
(* The events and frames of sequences that are put together or taken       *)
(* apart.                                                                  *)
(***************************************************************************)
LEMMA RangeAppend ==
    ASSUME NEW S, NEW s \in Seq(S), NEW f \in S
    PROVE  Range(Append(s, f)) = Range(s) \cup {f}
<1> DEFINE t == Append(s, f)
<1>1. /\ Len(s) \in Nat /\ DOMAIN s = 1 .. Len(s)
      /\ DOMAIN t = 1 .. Len(s) + 1
      /\ \A i \in 1 .. Len(s) : t[i] = s[i]
      /\ t[Len(s) + 1] = f
  BY AppendProperties, LenProperties
<1> HIDE DEF t
<1>2. /\ Len(s) + 1 \in 1 .. Len(s) + 1 /\ 1 .. Len(s) \subseteq 1 .. Len(s) + 1
      /\ \A i \in 1 .. Len(s) + 1 : i = Len(s) + 1 \/ i \in 1 .. Len(s)
  BY <1>1
<1>3. Range(t) \subseteq Range(s) \cup {f}
  BY <1>1, <1>2 DEF Range
<1>4. Range(s) \subseteq Range(t) /\ f \in Range(t)
  BY <1>1, <1>2 DEF Range
<1> QED
  BY <1>3, <1>4 DEF t

\* What is in a sequence is its head and what is in its tail.
LEMMA RangeHeadTail ==
    ASSUME NEW S, NEW s \in Seq(S), s # <<>>
    PROVE  Range(s) = {Head(s)} \cup Range(Tail(s))
<1>1. /\ Len(s) \in Nat \ {0} /\ DOMAIN s = 1 .. Len(s)
      /\ DOMAIN Tail(s) = 1 .. Len(s) - 1
      /\ \A i \in 1 .. Len(s) - 1 : Tail(s)[i] = s[i + 1]
      /\ Head(s) = s[1]
  BY HeadTailProperties, LenProperties, EmptySeq
<1>2. Head(s) \in Range(s)
  BY <1>1 DEF Range
<1>3. ASSUME NEW i \in DOMAIN Tail(s) PROVE Tail(s)[i] \in Range(s)
  <2>1. i + 1 \in DOMAIN s /\ Tail(s)[i] = s[i + 1]
    BY <1>1
  <2> QED
    BY <2>1 DEF Range
<1>4. Range(Tail(s)) \subseteq Range(s)
  BY <1>3 DEF Range
<1> QED
  BY <1>2, <1>4, RangeTake

\* What is in two sequences put together is in one of them.
LEMMA RangeConcat ==
    ASSUME NEW S, NEW s \in Seq(S), NEW t \in Seq(S)
    PROVE  Range(s \o t) = Range(s) \cup Range(t)
<1> DEFINE n == Len(s)
           u == s \o t
<1>1. /\ DOMAIN s = 1 .. n /\ n \in Nat
      /\ DOMAIN t = 1 .. Len(t) /\ Len(t) \in Nat
      /\ u \in Seq(S) /\ Len(u) = n + Len(t)
      /\ \A i \in 1 .. n + Len(t) : u[i] = IF i <= n THEN s[i] ELSE t[i - n]
  BY ConcatProperties, LenProperties
<1>2. DOMAIN u = 1 .. n + Len(t)
  BY <1>1, LenProperties
<1> HIDE DEF n, u
<1>3. ASSUME NEW i \in DOMAIN u PROVE u[i] \in Range(s) \cup Range(t)
  <2>1. CASE i <= n
    <3>1. i \in DOMAIN s /\ u[i] = s[i]
      BY <1>1, <1>2, <2>1
    <3> QED
      BY <3>1 DEF Range
  <2>2. CASE i > n
    <3>1. i - n \in DOMAIN t /\ u[i] = t[i - n]
      BY <1>1, <1>2, <2>2
    <3> QED
      BY <3>1 DEF Range
  <2> QED
    BY <1>1, <1>2, <2>1, <2>2
<1>4. ASSUME NEW i \in DOMAIN s PROVE s[i] \in Range(u)
  <2>1. i \in DOMAIN u /\ u[i] = s[i]
    BY <1>1, <1>2
  <2> QED
    BY <2>1 DEF Range
<1>5. ASSUME NEW j \in DOMAIN t PROVE t[j] \in Range(u)
  <2>1. n + j \in DOMAIN u /\ u[n + j] = t[j]
    BY <1>1, <1>2
  <2> QED
    BY <2>1 DEF Range
<1>6. Range(u) \subseteq Range(s) \cup Range(t)
  BY <1>3 DEF Range
<1>7. Range(s) \subseteq Range(u) /\ Range(t) \subseteq Range(u)
  BY <1>4, <1>5 DEF Range
<1> QED
  BY <1>6, <1>7 DEF u

\* The frames of a replay are those of its events.
LEMMA RangeReplayFrames ==
    ASSUME NEW evs \in Seq(Event)
    PROVE  Range(ReplayFrames(evs)) = {Replayed(e) : e \in Range(evs)}
BY ReplayFramesOK DEF Range

\* No frame is in the empty sequence, and one in a sequence of one.
LEMMA RangeSmall ==
    /\ Range(<<>>) = {}
    /\ \A f : Range(<<f>>) = {f}
<1>1. ASSUME NEW f PROVE DOMAIN <<f>> = {1} /\ <<f>>[1] = f
  OBVIOUS
<1>2. ASSUME NEW f PROVE Range(<<f>>) = {f}
  <2> DEFINE s == <<f>>
  <2>1. DOMAIN s = {1} /\ s[1] = f
    BY <1>1
  <2> HIDE DEF s
  <2>2. Range(s) = {f}
    BY <2>1 DEF Range
  <2> QED
    BY <2>2 DEF s
<1>3. Range(<<>>) = {}
  BY DEF Range
<1> QED
  BY <1>2, <1>3

(***************************************************************************)
(* The frames of a stream.                                                 *)
(***************************************************************************)
LEMMA StreamRange ==
    ASSUME TypeOK, NEW c \in Client
    PROVE  Range(Stream(c)) = Range(written[c]) \cup Range(hand[c]) \cup Range(queue[c])
                                  \cup Range(ReplayFrames(backlog[c]))
<1> DEFINE a == written[c] \o hand[c]
           b == a \o queue[c]
           r == ReplayFrames(backlog[c])
<1>1. /\ written[c] \in Seq(Frame) /\ hand[c] \in Seq(Frame) /\ queue[c] \in Seq(Frame)
      /\ r \in Seq(Frame) /\ Stream(c) = b \o r
  BY StreamSplit DEF Stream
<1>2. a \in Seq(Frame) /\ Range(a) = Range(written[c]) \cup Range(hand[c])
  BY <1>1, RangeConcat, ConcatProperties
<1> HIDE DEF a
<1>3. b \in Seq(Frame) /\ Range(b) = Range(a) \cup Range(queue[c])
  BY <1>1, <1>2, RangeConcat, ConcatProperties
<1> HIDE DEF b, r
<1>4. Range(b \o r) = Range(b) \cup Range(r)
  BY <1>1, <1>3, RangeConcat
<1> QED
  BY <1>1, <1>2, <1>3, <1>4 DEF r

(***************************************************************************)
(* What comes first in an orderly sequence comes before what comes last.   *)
(***************************************************************************)
LEMMA OrderlyApart ==
    ASSUME NEW S, NEW s \in Seq(S), NEW t \in Seq(S), Orderly(s \o t),
           NEW f \in Range(s), NEW g \in Range(t)
    PROVE  Before(f, g)
<1> DEFINE n == Len(s)
           u == s \o t
<1>1. /\ DOMAIN s = 1 .. n /\ n \in Nat
      /\ DOMAIN t = 1 .. Len(t) /\ Len(t) \in Nat
      /\ u \in Seq(S) /\ Len(u) = n + Len(t)
      /\ \A i \in 1 .. n + Len(t) : u[i] = IF i <= n THEN s[i] ELSE t[i - n]
  BY ConcatProperties, LenProperties
<1>2. DOMAIN u = 1 .. n + Len(t)
  BY <1>1, LenProperties
<1>3. Orderly(u)
  OBVIOUS
<1> HIDE DEF n, u
<1>4. PICK i \in DOMAIN s, j \in DOMAIN t : f = s[i] /\ g = t[j]
  BY DEF Range
<1>5. u[i] = f /\ u[n + j] = g /\ n + j \in DOMAIN u /\ i \in 1 .. (n + j) - 1
  BY <1>1, <1>2, <1>4
<1> QED
  BY <1>3, <1>5 DEF Orderly
-----------------------------------------------------------------------------
(***************************************************************************)
(* A connection joins the audience once, before it can break, and the      *)
(* writer has one frame in its hand.                                       *)
(***************************************************************************)
Fresh(c) ==
    /\ hpc[c] = "new" => c \notin clients /\ ~done[c]
    /\ hpc[c] = "writing" => Len(hand[c]) = 1

FreshInv == \A c \in Client : Fresh(c)

\* Every step of a producer, a writer, a reader or a replay keeps this.
LEMMA NextFreshInv == TypeInv /\ FreshInv /\ [Next]_vars => FreshInv'
<1> SUFFICES ASSUME TypeInv, FreshInv, [Next]_vars, NEW c \in Client PROVE Fresh(c)'
  BY DEF FreshInv
<1>0. TypeOK /\ Fresh(c)
  BY DEF TypeInv, FreshInv
<1>1. ASSUME UNCHANGED <<hpc[c], hand[c], done[c]>>, c \in clients' => c \in clients PROVE Fresh(c)'
  BY <1>0, <1>1 DEF Fresh
<1>2. CASE \E p \in Producer : Producing(p)
  <2>1. UNCHANGED <<hpc, hand, done, clients>>
    BY <1>2 DEF Producing, SendBegin, SendLocked, SendTo, SendEnd, connVars
  <2> QED
    BY <1>1, <2>1
<1>3. ASSUME NEW d \in Client, Serving(d) \/ Replaying(d), d # c PROVE Fresh(c)'
  <2>1. UNCHANGED <<hpc[c], hand[c], done[c]>>
    BY <1>0, <1>3, OthersUntouched
  <2>2. c \in clients' => c \in clients
    BY <1>3 DEF Serving, Register, ReaderEnd, WriterDone, WriterTake, WriterWrite, WriterFail,
       Unregister, CloseConn, Replaying, ReplaySnapshot, ReplaySend, ReplayAbort, ReplayFinish
  <2> QED
    BY <1>1, <2>1, <2>2
<1>4. CASE Serving(c)
  <2>1. CASE WriterTake(c)
    <3> DEFINE f == Head(queue[c])
    <3>1. hpc'[c] = "writing" /\ hand'[c] = <<f>>
      BY <1>0, <2>1 DEF WriterTake, TypeOK
    <3> HIDE DEF f
    <3>2. Len(<<f>>) = 1
      OBVIOUS
    <3> QED
      BY <3>1, <3>2 DEF Fresh
  <2>2. CASE Register(c) \/ WriterDone(c) \/ WriterWrite(c) \/ WriterFail(c) \/ Unregister(c)
             \/ CloseConn(c)
    <3>1. hpc'[c] \notin {"new", "writing"}
      BY <1>0, <2>2 DEF Register, WriterDone, WriterWrite, WriterFail, Unregister, CloseConn, TypeOK
    <3> QED
      BY <3>1 DEF Fresh
  <2>3. CASE ReaderEnd(c)
    BY <1>0, <2>3 DEF ReaderEnd, Fresh
  <2> QED
    BY <1>4, <2>1, <2>2, <2>3 DEF Serving
<1>5. CASE Replaying(c)
  <2>1. UNCHANGED <<hpc, hand, done, clients>>
    BY <1>5 DEF Replaying, ReplaySnapshot, ReplaySend, ReplayAbort, ReplayFinish, connVars
  <2> QED
    BY <1>1, <2>1
<1>6. CASE UNCHANGED vars
  BY <1>1, <1>6 DEF vars, connVars
<1> QED
  BY <1>2, <1>3, <1>4, <1>5, <1>6 DEF Next

\* A new hub has no connection yet.
LEMMA InitFreshInv == Init => FreshInv
BY DEF Init, FreshInv, Fresh

MapInv == TypeInv /\ GapInv /\ OrderInv /\ FreshInv
-----------------------------------------------------------------------------
(***************************************************************************)
(* What is pending for a connection is told apart: no event that is still  *)
(* to be offered to it is in its stream as a live frame, and no two        *)
(* producers offer the same.                                               *)
(***************************************************************************)
LEMMA OfferIsNew ==
    ASSUME MapInv, NEW c \in Client, NEW p \in Producer, c \in targets[p]
    PROVE  /\ Live(sev[p]) \in Frame /\ ~Live(sev[p]).replayed
           /\ Live(sev[p]) \notin Range(Stream(c))
           /\ \A q \in Producer : q # p /\ c \in targets[q] => Live(sev[q]) # Live(sev[p])
<1>0. TypeOK /\ Busy /\ Fanning /\ Numbered /\ LineInv(c)
  BY DEF MapInv, TypeInv, GapInv, OrderInv
<1>1. ASSUME NEW q \in Producer, c \in targets[q]
      PROVE  sev[q] \in Event /\ sev[q].from = q /\ Live(sev[q]).ev = sev[q]
  <2>1. spc[q] # "idle"
    BY <1>0, <1>1 DEF Fanning
  <2> QED
    BY <1>0, <2>1 DEF Busy, Numbered, Live
<1>2. Live(sev[p]) \in Frame /\ ~Live(sev[p]).replayed
  BY <1>1 DEF Live, Frame
<1>3. Live(sev[p]) \notin Range(Stream(c))
  <2>1. SUFFICES ASSUME Live(sev[p]) \in Range(Stream(c)) PROVE FALSE
    OBVIOUS
  <2>2. Older(c, Live(sev[p]))
    BY <1>0, <2>1 DEF LineInv, Range
  <2>3. InTurn(sev[p], sev[p])
    BY <1>1, <1>2, <2>2 DEF Older, Owes
  <2> QED
    BY <2>3 DEF InTurn
<1> QED
  BY <1>1, <1>2, <1>3

(***************************************************************************)
(* A step that leaves every variable of the feed alone.                    *)
(***************************************************************************)
LEMMA FeedStutter ==
    ASSUME UNCHANGED <<stored, clients, written>>,
           \A c \in Client : /\ Pending(c)' = Pending(c)
                             /\ HasSnapshot(c)' <=> HasSnapshot(c)
                             /\ (hpc'[c] # "new" /\ ~Intact(c)') <=> (hpc[c] # "new" /\ ~Intact(c))
    PROVE  UNCHANGED Feed!vars
<1>1. Owed' = Owed
  BY DEF Owed
<1>2. CaughtUp' = CaughtUp
  BY DEF CaughtUp
<1>3. Breakage' = Breakage
  BY DEF Breakage
<1> QED
  BY <1>1, <1>2, <1>3 DEF Feed!vars, Owed, CaughtUp, Breakage

(***************************************************************************)
(* What is owed changes for one connection.                                *)
(***************************************************************************)
LEMMA OwedStep ==
    ASSUME NEW c \in Client, NEW S, Pending(c)' = S,
           \A d \in Client : d # c => Pending(d)' = Pending(d)
    PROVE  Owed' = [Owed EXCEPT ![c] = S]
BY DEF Owed

(***************************************************************************)
(* The steps of a broadcast: the critical section publishes, a drop loses  *)
(* a live frame, and an offer that is taken only moves its frame.          *)
(***************************************************************************)
LEMMA ProducingImplements ==
    ASSUME MapInv, NEW p \in Producer, Producing(p)
    PROVE  [Feed!Next]_Feed!vars
<1>0. /\ TypeOK /\ Busy /\ Fanning
      /\ targets \in [Producer -> SUBSET Client] /\ clients \subseteq Client
  BY DEF MapInv, TypeInv, GapInv, TypeOK
<1>1. UNCHANGED <<clients, hpc, hand, done, written, replay, backlog>>
  BY DEF Producing, SendBegin, SendLocked, SendTo, SendEnd, connVars, playVars
<1>2. CaughtUp' = CaughtUp /\ Breakage' = Breakage
  BY <1>1 DEF CaughtUp, Breakage, HasSnapshot, Intact
<1>3. ASSUME stored' = stored, \A c \in Client : Pending(c)' = Pending(c)
      PROVE  UNCHANGED Feed!vars
  BY <1>1, <1>3, FeedStutter DEF HasSnapshot, Intact
<1>4. \A c \in Client : Range(hand[c])' = Range(hand[c])
                        /\ Range(ReplayFrames(backlog[c]))' = Range(ReplayFrames(backlog[c]))
  BY <1>1 DEF ReplayFrames, Range
<1>5. ASSUME NEW store \in BOOLEAN, SendBegin(p, store) PROVE [Feed!Next]_Feed!vars
  <2>1. /\ targets[p] = {} /\ UNCHANGED <<stored, targets, queue>>
        /\ \A q \in Producer : q # p => sev'[q] = sev[q]
    BY <1>0, <1>5 DEF SendBegin, Fanning, TypeOK, ringVars, fanVars
  <2>2. ASSUME NEW c \in Client PROVE Pending(c)' = Pending(c)
    <3>1. Fanned(c)' = Fanned(c)
      BY <2>1 DEF Fanned
    <3> QED
      BY <1>1, <2>1, <3>1 DEF Pending, Fanned, ReplayFrames
  <2> QED
    BY <1>3, <2>1, <2>2
<1>6. ASSUME SendLocked(p) PROVE [Feed!Next]_Feed!vars
  <2> DEFINE e == sev[p]
  <2>1. /\ targets[p] = {} /\ targets' = [targets EXCEPT ![p] = clients]
        /\ UNCHANGED <<sev, queue>> /\ e \in Event
        /\ stored' = IF e.store THEN Append(stored, e) ELSE stored
    BY <1>0, <1>6 DEF SendLocked, Fanning, Busy, Store, ringVars
  <2>2. ASSUME NEW c \in Client
        PROVE  Pending(c)' = IF c \in clients THEN Pending(c) \cup {Live(e)} ELSE Pending(c)
    <3>1. \A q \in Producer : c \in targets'[q] <=> (c \in targets[q] \/ (q = p /\ c \in clients))
      BY <1>0, <2>1
    <3>2. Fanned(c)' = IF c \in clients THEN Fanned(c) \cup {Live(e)} ELSE Fanned(c)
      BY <2>1, <3>1 DEF Fanned, Live
    <3> QED
      BY <1>1, <2>1, <3>2 DEF Pending, Fanned, ReplayFrames
  <2>3. Owed' = [c \in Client |-> IF c \in clients
                                  THEN Owed[c] \cup {[ev |-> e, replayed |-> FALSE]}
                                  ELSE Owed[c]]
    BY <2>2 DEF Owed, Live
  <2> HIDE DEF e
  <2>4. Feed!Publish(e)
    BY <1>1, <1>2, <2>1, <2>3 DEF Feed!Publish, Owed, CaughtUp, Breakage
  <2> QED
    BY <2>1, <2>4 DEF Feed!Next
<1>7. ASSUME NEW c \in Client, SendTo(p, c) PROVE [Feed!Next]_Feed!vars
  <2> DEFINE f == Live(sev[p])
  <2>1. /\ c \in targets[p] /\ targets' = [targets EXCEPT ![p] = targets[p] \ {c}]
        /\ UNCHANGED <<stored, sev>>
    BY <1>7 DEF SendTo, ringVars, sendVars
  <2>2. /\ \A d \in Client, q \in Producer :
              d \in targets'[q] <=> (d \in targets[q] /\ ~(d = c /\ q = p))
        /\ \A d \in Client : d # c => queue'[d] = queue[d]
    BY SMTT(30), <1>0, <1>7, <2>1 DEF SendTo, TypeOK
  <2>3. ASSUME NEW d \in Client, d # c PROVE Pending(d)' = Pending(d)
    <3>1. Fanned(d)' = Fanned(d)
      BY <2>1, <2>2, <2>3 DEF Fanned, Live
    <3> QED
      BY <1>1, <2>2, <2>3, <3>1 DEF Pending, Fanned, ReplayFrames
  <2>4. f \in Frame /\ ~f.replayed /\ f \notin Range(Stream(c)) /\ f \in Fanned(c)
    BY <2>1, OfferIsNew DEF Fanned
  <2>5. Fanned(c)' = Fanned(c) \ {f}
    <3>1. \A q \in Producer : q # p /\ c \in targets[q] => Live(sev[q]) # f
      BY <2>1, OfferIsNew
    <3>2. Fanned(c)' = {Live(sev[q]) : q \in {r \in Producer : c \in targets'[r]}}
      BY <2>1 DEF Fanned, Live
    <3>3. \A q \in Producer : c \in targets'[q] <=> (c \in targets[q] /\ q # p)
      BY <2>2
    <3> QED
      BY <3>1, <3>2, <3>3 DEF Fanned
  <2> HIDE DEF f
  <2>6. CASE queue' = [queue EXCEPT ![c] = Append(queue[c], f)]
    <3>1. queue'[c] = Append(queue[c], f) /\ queue[c] \in Seq(Frame)
      BY <1>0, <2>6 DEF TypeOK
    <3>2. Range(queue'[c]) = Range(queue[c]) \cup {f}
      BY <2>4, <3>1, RangeAppend
    <3>3. Pending(c)' = Pending(c)
      BY <1>1, <2>4, <2>5, <3>2 DEF Pending, Fanned, ReplayFrames
    <3> QED
      BY <1>3, <2>1, <2>3, <3>3
  <2>7. CASE queue' = queue
    <3>1. f \in Pending(c) /\ Pending(c)' = Pending(c) \ {f}
      <4>1. f \notin Range(queue[c]) \cup Range(hand[c]) \cup Range(ReplayFrames(backlog[c]))
        BY <1>0, <2>4, StreamRange
      <4> QED
        BY <1>1, <2>4, <2>5, <2>7, <4>1 DEF Pending, Fanned, ReplayFrames
    <3>2. Owed' = [Owed EXCEPT ![c] = Pending(c) \ {f}] /\ Owed[c] = Pending(c)
      BY <2>3, <3>1, OwedStep DEF Owed
    <3>3. Feed!LoseLive(c)
      BY <1>1, <1>2, <2>1, <2>4, <3>1, <3>2 DEF Feed!LoseLive, Owed, CaughtUp, Breakage
    <3> QED
      BY <3>3 DEF Feed!Next
  <2> QED
    BY <1>7, <2>6, <2>7 DEF SendTo, f
<1>8. ASSUME SendEnd(p) PROVE [Feed!Next]_Feed!vars
  <2>1. UNCHANGED <<stored, targets, queue, sev>>
    BY <1>8 DEF SendEnd, ringVars, fanVars
  <2>2. ASSUME NEW c \in Client PROVE Pending(c)' = Pending(c)
    BY <1>1, <2>1 DEF Pending, ReplayFrames
  <2> QED
    BY <1>3, <2>1, <2>2
<1> QED
  BY <1>5, <1>6, <1>7, <1>8 DEF Producing

(***************************************************************************)
(* The handler and the replay of a connection change nothing of what the   *)
(* feed knows of the others.                                               *)
(***************************************************************************)
LEMMA OthersOwed ==
    ASSUME TypeOK, NEW d \in Client, Serving(d) \/ Replaying(d)
    PROVE  /\ UNCHANGED <<stored, sev, targets>>
           /\ \A c \in Client : Fanned(c)' = Fanned(c)
           /\ \A c \in Client : c # d => Pending(c)' = Pending(c)
           /\ \A c \in Client : c # d =>
                /\ HasSnapshot(c)' = HasSnapshot(c)
                /\ (hpc'[c] # "new" /\ ~Intact(c)') = (hpc[c] # "new" /\ ~Intact(c))
<1>1. UNCHANGED <<stored, sev, targets>>
  BY DEF Serving, Register, ReaderEnd, WriterDone, WriterTake, WriterWrite, WriterFail,
     Unregister, CloseConn, Replaying, ReplaySnapshot, ReplaySend, ReplayAbort, ReplayFinish,
     ringVars, sendVars, fanVars
<1>2. \A c \in Client : Fanned(c)' = Fanned(c)
  BY <1>1 DEF Fanned
<1>3. ASSUME NEW c \in Client, c # d
      PROVE  /\ Pending(c)' = Pending(c)
             /\ HasSnapshot(c)' = HasSnapshot(c)
             /\ (hpc'[c] # "new" /\ ~Intact(c)') = (hpc[c] # "new" /\ ~Intact(c))
  <2>1. UNCHANGED <<hpc[c], hand[c], queue[c], done[c], replay[c], backlog[c]>>
    BY <1>3, OthersUntouched
  <2> QED
    BY <1>2, <2>1 DEF Pending, Fanned, HasSnapshot, Intact, ReplayFrames
<1> QED
  BY <1>1, <1>2, <1>3

(***************************************************************************)
(* The steps of the handler: a connection joins, gets a frame, breaks,     *)
(* leaves, or moves a frame along.                                         *)
(***************************************************************************)
LEMMA ServingImplements ==
    ASSUME MapInv, NEW c \in Client, Serving(c)
    PROVE  [Feed!Next]_Feed!vars
<1>0. /\ TypeOK /\ Shape(c) /\ Fresh(c) /\ LineInv(c)
      /\ hpc \in [Client -> {"new", "serving", "writing", "leaving", "unregistered", "closed"}]
      /\ hand[c] \in Seq(Frame) /\ queue[c] \in Seq(Frame) /\ written[c] \in Seq(Frame)
      /\ backlog[c] \in Seq(Event)
  BY DEF MapInv, TypeInv, GapInv, ConnInv, OrderInv, FreshInv, TypeOK
<1>1. /\ UNCHANGED <<stored, sev, targets>> /\ Fanned(c)' = Fanned(c)
      /\ \A d \in Client : d # c => Pending(d)' = Pending(d)
      /\ \A d \in Client : d # c =>
            /\ HasSnapshot(d)' = HasSnapshot(d)
            /\ (hpc'[d] # "new" /\ ~Intact(d)') = (hpc[d] # "new" /\ ~Intact(d))
  BY <1>0, OthersOwed
<1>2. backlog' = backlog /\ Range(ReplayFrames(backlog[c]))' = Range(ReplayFrames(backlog[c]))
  BY DEF Serving, Register, ReaderEnd, WriterDone, WriterTake, WriterWrite, WriterFail,
     Unregister, CloseConn, playVars, ReplayFrames, Range
<1>3. ASSUME UNCHANGED <<hand[c], queue[c]>> PROVE Pending(c)' = Pending(c)
  BY <1>1, <1>2, <1>3 DEF Pending, Fanned
<1>4. ASSUME HasSnapshot(c)' = HasSnapshot(c) PROVE CaughtUp' = CaughtUp
  BY <1>1, <1>4 DEF CaughtUp
<1>5. ASSUME Pending(c)' = Pending(c) PROVE Owed' = Owed
  BY <1>1, <1>5 DEF Owed
<1>6. ASSUME (hpc'[c] # "new" /\ ~Intact(c)') = (hpc[c] # "new" /\ ~Intact(c))
      PROVE  Breakage' = Breakage
  BY <1>1, <1>6 DEF Breakage
<1>7. ASSUME hpc'[c] # "new" /\ ~Intact(c)' PROVE Breakage' = Breakage \cup {c}
  BY <1>1, <1>7 DEF Breakage
<1>8. CASE Register(c)
  <2>1. /\ hpc[c] = "new" /\ hpc'[c] = "serving" /\ replay'[c] = "start"
        /\ clients' = clients \cup {c}
        /\ UNCHANGED <<done, hand, written, queue>>
    BY <1>0, <1>8 DEF Register, TypeOK
  <2>2. c \notin clients /\ c \notin Breakage
    BY <1>0, <2>1 DEF Fresh, Breakage
  <2>3. CaughtUp' = CaughtUp /\ Owed' = Owed
    BY <1>0, <1>3, <1>4, <1>5, <2>1 DEF HasSnapshot, Shape
  <2>4. Breakage' = Breakage
    BY <1>0, <1>6, <2>1 DEF Intact, Fresh
  <2>5. Feed!Join(c)
    BY <1>1, <2>1, <2>2, <2>3, <2>4 DEF Feed!Join, Owed, CaughtUp, Breakage
  <2> QED
    BY <2>5 DEF Feed!Next
<1>9. CASE ReaderEnd(c)
  <2>1. /\ hpc[c] # "new" /\ done'[c]
        /\ UNCHANGED <<hpc, hand, written, queue, clients, replay>>
    BY <1>0, <1>9 DEF ReaderEnd, TypeOK, playVars
  <2>2. CaughtUp' = CaughtUp /\ Owed' = Owed /\ Owed = [Owed EXCEPT ![c] = Owed[c]]
    BY <1>3, <1>4, <1>5, <2>1 DEF HasSnapshot, Owed
  <2>3. Breakage' = Breakage \cup {c}
    BY <1>7, <2>1 DEF Intact
  <2>4. Feed!Break(c)
    BY <1>1, <2>1, <2>2, <2>3 DEF Feed!Break, Owed, CaughtUp, Breakage
  <2> QED
    BY <2>4 DEF Feed!Next
<1>10. CASE WriterDone(c) \/ CloseConn(c)
  <2>1. /\ UNCHANGED <<done, hand, written, queue, clients, replay>>
        /\ hpc[c] # "new" /\ hpc'[c] # "new" /\ ~Intact(c) /\ ~Intact(c)'
    BY <1>0, <1>10 DEF WriterDone, CloseConn, Intact, playVars
  <2>2. Pending(c)' = Pending(c) /\ HasSnapshot(c)' = HasSnapshot(c)
    BY <1>3, <2>1 DEF HasSnapshot
  <2> QED
    BY <1>1, <2>1, <2>2, FeedStutter
<1>11. CASE WriterTake(c)
  <2>1. /\ hpc[c] = "serving" /\ hpc'[c] = "writing" /\ queue[c] # <<>>
        /\ hand'[c] = <<Head(queue[c])>> /\ queue'[c] = Tail(queue[c])
        /\ UNCHANGED <<done, written, clients, replay>>
    BY <1>0, <1>11 DEF WriterTake, TypeOK, playVars
  <2>2. hand[c] = <<>>
    BY <1>0, <2>1 DEF Shape
  <2>3. Range(queue[c]) = {Head(queue[c])} \cup Range(queue'[c])
    BY <1>0, <2>1, RangeHeadTail
  <2>4. Range(hand[c]) = {} /\ Range(hand'[c]) = {Head(queue[c])}
    BY <2>1, <2>2, RangeSmall
  <2>5. Pending(c)' = Pending(c)
    BY <1>1, <1>2, <2>3, <2>4 DEF Pending, Fanned
  <2>6. HasSnapshot(c)' = HasSnapshot(c) /\ Intact(c)' = Intact(c)
    BY <2>1 DEF HasSnapshot, Intact
  <2> QED
    BY <1>1, <2>1, <2>5, <2>6, FeedStutter
<1>12. CASE WriterWrite(c)
  <2>1. /\ hpc[c] = "writing" /\ hpc'[c] = "serving"
        /\ hand'[c] = <<>> /\ written' = [written EXCEPT ![c] = written[c] \o hand[c]]
        /\ UNCHANGED <<done, queue, clients, replay>>
    BY <1>0, <1>12 DEF WriterWrite, TypeOK, playVars
  <2> DEFINE f == hand[c][1]
  <2>2. hand[c] = <<f>> /\ f \in Frame
    BY <1>0, <2>1, ElementOfSeq DEF Fresh
  <2>3. Range(hand[c]) = {f} /\ Range(hand'[c]) = {}
    BY <2>1, <2>2, RangeSmall
  <2> HIDE DEF f
  <2>4. written[c] \o hand[c] = Append(written[c], f)
    BY <1>0, <2>2, AppendIsConcat
  <2>5. f \in Pending(c)
    BY <2>3 DEF Pending
  <2>6. f \notin Range(queue[c]) \cup Range(ReplayFrames(backlog[c]))
    <3> DEFINE w == written[c]
               h == hand[c]
               q == queue[c]
               r == ReplayFrames(backlog[c])
    <3>1. w \in Seq(Frame) /\ h \in Seq(Frame) /\ q \in Seq(Frame) /\ r \in Seq(Frame)
      BY <1>0, StreamSplit
    <3>2. Stream(c) = ((w \o h) \o q) \o r
      BY DEF Stream
    <3> HIDE DEF w, h, q, r
    <3>3. w \o h \in Seq(Frame) /\ q \o r \in Seq(Frame)
      BY <3>1, ConcatProperties
    <3>4. ASSUME NEW a \in Seq(Frame) PROVE (a \o q) \o r = a \o (q \o r)
      BY SMTT(30), <3>1, ConcatAssociative
    <3>5. Orderly((w \o h) \o (q \o r))
      BY <1>0, <3>2, <3>3, <3>4 DEF LineInv
    <3>6. f \in Range(w \o h) /\ Range(q \o r) = Range(q) \cup Range(r)
      BY <2>3, <3>1, RangeConcat DEF h
    <3>7. \A g \in Range(q \o r) : Before(f, g)
      BY <3>3, <3>5, <3>6, OrderlyApart
    <3>8. ~Before(f, f)
      <4>1. f.replayed \in BOOLEAN
        BY <2>2 DEF Frame
      <4> QED
        BY <4>1 DEF Before, InTurn
    <3> QED
      BY <3>6, <3>7, <3>8 DEF q, r
  <2>7. f \notin Fanned(c)
    <3>1. f \in Range(Stream(c))
      BY <1>0, <2>3, StreamRange
    <3> QED
      BY <3>1, OfferIsNew DEF Fanned
  <2>8. Pending(c)' = Pending(c) \ {f}
    BY <1>1, <1>2, <2>1, <2>3, <2>6, <2>7 DEF Pending, Fanned
  <2>9. Owed' = [Owed EXCEPT ![c] = Owed[c] \ {f}] /\ f \in Owed[c]
    BY <1>1, <2>5, <2>8, OwedStep DEF Owed
  <2>10. CaughtUp' = CaughtUp /\ Breakage' = Breakage
    BY <1>4, <1>6, <2>1 DEF HasSnapshot, Intact
  <2>11. Feed!Deliver(c)
    BY <1>1, <2>1, <2>4, <2>9, <2>10 DEF Feed!Deliver, Owed, CaughtUp, Breakage
  <2> QED
    BY <2>11 DEF Feed!Next
<1>13. CASE WriterFail(c)
  <2>1. /\ hpc'[c] = "leaving" /\ hand'[c] = <<>>
        /\ UNCHANGED <<done, written, queue, clients, replay>>
    BY <1>0, <1>13 DEF WriterFail, TypeOK, playVars
  <2>2. Pending(c)' \subseteq Pending(c)
    <3>1. Range(hand'[c]) = {}
      BY <2>1, RangeSmall
    <3> QED
      BY <1>1, <1>2, <2>1, <3>1 DEF Pending, Fanned
  <2>3. Owed' = [Owed EXCEPT ![c] = Pending(c)'] /\ Owed'[c] = Pending(c)' /\ Owed[c] = Pending(c)
    BY <1>1 DEF Owed
  <2>4. CaughtUp' = CaughtUp /\ Breakage' = Breakage \cup {c}
    BY <1>4, <1>7, <2>1 DEF HasSnapshot, Intact
  <2>5. Feed!Break(c)
    BY <1>1, <2>1, <2>2, <2>3, <2>4 DEF Feed!Break, Owed, CaughtUp, Breakage
  <2> QED
    BY <2>5 DEF Feed!Next
<1>14. CASE Unregister(c)
  <2>1. /\ hpc[c] = "leaving" /\ hpc'[c] = "unregistered" /\ clients' = clients \ {c}
        /\ UNCHANGED <<done, hand, written, queue, replay>>
    BY <1>0, <1>14 DEF Unregister, TypeOK, playVars
  <2>2. c \in Breakage
    BY <2>1 DEF Breakage, Intact
  <2>3. CaughtUp' = CaughtUp /\ Owed' = Owed /\ Breakage' = Breakage
    BY <1>3, <1>4, <1>5, <1>6, <2>1 DEF HasSnapshot, Intact
  <2>4. Feed!Leave(c)
    BY <1>1, <2>1, <2>2, <2>3 DEF Feed!Leave, Owed, CaughtUp, Breakage
  <2> QED
    BY <2>4 DEF Feed!Next
<1> QED
  BY <1>8, <1>9, <1>10, <1>11, <1>12, <1>13, <1>14 DEF Serving

(***************************************************************************)
(* The recent history is the feed's recent log.                            *)
(***************************************************************************)
LEMMA RecentIsLog ==
    ASSUME TypeOK
    PROVE  Range(Recent(Len(stored))) = Feed!RecentLog
<1> DEFINE n == Len(stored)
           m == IF n > RingSize THEN n - RingSize + 1 ELSE 1
           r == Recent(n)
<1>1. n \in Nat /\ RingSize \in Nat /\ \A i \in 1 .. n : stored[i] \in Event
  BY RingSizeAssumption, LenProperties, ElementOfSeq DEF TypeOK
<1>2. m \in 1 .. n + 1 /\ m > n - RingSize /\ r = SubSeq(stored, m, n)
  BY <1>1, RingSizeAssumption DEF Recent
<1> HIDE DEF m, n
<1>3. m \in Int /\ n \in Int /\ \A i \in m .. n : stored[i] \in Event
  BY <1>1, <1>2
<1>4. /\ SubSeq(stored, m, n) \in Seq(Event)
      /\ Len(SubSeq(stored, m, n)) = IF m <= n THEN n - m + 1 ELSE 0
      /\ \A i \in 1 .. n - m + 1 : SubSeq(stored, m, n)[i] = stored[m + i - 1]
  BY <1>3, SubSeqProperties
<1>5. DOMAIN r = 1 .. n - m + 1
  BY <1>1, <1>2, <1>4, LenProperties
<1> HIDE DEF r
<1>6. Feed!RecentLog = {stored[i] : i \in {j \in 1 .. n : j > n - RingSize}}
  BY DEF Feed!RecentLog, n
<1>7. ASSUME NEW i \in DOMAIN r PROVE r[i] \in Feed!RecentLog
  <2>1. m + i - 1 \in 1 .. n /\ m + i - 1 > n - RingSize /\ r[i] = stored[m + i - 1]
    BY <1>1, <1>2, <1>4, <1>5
  <2> QED
    BY <1>6, <2>1
<1>8. Feed!RecentLog \subseteq Range(r)
  BY <1>6, RecentHas DEF r, n
<1> QED
  BY <1>7, <1>8 DEF Range, r, n

(***************************************************************************)
(* The steps of the replay: the snapshot catches up, the rest moves frames *)
(* along or loses them with the connection.                                *)
(***************************************************************************)
LEMMA ReplayingImplements ==
    ASSUME MapInv, NEW c \in Client, Replaying(c)
    PROVE  [Feed!Next]_Feed!vars
<1>0. /\ TypeOK /\ Shape(c)
      /\ queue[c] \in Seq(Frame) /\ backlog[c] \in Seq(Event)
  BY DEF MapInv, TypeInv, GapInv, ConnInv, TypeOK
<1>1. /\ UNCHANGED <<stored, sev, targets>> /\ Fanned(c)' = Fanned(c)
      /\ \A d \in Client : d # c => Pending(d)' = Pending(d)
      /\ \A d \in Client : d # c =>
            /\ HasSnapshot(d)' = HasSnapshot(d)
            /\ (hpc'[d] # "new" /\ ~Intact(d)') = (hpc[d] # "new" /\ ~Intact(d))
  BY <1>0, OthersOwed
<1>2. UNCHANGED <<clients, hpc, hand, done, written>>
  BY DEF Replaying, ReplaySnapshot, ReplaySend, ReplayAbort, ReplayFinish, connVars
<1>3. Breakage' = Breakage /\ Intact(c)' = Intact(c)
  BY <1>2 DEF Breakage, Intact
<1>4. ASSUME Pending(c)' = Pending(c), HasSnapshot(c)' = HasSnapshot(c) PROVE UNCHANGED Feed!vars
  BY <1>1, <1>2, <1>3, <1>4, FeedStutter
<1>5. CASE ReplaySnapshot(c)
  <2>1. /\ replay[c] = "start" /\ replay'[c] = "sending" /\ backlog[c] = <<>>
        /\ backlog'[c] = Snapshot /\ queue' = queue
    BY <1>0, <1>5 DEF ReplaySnapshot, TypeOK, Shape
  <2>2. Snapshot = Recent(Len(stored)) /\ Snapshot \in Seq(Event)
    BY <1>0, SnapshotOK DEF MapInv, TypeInv, TypeOK, RingTyped
  <2>3. Range(ReplayFrames(backlog[c])) = {}
    BY <1>0, <2>1, RangeReplayFrames, RangeSmall
  <2>4. Range(ReplayFrames(backlog[c]))' = {[ev |-> e, replayed |-> TRUE] : e \in Feed!RecentLog}
    <3>1. ReplayFrames(backlog[c])' = ReplayFrames(Snapshot)
      BY <2>1 DEF ReplayFrames
    <3>2. Range(ReplayFrames(Snapshot)) = {Replayed(e) : e \in Feed!RecentLog}
      BY <1>0, <2>2, RangeReplayFrames, RecentIsLog
    <3> QED
      BY <3>1, <3>2 DEF Replayed, Range
  <2>5. Pending(c)' = Pending(c) \cup {[ev |-> e, replayed |-> TRUE] : e \in Feed!RecentLog}
    BY <1>1, <1>2, <2>1, <2>3, <2>4 DEF Pending, Fanned
  <2>6. Owed' = [Owed EXCEPT ![c] = Owed[c] \cup {[ev |-> e, replayed |-> TRUE] : e \in Feed!RecentLog}]
    BY <1>1, <2>5, OwedStep DEF Owed
  <2>7. c \notin CaughtUp /\ CaughtUp' = CaughtUp \cup {c}
    BY <1>1, <2>1 DEF CaughtUp, HasSnapshot
  <2>8. Feed!CatchUp(c)
    BY <1>1, <1>2, <1>3, <2>6, <2>7 DEF Feed!CatchUp, Owed, CaughtUp, Breakage
  <2> QED
    BY <2>8 DEF Feed!Next
<1>6. CASE ReplaySend(c)
  <2> DEFINE e == Head(backlog[c])
  <2>1. /\ backlog[c] # <<>> /\ backlog'[c] = Tail(backlog[c]) /\ replay' = replay
        /\ queue'[c] = Append(queue[c], Replayed(e))
    BY <1>0, <1>6 DEF ReplaySend, TypeOK
  <2>2. e \in Event /\ Tail(backlog[c]) \in Seq(Event) /\ Replayed(e) \in Frame
    BY <1>0, <2>1, HeadTailProperties DEF Replayed, Frame
  <2>3. Range(backlog[c]) = {e} \cup Range(backlog'[c])
    BY <1>0, <2>1, RangeHeadTail
  <2> HIDE DEF e
  <2>4. Range(queue'[c]) = Range(queue[c]) \cup {Replayed(e)}
    BY <1>0, <2>1, <2>2, RangeAppend
  <2>5. /\ Range(ReplayFrames(backlog[c])) = {Replayed(x) : x \in Range(backlog[c])}
        /\ Range(ReplayFrames(backlog[c]))' = {Replayed(x) : x \in Range(backlog'[c])}
    <3>1. \A evs \in Seq(Event) : Range(ReplayFrames(evs)) = {Replayed(x) : x \in Range(evs)}
      BY RangeReplayFrames
    <3>2. ReplayFrames(backlog[c])' = ReplayFrames(Tail(backlog[c]))
      BY <2>1 DEF ReplayFrames
    <3>3. backlog[c] \in Seq(Event) /\ Tail(backlog[c]) \in Seq(Event)
      BY <1>0, <2>1, <2>2
    <3>4. Range(ReplayFrames(backlog[c]))' = Range(ReplayFrames(Tail(backlog[c])))
      BY <3>2 DEF Range
    <3> QED
      BY <2>1, <3>1, <3>3, <3>4
  <2>6. Pending(c)' = Pending(c)
    BY <1>1, <1>2, <2>3, <2>4, <2>5 DEF Pending, Fanned
  <2> QED
    BY <1>4, <2>1, <2>6 DEF HasSnapshot
<1>7. CASE ReplayAbort(c)
  <2>1. /\ replay[c] = "sending" /\ replay'[c] = "ended" /\ done[c] /\ backlog'[c] = <<>>
        /\ queue' = queue
    BY <1>0, <1>7 DEF ReplayAbort, TypeOK
  <2>2. Pending(c)' \subseteq Pending(c)
    <3>1. Range(ReplayFrames(backlog[c]))' = {}
      <4>1. ReplayFrames(backlog[c])' = ReplayFrames(<<>>)
        BY <2>1 DEF ReplayFrames
      <4>2. Range(ReplayFrames(<<>>)) = {}
        <5>1. <<>> \in Seq(Event)
          BY EmptySeq
        <5>2. Range(ReplayFrames(<<>>)) = {Replayed(e) : e \in Range(<<>>)}
          BY <5>1, RangeReplayFrames
        <5> QED
          BY <5>2, RangeSmall
      <4> QED
        BY <4>1, <4>2 DEF Range
    <3> QED
      BY <1>1, <1>2, <2>1, <3>1 DEF Pending, Fanned
  <2>3. Owed' = [Owed EXCEPT ![c] = Pending(c)'] /\ Owed'[c] = Pending(c)' /\ Owed[c] = Pending(c)
    BY <1>1 DEF Owed
  <2>4. CaughtUp' = CaughtUp
    BY <1>1, <2>1 DEF CaughtUp, HasSnapshot
  <2>5. c \in Breakage
    BY <1>0, <2>1 DEF Breakage, Intact, Shape
  <2>6. Feed!Break(c)
    BY <1>1, <1>2, <1>3, <2>2, <2>3, <2>4, <2>5 DEF Feed!Break, Owed, CaughtUp, Breakage
  <2> QED
    BY <2>6 DEF Feed!Next
<1>8. CASE ReplayFinish(c)
  <2>1. /\ replay[c] = "sending" /\ replay'[c] = "ended" /\ UNCHANGED <<queue, backlog>>
    BY <1>0, <1>8 DEF ReplayFinish, TypeOK
  <2>2. Pending(c)' = Pending(c)
    BY <1>1, <1>2, <2>1 DEF Pending, Fanned, ReplayFrames
  <2> QED
    BY <1>4, <2>1, <2>2 DEF HasSnapshot
<1> QED
  BY <1>5, <1>6, <1>7, <1>8 DEF Replaying

(***************************************************************************)
(* The hub promises its subscribers what Feed says: every broadcast is     *)
(* owed to exactly the registered connections, the recent history once,    *)
(* nothing is written twice or invented, and replayed frames are lost only *)
(* with the connection (hub.go, server.go wsHandler).                      *)
(***************************************************************************)
THEOREM HubImplementsFeed == Spec => FeedSpec
<1>1. Init => Feed!Init
  <2> SUFFICES ASSUME Init PROVE Feed!Init
    OBVIOUS
  <2>1. \A c \in Client : Pending(c) = {}
    <3> TAKE c \in Client
    <3>1. queue[c] = <<>> /\ hand[c] = <<>> /\ backlog[c] = <<>>
      BY DEF Init, NoFrames
    <3>2. Range(ReplayFrames(backlog[c])) = {}
      BY <3>1, EmptySeq, RangeReplayFrames, RangeSmall
    <3>3. Fanned(c) = {}
      BY DEF Init, Fanned
    <3> QED
      BY <3>1, <3>2, <3>3, RangeSmall DEF Pending, Fanned
  <2>2. CaughtUp = {} /\ Breakage = {}
    BY DEF Init, CaughtUp, Breakage, HasSnapshot
  <2> QED
    BY <2>1, <2>2 DEF Init, RingInit, NoFrames, Feed!Init, CaughtUp, Breakage
<1>2. MapInv /\ [Next]_vars => [Feed!Next]_Feed!vars
  <2> SUFFICES ASSUME MapInv, [Next]_vars PROVE [Feed!Next]_Feed!vars
    OBVIOUS
  <2>1. CASE \E p \in Producer : Producing(p)
    BY <2>1, ProducingImplements
  <2>2. CASE \E c \in Client : Serving(c) \/ Replaying(c)
    BY <2>2, ServingImplements, ReplayingImplements
  <2>3. CASE UNCHANGED vars
    <3>1. UNCHANGED <<stored, clients, written>>
      BY <2>3 DEF vars, ringVars, connVars
    <3>2. ASSUME NEW c \in Client
          PROVE  /\ Pending(c)' = Pending(c)
                 /\ HasSnapshot(c)' = HasSnapshot(c) /\ Intact(c)' = Intact(c) /\ hpc' = hpc
      BY <2>3 DEF vars, sendVars, fanVars, connVars, playVars, Pending, ReplayFrames, HasSnapshot,
         Intact
    <3> QED
      BY <3>1, <3>2, FeedStutter
  <2> QED
    BY <2>1, <2>2, <2>3 DEF Next
<1>3. TypeInv /\ FreshInv /\ [Next]_vars => FreshInv'
  BY NextFreshInv
<1>4. Init => FreshInv
  BY InitFreshInv
<1>5. TypeInv /\ GapInv /\ OrderInv /\ FreshInv <=> MapInv
  BY DEF MapInv
<1> QED
  BY <1>1, <1>2, <1>3, <1>4, <1>5, OrderInvariant, PTL DEF Spec, FeedSpec, Feed!Spec
=============================================================================
