----------------------------- MODULE TapProofs ------------------------------
(***************************************************************************)
(* Theorems about the tap on Linux for every set of processes, names and   *)
(* files, every limit of queue, read, cache and pipe, and every number of  *)
(* accesses: what is reported and what is filtered is right, although name *)
(* and path are looked up late; no descriptor leaks but with a read that   *)
(* does not parse; and no access is doubled, reordered or, but for such a  *)
(* read, lost on its way to the hub.  At the end, the session of processes *)
(* that this tap is one of: its types, what a signal reaches and whom the  *)
(* server waits for, and that the tap's steps are steps of a session.      *)
(***************************************************************************)
EXTENDS TapLinux, SequenceTheorems, FunctionTheorems, FiniteSetTheorems, TLAPS

\* A queue above its limit holds the overflow event.
OverflowInv == Len(queue) > QueueCap => Overflow \in {queue[i] : i \in DOMAIN queue}

TypeInv == TypeOK /\ OverflowInv

(***************************************************************************)
(* An access by a running process is an event (fanotify_event_metadata).   *)
(***************************************************************************)
LEMMA AccessType ==
    ASSUME TypeOK, NEW id \in 0 .. MaxEvents, NEW pid \in Pid, NEW f \in File
    PROVE  Access(id, pid, f) \in Event
BY TapAssumption DEF TypeOK, Access, Event, NameOf, Pid

(***************************************************************************)
(* The kernel's queue stays a queue of events and, with the overflow event *)
(* that stands for the rest, within its limit.                             *)
(***************************************************************************)
LEMMA QueuedType ==
    ASSUME TypeInv, NEW e \in Event, queue' = Queued(e)
    PROVE  /\ queue' \in Seq(Event) /\ Len(queue') <= QueueCap + 1
           /\ OverflowInv'
<1>1. queue \in Seq(Event) /\ Len(queue) <= QueueCap + 1 /\ QueueCap \in Nat
  BY TapAssumption DEF TypeInv, TypeOK
<1>2. Overflow \in Event
  BY TapAssumption DEF Overflow, Event, Pid
<1>3. CASE Len(queue) >= QueueCap /\ Overflow \in {queue[i] : i \in DOMAIN queue}
  BY <1>1, <1>3 DEF Queued, OverflowInv
<1>4. CASE Len(queue) >= QueueCap /\ Overflow \notin {queue[i] : i \in DOMAIN queue}
  <2>1. Len(queue) = QueueCap /\ queue' = Append(queue, Overflow)
    BY <1>1, <1>4 DEF Queued, TypeInv, OverflowInv
  <2>2. queue' \in Seq(Event) /\ Len(queue') = QueueCap + 1 /\ queue'[Len(queue')] = Overflow
    BY <1>1, <1>2, <2>1, AppendProperties
  <2>3. Len(queue') \in DOMAIN queue'
    BY <1>1, <2>2, LenProperties
  <2> QED
    BY <1>1, <2>2, <2>3 DEF OverflowInv
<1>5. CASE Len(queue) < QueueCap
  <2>1. queue' = queue \/ queue' = Append(queue, e)
    BY <1>1, <1>5 DEF Queued
  <2>2. queue' \in Seq(Event) /\ Len(queue') <= QueueCap
    BY <1>1, <1>5, <2>1, AppendProperties
  <2> QED
    BY <1>1, <2>2 DEF OverflowInv
<1> QED
  BY <1>1, <1>3, <1>4, <1>5

(***************************************************************************)
(* Before anything has happened the types are right.                       *)
(***************************************************************************)
LEMMA InitTypeInv == Init => TypeInv
<1> SUFFICES ASSUME Init PROVE TypeInv
  OBVIOUS
<1>1. <<>> \in Seq(Event) /\ <<>> \in Seq(Report) /\ Len(<<>>) = 0
  BY EmptySeq
<1>2. QueueCap \in Nat /\ BatchCap \in Nat /\ PipeCap \in Nat /\ MaxEvents \in Nat
      /\ MaxDiscarded \in Nat
  BY TapAssumption
<1>3. place \in [File -> {"in", "out"}] /\ holder \in [Proc -> Name \cup {Unknown}]
  BY DEF Init
<1>4. DOMAIN cache = {}
  BY DEF Init
<1>5. TypeOK
  BY <1>1, <1>2, <1>3, <1>4 DEF Init, TypeOK
<1>6. OverflowInv
  BY <1>1, <1>2 DEF Init, OverflowInv
<1> QED
  BY <1>5, <1>6 DEF TypeInv

(***************************************************************************)
(* What the tap handles is an event, and its report has the report's type. *)
(***************************************************************************)
LEMMA ReportType ==
    ASSUME TypeOK, NEW e \in Event, Kept(e)
    PROVE  ReportOf(e) \in Report
<1>1. e.pid \in Proc
  BY TapAssumption DEF Kept, Watched, Event, Pid
<1>2. CommName(e.pid) \in Name \cup {Unknown}
  BY <1>1 DEF TypeOK, CommName, NameOf
<1>3. e.id \in 0 .. MaxEvents /\ e.pid \in Pid /\ e.file \in File \cup {NoFile}
      /\ e.by \in Name \cup {Unknown} /\ e.at \in {"in", "out"}
  BY DEF Event
<1> QED
  BY <1>2, <1>3 DEF ReportOf, Report

(***************************************************************************)
(* In the cache are names of other processes only, and no unreadable one.  *)
(***************************************************************************)
LEMMA CachedType ==
    ASSUME TypeOK, NEW e \in Event, Watched(e)
    PROVE  /\ DOMAIN Cached(e.pid) \subseteq Proc
           /\ \A p \in DOMAIN Cached(e.pid) : Cached(e.pid)[p] \in Name
<1>1. e.pid \in Proc
  BY TapAssumption DEF Watched, Event, Pid
<1>2. NameOf(e.pid) \in Name \cup {Unknown}
  BY <1>1 DEF TypeOK, NameOf
<1>3. DOMAIN cache \subseteq Proc /\ \A p \in DOMAIN cache : cache[p] \in Name
  BY DEF TypeOK
<1>4. CASE Cached(e.pid) = cache
  BY <1>3, <1>4
<1>5. CASE Cached(e.pid) # cache
  <2> DEFINE kept == IF Cardinality(DOMAIN cache) > CacheCap THEN {} ELSE DOMAIN cache
  <2>1. NameOf(e.pid) \in Name /\ Cached(e.pid) =
            [q \in kept \cup {e.pid} |-> IF q = e.pid THEN NameOf(e.pid) ELSE cache[q]]
    BY <1>2, <1>5 DEF Cached
  <2>2. kept \subseteq DOMAIN cache
    OBVIOUS
  <2> QED
    BY <1>1, <1>3, <2>1, <2>2
<1> QED
  BY <1>4, <1>5

(***************************************************************************)
(* A read takes at most BatchCap events from the head of the queue.        *)
(***************************************************************************)
LEMMA ReadType ==
    ASSUME NEW S, queue \in Seq(S), leftover \in Seq(S), Len(leftover) <= 1
    PROVE  /\ Taken \in 0 .. BatchCap /\ Taken <= Len(queue)
           /\ Decodable \in Seq(S) /\ Len(Decodable) <= BatchCap + 1
           /\ SubSeq(queue, Taken + 1, Len(queue)) \in Seq(S)
           /\ Len(SubSeq(queue, Taken + 1, Len(queue))) = Len(queue) - Taken
           /\ Len(Decodable) = Len(leftover) + Taken
           /\ \A i \in 1 .. Len(queue) - Taken :
                 SubSeq(queue, Taken + 1, Len(queue))[i] = queue[Taken + i]
<1>1. BatchCap \in Nat \ {0}
  BY TapAssumption
<1>2. Len(queue) \in Nat /\ Len(leftover) \in Nat /\ \A i \in 1 .. Len(queue) : queue[i] \in S
  BY LenProperties, ElementOfSeq
<1>3. Taken \in 0 .. BatchCap /\ Taken <= Len(queue)
  BY <1>1, <1>2 DEF Taken
<1>4. SubSeq(queue, 1, Taken) \in Seq(S) /\ Len(SubSeq(queue, 1, Taken)) = Taken
  <2>1. \A i \in 1 .. Taken : queue[i] \in S
    BY <1>1, <1>2, <1>3
  <2> QED
    BY <1>1, <1>3, <2>1, SubSeqProperties
<1>5. /\ SubSeq(queue, Taken + 1, Len(queue)) \in Seq(S)
      /\ Len(SubSeq(queue, Taken + 1, Len(queue))) = Len(queue) - Taken
      /\ \A i \in 1 .. Len(queue) - Taken :
            SubSeq(queue, Taken + 1, Len(queue))[i] = queue[Taken + i]
  <2>1. \A i \in Taken + 1 .. Len(queue) : queue[i] \in S
    BY <1>1, <1>2, <1>3
  <2>2. Taken + 1 \in Int /\ Len(queue) \in Int
    BY <1>1, <1>2, <1>3
  <2>3. /\ SubSeq(queue, Taken + 1, Len(queue)) \in Seq(S)
        /\ Len(SubSeq(queue, Taken + 1, Len(queue))) =
              IF Taken + 1 <= Len(queue) THEN Len(queue) - (Taken + 1) + 1 ELSE 0
        /\ \A i \in 1 .. Len(queue) - (Taken + 1) + 1 :
              SubSeq(queue, Taken + 1, Len(queue))[i] = queue[(Taken + 1) + i - 1]
    BY <2>1, <2>2, SubSeqProperties
  <2> QED
    BY <1>1, <1>2, <1>3, <2>3
<1>6. Decodable \in Seq(S) /\ Len(Decodable) = Len(leftover) + Taken
  BY <1>4, ConcatProperties DEF Decodable
<1> QED
  BY <1>1, <1>2, <1>3, <1>5, <1>6

(***************************************************************************)
(* Leftover and batch share out what was decoded.                          *)
(***************************************************************************)
LEMMA CutType ==
    ASSUME NEW S, NEW s \in Seq(S), s # <<>>
    PROVE  /\ <<s[Len(s)]>> \in Seq(S) /\ Len(<<s[Len(s)]>>) = 1
           /\ SubSeq(s, 1, Len(s) - 1) \in Seq(S)
           /\ Len(SubSeq(s, 1, Len(s) - 1)) = Len(s) - 1
<1>1. Len(s) \in Nat \ {0} /\ \A i \in 1 .. Len(s) : s[i] \in S
  BY EmptySeq, ElementOfSeq
<1>2. s[Len(s)] \in S
  BY <1>1
<1>3. Len(s) - 1 \in Int /\ \A i \in 1 .. Len(s) - 1 : s[i] \in S
  BY <1>1
<1>4. /\ SubSeq(s, 1, Len(s) - 1) \in Seq(S)
      /\ Len(SubSeq(s, 1, Len(s) - 1)) = IF 1 <= Len(s) - 1 THEN Len(s) - 1 - 1 + 1 ELSE 0
  BY <1>3, SubSeqProperties
<1>5. Len(SubSeq(s, 1, Len(s) - 1)) = Len(s) - 1
  <2>1. \A n \in Nat \ {0} : n - 1 = IF 1 <= n - 1 THEN n - 1 - 1 + 1 ELSE 0
    OBVIOUS
  <2>2. Len(s) - 1 = IF 1 <= Len(s) - 1 THEN Len(s) - 1 - 1 + 1 ELSE 0
    BY <1>1, <2>1
  <2> QED
    BY <1>4, <2>2
<1>6. <<s[Len(s)]>> \in Seq(S) /\ Len(<<s[Len(s)]>>) = 1
  <2> DEFINE x == s[Len(s)]
  <2> HIDE DEF x
  <2>1. x \in S
    BY <1>2 DEF x
  <2>2. <<x>> \in Seq(S) /\ Len(<<x>>) = 1
    BY <2>1
  <2> QED
    BY <2>2 DEF x
<1> QED
  BY <1>4, <1>5, <1>6

(***************************************************************************)
(* No action of the surroundings, of the tap or of the server breaks the   *)
(* types.                                                                  *)
(***************************************************************************)
LEMMA NextTypeInv == TypeInv /\ [Next]_vars => TypeInv'
<1> SUFFICES ASSUME TypeInv, [Next]_vars PROVE TypeInv'
  OBVIOUS
<1> USE DEF TypeInv
<1>0. <<>> \in Seq(Event) /\ <<>> \in Seq(Report) /\ Len(<<>>) = 0
      /\ QueueCap \in Nat \ {0} /\ BatchCap \in Nat \ {0} /\ PipeCap \in Nat \ {0}
      /\ MaxEvents \in Nat /\ MaxDiscarded \in Nat
  BY EmptySeq, TapAssumption
<1>1. ASSUME NEW pid \in Pid \ {Tap}, NEW f \in File \ {DumpFile}, Happen(pid, f)
      PROVE  TypeInv'
  <2> DEFINE e == Access(count + 1, pid, f)
  <2>1. count + 1 \in 0 .. MaxEvents /\ count + 1 \in 1 .. MaxEvents
    BY <1>0, <1>1 DEF Happen, TypeOK
  <2>2. e \in Event /\ e.id = count + 1
    BY <2>1, AccessType DEF Access
  <2> HIDE DEF e
  <2>3. queue' = Queued(e) /\ lost' \subseteq lost \cup {e.id}
    BY <1>1 DEF Happen, e
  <2>4. queue' \in Seq(Event) /\ Len(queue') <= QueueCap + 1 /\ OverflowInv'
    BY <2>2, <2>3, QueuedType
  <2>5. count' \in 0 .. MaxEvents /\ lost' \subseteq 1 .. MaxEvents
    BY <1>1, <2>1, <2>2, <2>3 DEF Happen, TypeOK
  <2> QED
    BY <1>1, <2>4, <2>5 DEF Happen, TypeOK, world, buffers, hub
<1>2. ASSUME NEW f \in File, Move(f)
      PROVE  TypeInv'
  <2>1. place' \in [File -> {"in", "out"}] /\ moved' \subseteq File
    BY <1>2 DEF Move, TypeOK
  <2> QED
    BY <1>2, <2>1 DEF Move, TypeOK, buffers, hub, OverflowInv
<1>3. ASSUME NEW p \in Proc, NEW n \in Name, Renamed(p, n)
      PROVE  TypeInv'
  <2>1. holder' \in [Proc -> Name \cup {Unknown}] /\ reused' \subseteq Proc
    BY <1>3 DEF Renamed, TypeOK
  <2> QED
    BY <1>3, <2>1 DEF Renamed, TypeOK, buffers, hub, OverflowInv
<1>4. ASSUME NEW p \in Proc, Exit(p)
      PROVE  TypeInv'
  <2>1. holder' \in [Proc -> Name \cup {Unknown}]
    BY <1>4 DEF Exit, TypeOK
  <2> QED
    BY <1>4, <2>1 DEF Exit, TypeOK, buffers, hub, OverflowInv
<1>5. ASSUME Fetch
      PROVE  /\ Decodable \in Seq(Event) /\ Len(Decodable) <= BatchCap + 1
             /\ Decodable # <<>> /\ Len(Decodable) \in Nat
             /\ queue' \in Seq(Event) /\ Len(queue') <= QueueCap + 1 /\ OverflowInv'
             /\ open' \in Int
  <2>1. queue \in Seq(Event) /\ leftover \in Seq(Event) /\ Len(leftover) <= 1
        /\ Len(queue) \in Nat /\ Len(leftover) \in Nat
    BY LenProperties DEF TypeOK
  <2>2. /\ Taken \in 0 .. BatchCap /\ Taken <= Len(queue)
        /\ Decodable \in Seq(Event) /\ Len(Decodable) <= BatchCap + 1
        /\ queue' \in Seq(Event) /\ Len(queue') = Len(queue) - Taken
    BY <1>5, <2>1, ReadType DEF Fetch
  <2>3. Decodable # <<>> /\ Len(Decodable) \in Nat
    BY <1>5, <2>2, LenProperties DEF Fetch
  <2>4. open' \in Int
    <3>1. IsFiniteSet(1 .. Taken)
      BY <1>0, <2>2, FS_Interval
    <3>2. Cardinality({i \in 1 .. Taken : queue[i].file # NoFile}) \in Nat
      BY <3>1, FS_Subset, FS_CardinalityType
    <3> QED
      BY <1>5, <3>2 DEF Fetch, TypeOK
  <2>5. Len(queue') <= QueueCap
    BY SMTT(30), <1>0, <2>1, <2>2 DEF Taken, TypeOK
  <2>6. OverflowInv' /\ Len(queue') <= QueueCap + 1
    BY <1>0, <2>2, <2>5, LenProperties DEF OverflowInv
  <2> QED
    BY <2>2, <2>3, <2>4, <2>6
<1>6. CASE Read
  <2>1. Fetch
    BY <1>6 DEF Read
  <2>2. leftover' \in Seq(Event) /\ Len(leftover') <= 1
    BY <1>0, <1>5, <1>6, <2>1, CutType DEF Read, Rest
  <2>3. batch' \in Seq(Event) /\ Len(batch') <= BatchCap + 1
    <3>1. CASE batch' = Decodable
      BY <1>5, <2>1, <3>1
    <3>2. CASE batch' = SubSeq(Decodable, 1, Len(Decodable) - 1)
      <4>1. batch' \in Seq(Event) /\ Len(batch') = Len(Decodable) - 1
        BY <1>5, <2>1, <3>2, CutType
      <4> QED
        BY <1>0, <1>5, <2>1, <4>1
    <3> QED
      BY <1>6, <3>1, <3>2 DEF Read
  <2> QED
    BY <1>5, <1>6, <2>1, <2>2, <2>3 DEF Read, Fetch, TypeOK, world, hub
<1>7. CASE ReadFails
  <2>1. Fetch /\ leftover' = <<>> /\ UNCHANGED batch
    BY <1>7 DEF ReadFails
  <2>2. discarded' \in Seq(Event) /\ Len(discarded') <= MaxDiscarded
    BY <1>5, <1>7, <2>1, ConcatProperties DEF ReadFails, TypeOK
  <2> QED
    BY <1>0, <1>5, <2>1, <2>2 DEF Fetch, TypeOK, world, hub
<1>8. CASE Handle
  <2> DEFINE e == Head(batch)
  <2>1. e \in Event /\ batch' \in Seq(Event) /\ Len(batch') <= BatchCap + 1
    <3>1. batch # <<>> /\ batch \in Seq(Event) /\ batch' = Tail(batch)
      BY <1>8 DEF Handle, TypeOK
    <3>2. Head(batch) \in Event /\ Tail(batch) \in Seq(Event) /\ Len(Tail(batch)) = Len(batch) - 1
      BY <3>1, HeadTailProperties
    <3> QED
      BY <1>0, <3>1, <3>2, LenProperties DEF TypeOK
  <2> HIDE DEF e
  <2>2. queue' \in Seq(Event) /\ Len(queue') <= QueueCap + 1 /\ OverflowInv'
    <3>1. CASE rawDump
      <4>1. Access(0, Tap, DumpFile) \in Event
        BY <1>0, TapAssumption, AccessType DEF Pid
      <4> QED
        BY <1>8, <3>1, <4>1, QueuedType DEF Handle
    <3>2. CASE ~rawDump
      BY <1>8, <3>2 DEF Handle, TypeOK, OverflowInv
    <3> QED
      BY <3>1, <3>2
  <2>3. open' \in Int
    BY <1>8 DEF Handle, TypeOK, Closed
  <2>4. DOMAIN cache' \subseteq Proc /\ \A p \in DOMAIN cache' : cache'[p] \in Name
    <3>1. CASE Watched(e)
      BY <1>8, <2>1, <3>1, CachedType DEF Handle, e
    <3>2. CASE ~Watched(e)
      BY <1>8, <3>2 DEF Handle, TypeOK, e
    <3> QED
      BY <3>1, <3>2
  <2>5. hand' \in Seq(Report) /\ Len(hand') <= 1
    <3>1. CASE Kept(e)
      <4>1. hand' = <<ReportOf(e)>> /\ ReportOf(e) \in Report
        BY <1>8, <2>1, <3>1, ReportType DEF Handle, e
      <4> QED
        BY <4>1
    <3>2. CASE ~Kept(e)
      BY <1>0, <1>8, <3>2 DEF Handle, e
    <3> QED
      BY <3>1, <3>2
  <2>6. filtered' \subseteq Event
    BY <1>8, <2>1 DEF Handle, TypeOK, e
  <2> QED
    BY <1>8, <2>1, <2>2, <2>3, <2>4, <2>5, <2>6 DEF Handle, TypeOK, world, buffers, hub
<1>9. CASE Write
  <2>1. pipe \in Seq(Report) /\ hand \in Seq(Report) /\ Len(hand) <= 1 /\ Len(pipe) < PipeCap
    BY <1>9 DEF Write, TypeOK
  <2>2. pipe' \in Seq(Report) /\ Len(pipe') = Len(pipe) + Len(hand)
    BY <1>9, <2>1, ConcatProperties DEF Write
  <2>3. Len(pipe') <= PipeCap
    BY <1>0, <2>1, <2>2, LenProperties
  <2> QED
    BY SMTT(30), <1>0, <1>9, <2>2, <2>3 DEF Write, TypeOK, world, buffers, hub, OverflowInv
<1>10. CASE Die
  <2>1. DOMAIN cache' = {}
    BY <1>10 DEF Die
  <2>2. /\ queue' \in Seq(Event) /\ Len(queue') <= QueueCap + 1 /\ ~(Len(queue') > QueueCap)
        /\ batch' \in Seq(Event) /\ Len(batch') <= BatchCap + 1
        /\ leftover' \in Seq(Event) /\ Len(leftover') <= 1
        /\ hand' \in Seq(Report) /\ Len(hand') <= 1
    BY <1>0, <1>10 DEF Die
  <2>3. open' \in Int /\ alive' \in BOOLEAN
    <3>1. open' = 0 /\ alive' = FALSE
      BY <1>10 DEF Die
    <3>2. open' \in Int
      BY <3>1
    <3>3. alive' \in BOOLEAN
      BY <3>1
    <3> QED
      BY <3>2, <3>3
  <2>4. DOMAIN cache' \subseteq Proc /\ \A p \in DOMAIN cache' : cache'[p] \in Name
    BY <2>1
  <2>5. UNCHANGED <<world, discarded, pipe, hub, count, lost, filtered>>
    BY <1>10 DEF Die
  <2>6. TypeOK'
    BY <2>2, <2>3, <2>4, <2>5 DEF TypeOK, world, hub
  <2>7. OverflowInv'
    BY <2>2 DEF OverflowInv
  <2> QED
    BY <2>6, <2>7
<1>11. CASE Ingest
  <2>1. pipe \in Seq(Report) /\ pipe # <<>> /\ Len(pipe) \in Nat
    BY <1>11, LenProperties DEF Ingest, Readable, TypeOK
  <2>2. Head(pipe) \in Report /\ pipe' \in Seq(Report) /\ Len(pipe') = Len(pipe) - 1
    BY <1>11, <2>1, HeadTailProperties DEF Ingest
  <2>3. log' \in Seq(Report)
    BY <1>11, <2>2, AppendProperties DEF Ingest, TypeOK
  <2>4. Len(pipe') <= PipeCap
    BY <1>0, <2>1, <2>2 DEF TypeOK
  <2> QED
    BY <1>11, <2>2, <2>3, <2>4 DEF Ingest, TypeOK, world, buffers, hub, OverflowInv
<1>12. CASE IngestFails
  <2>1. pipe \in Seq(Report) /\ pipe # <<>> /\ Len(pipe) \in Nat
    BY <1>12, LenProperties DEF IngestFails, Readable, TypeOK
  <2>2. Head(pipe) \in Report /\ pipe' \in Seq(Report) /\ Len(pipe') = Len(pipe) - 1
    BY <1>12, <2>1, HeadTailProperties DEF IngestFails
  <2>3. refused' \in Seq(Report) /\ Len(refused') <= 1
    <3> DEFINE r == Head(pipe)
    <3>1. refused' = <<r>> /\ r \in Report
      BY <1>12, <2>2 DEF IngestFails
    <3> HIDE DEF r
    <3> QED
      BY <3>1
  <2>4. Len(pipe') <= PipeCap
    BY <1>0, <2>1, <2>2 DEF TypeOK
  <2> QED
    BY <1>12, <2>2, <2>3, <2>4 DEF IngestFails, TypeOK, world, buffers, OverflowInv
<1>13. CASE CloseReader
  <2>1. pipe' \in Seq(Report) /\ Len(pipe') <= PipeCap /\ reader' = FALSE
    BY <1>0, <1>13 DEF CloseReader
  <2> QED
    BY <1>13, <2>1 DEF CloseReader, TypeOK, world, buffers, hub, OverflowInv
<1>14. CASE UNCHANGED vars
  BY <1>14 DEF vars, world, buffers, hub, TypeOK, OverflowInv
<1> QED
  BY <1>1, <1>2, <1>3, <1>4, <1>6, <1>7, <1>8, <1>9, <1>10, <1>11, <1>12, <1>13, <1>14
  DEF Next, BrokenPipe, Killed

(***************************************************************************)
(* Types are right in every state; so the queue stays within its limit and *)
(* one overflow event, a batch within one event more than a read, and the  *)
(* pipe within what it holds.                                              *)
(***************************************************************************)
THEOREM TypeCorrect == Spec => []TypeOK
<1>1. Spec => []TypeInv
  BY InitTypeInv, NextTypeInv, PTL DEF Spec
<1>2. TypeInv => TypeOK
  BY DEF TypeInv
<1> QED
  BY <1>1, <1>2, PTL
-----------------------------------------------------------------------------
(***************************************************************************)
(* Neither property is inductive: that the reports so far are right says   *)
(* nothing of the next one.  Reports and filtered events are right because *)
(* of what is known of an event on its way, of the cache and of the        *)
(* processes, as long as a pid has not changed its name: f has the name    *)
(* each pid had at first.                                                  *)
(***************************************************************************)
Faithful(f) ==
    {e \in Event : /\ e.pid \in Proc \ reused => e.by = f[e.pid]
                   /\ e.file \in File \ moved => e.at = place[e.file]}

RightReports ==
    {r \in Report : /\ r.pid \notin Own
                    /\ r.name \notin Excluded
                    /\ r.file \notin moved => r.at = "in"
                    /\ r.pid \notin reused => r.name \in {r.by, Unknown}}

Names(f) ==
    \A p \in Proc \ reused :
        /\ holder[p] \in {f[p], Unknown}
        /\ p \in DOMAIN cache => cache[p] = f[p]

SoundFor(f) ==
    /\ Names(f)
    /\ queue \in Seq(Faithful(f)) /\ leftover \in Seq(Faithful(f)) /\ batch \in Seq(Faithful(f))
    /\ hand \in Seq(RightReports) /\ pipe \in Seq(RightReports) /\ log \in Seq(RightReports)
    /\ RightlyFiltered

Sound == \E f \in [Proc -> Name] : SoundFor(f)

(***************************************************************************)
(* As long as its pid keeps its name, the name the tap finds for an event  *)
(* is the one it was recorded with, or none.                               *)
(***************************************************************************)
LEMMA NameFound ==
    ASSUME TypeOK, NEW f \in [Proc -> Name], Names(f), NEW p \in Proc \ reused
    PROVE  CommName(p) \in {f[p], Unknown}
BY DEF Names, CommName, NameOf

(***************************************************************************)
(* An event that passes the filter chain makes a right report, one that    *)
(* does not is rightly filtered (tap_linux.go:133-182).                    *)
(***************************************************************************)
LEMMA KeptIsRight ==
    ASSUME TypeOK, NEW f \in [Proc -> Name], Names(f), NEW e \in Faithful(f), Kept(e)
    PROVE  ReportOf(e) \in RightReports
<1>1. e \in Event /\ e.file \in File /\ e.pid \in Proc /\ place[e.file] = "in"
      /\ e.pid \notin Own /\ CommName(e.pid) \notin Excluded
  BY TapAssumption DEF Faithful, Event, Kept, Watched, Inside, Pid
<1>2. ReportOf(e) \in Report
  BY <1>1, ReportType
<1>3. e.file \notin moved => e.at = "in"
  BY <1>1 DEF Faithful
<1>4. e.pid \notin reused => CommName(e.pid) \in {e.by, Unknown}
  BY <1>1, NameFound DEF Faithful
<1> QED
  BY <1>1, <1>2, <1>3, <1>4 DEF RightReports, ReportOf

(***************************************************************************)
(* An event that is not kept may be filtered: RightlyFiltered of it.       *)
(***************************************************************************)
LEMMA FilteredIsRight ==
    ASSUME TypeOK, NEW f \in [Proc -> Name], Names(f), NEW e \in Faithful(f), ~Kept(e)
    PROVE  \/ e.pid \in Own
           \/ e.file \in moved \cup {NoFile} \/ e.at = "out"
           \/ e.pid \in reused \/ e.by \in Excluded
<1>1. e \in Event /\ e.file \in File \cup {NoFile} /\ e.pid \in Own \cup Proc
  BY DEF Faithful, Event, Pid
<1>2. CASE ~Inside(e)
  <2>1. e.file \in File => place[e.file] = "out"
    BY <1>1, <1>2, TapAssumption DEF Inside, TypeOK
  <2> QED
    BY <1>1, <2>1 DEF Faithful
<1>3. CASE e.pid \notin Own /\ CommName(e.pid) \in Excluded
  <2>1. CommName(e.pid) # Unknown
    BY <1>3, TapAssumption
  <2>2. e.pid \notin reused => e.by \in Excluded
    BY <1>1, <1>3, <2>1, NameFound DEF Faithful
  <2> QED
    BY <2>2
<1> QED
  BY <1>2, <1>3 DEF Kept, Watched

(***************************************************************************)
(* The kernel queues nothing but the event and an overflow.                *)
(***************************************************************************)
LEMMA QueuedIn ==
    ASSUME NEW S, queue \in Seq(S), NEW e \in S, Overflow \in S
    PROVE  Queued(e) \in Seq(S)
BY AppendProperties DEF Queued

(***************************************************************************)
(* An access is recorded with the place of the file and the name of the    *)
(* process, if that runs; so is the overflow event, which has neither.     *)
(***************************************************************************)
LEMMA AccessIsFaithful ==
    ASSUME TypeOK, NEW f \in [Proc -> Name], Names(f),
           NEW id \in 0 .. MaxEvents, NEW pid \in Pid, NEW g \in File,
           pid \in Proc => holder[pid] # Unknown
    PROVE  Access(id, pid, g) \in Faithful(f)
<1>1. Access(id, pid, g) \in Event
  BY AccessType
<1>2. pid \in Proc \ reused => NameOf(pid) = f[pid]
  BY DEF Names, NameOf
<1> QED
  BY <1>1, <1>2 DEF Faithful, Access

\* An overflow event is about no file and so claims nothing.
LEMMA OverflowIsFaithful ==
    ASSUME NEW f
    PROVE  Overflow \in Faithful(f)
<1>1. Overflow \in Event /\ Overflow.pid \notin Proc /\ Overflow.file \notin File
  BY TapAssumption DEF Overflow, Event, Pid
<1> QED
  BY <1>1 DEF Faithful

(***************************************************************************)
(* What is right stays right when a file moves or a pid is reused.         *)
(***************************************************************************)
LEMMA StaysRight ==
    ASSUME NEW f, moved \subseteq moved', reused \subseteq reused',
           \A g \in File \ moved' : place'[g] = place[g]
    PROVE  Faithful(f) \subseteq Faithful(f)' /\ RightReports \subseteq RightReports'
<1>1. Faithful(f) \subseteq Faithful(f)'
  BY DEF Faithful
<1>2. RightReports \subseteq RightReports'
  BY DEF RightReports
<1> QED
  BY <1>1, <1>2

(***************************************************************************)
(* The cache gets no name but the one its pid has.                         *)
(***************************************************************************)
LEMMA CacheStaysRight ==
    ASSUME TypeOK, NEW f \in [Proc -> Name], Names(f), NEW q \in Proc,
           NEW p \in Proc \ reused, p \in DOMAIN Cached(q)
    PROVE  Cached(q)[p] = f[p]
<1>1. CASE Cached(q) = cache
  BY <1>1 DEF Names
<1>2. CASE Cached(q) # cache
  <2> DEFINE kept == IF Cardinality(DOMAIN cache) > CacheCap THEN {} ELSE DOMAIN cache
  <2>1. NameOf(q) # Unknown /\ Cached(q) =
            [r \in kept \cup {q} |-> IF r = q THEN NameOf(q) ELSE cache[r]]
    BY <1>2 DEF Cached
  <2>2. kept \subseteq DOMAIN cache
    OBVIOUS
  <2>3. CASE p = q
    BY <2>1, <2>3 DEF Names, NameOf
  <2>4. CASE p # q
    <3>1. p \in DOMAIN cache /\ Cached(q)[p] = cache[p]
      BY <2>1, <2>2, <2>4
    <3> QED
      BY <3>1 DEF Names
  <2> QED
    BY <2>3, <2>4
<1> QED
  BY <1>1, <1>2

(***************************************************************************)
(* All is sound before anything has happened; f is the first holder.       *)
(***************************************************************************)
LEMMA InitSound == Init => Sound
<1> SUFFICES ASSUME Init PROVE SoundFor(holder)
  BY DEF Init, Sound
<1>1. \A S : <<>> \in Seq(S)
  OBVIOUS
<1>2. Names(holder)
  <2>1. DOMAIN cache = {}
    BY DEF Init
  <2> QED
    BY <2>1 DEF Names
<1>3. RightlyFiltered
  BY DEF Init, RightlyFiltered
<1> QED
  BY <1>1, <1>2, <1>3 DEF Init, SoundFor

(***************************************************************************)
(* Every step keeps what is sound: those of files and processes because    *)
(* they only add to moved and reused, those of the tap and the server      *)
(* because they pass on what they got.                                     *)
(***************************************************************************)
LEMMA NextSound ==
    ASSUME TypeInv, TypeInv', NEW f \in [Proc -> Name], SoundFor(f), [Next]_vars
    PROVE  SoundFor(f)'
<1> USE DEF TypeInv
<1> DEFINE F == Faithful(f)
           R == RightReports
<1>0. /\ Names(f) /\ RightlyFiltered
      /\ queue \in Seq(F) /\ leftover \in Seq(F) /\ batch \in Seq(F)
      /\ hand \in Seq(R) /\ pipe \in Seq(R) /\ log \in Seq(R)
      /\ <<>> \in Seq(F) /\ <<>> \in Seq(R)
  BY EmptySeq DEF SoundFor
<1>1. ASSUME UNCHANGED world
      PROVE  Faithful(f)' = F /\ RightReports' = R
  BY <1>1 DEF world, Faithful, RightReports
<1>2. ASSUME UNCHANGED <<world, cache, filtered>>
      PROVE  Names(f)' /\ RightlyFiltered'
  BY <1>0, <1>2 DEF world, Names, RightlyFiltered
<1>3. ASSUME moved \subseteq moved', reused \subseteq reused',
             \A g \in File \ moved' : place'[g] = place[g],
             UNCHANGED <<queue, leftover, batch, hand, pipe, log, filtered>>,
             Names(f)'
      PROVE  SoundFor(f)'
  <2>1. F \subseteq Faithful(f)' /\ R \subseteq RightReports'
    BY <1>3, StaysRight
  <2> HIDE DEF F, R
  <2>2. queue' \in Seq(Faithful(f)') /\ leftover' \in Seq(Faithful(f)')
        /\ batch' \in Seq(Faithful(f)')
    BY <1>0, <1>3, <2>1, SeqMonotonic
  <2>3. hand' \in Seq(RightReports') /\ pipe' \in Seq(RightReports') /\ log' \in Seq(RightReports')
    BY <1>0, <1>3, <2>1, SeqMonotonic
  <2>4. RightlyFiltered'
    BY <1>0, <1>3 DEF RightlyFiltered
  <2> QED
    BY <1>3, <2>2, <2>3, <2>4 DEF SoundFor
<1>4. ASSUME NEW pid \in Pid \ {Tap}, NEW g \in File \ {DumpFile}, Happen(pid, g)
      PROVE  SoundFor(f)'
  <2> DEFINE e == Access(count + 1, pid, g)
  <2>1. count + 1 \in 0 .. MaxEvents /\ (pid \in Proc => holder[pid] # Unknown)
    BY <1>4, TapAssumption DEF Happen, TypeOK
  <2>2. e \in F /\ Overflow \in F
    BY <1>0, <2>1, AccessIsFaithful, OverflowIsFaithful
  <2>3. queue' = Queued(e) /\ UNCHANGED <<world, leftover, batch, cache, hand, pipe, log, filtered>>
    BY <1>4 DEF Happen, buffers, hub
  <2> HIDE DEF e, F, R
  <2>4. queue' \in Seq(F)
    BY <1>0, <2>2, <2>3, QueuedIn
  <2> QED
    BY <1>0, <1>1, <1>2, <2>3, <2>4 DEF SoundFor
<1>5. ASSUME NEW g \in File, Move(g)
      PROVE  SoundFor(f)'
  <2>1. /\ moved \subseteq moved' /\ reused \subseteq reused'
        /\ \A h \in File \ moved' : place'[h] = place[h]
        /\ UNCHANGED <<queue, leftover, batch, hand, pipe, log, filtered>>
    BY <1>5 DEF Move, buffers, hub, TypeOK
  <2>2. Names(f)'
    BY <1>0, <1>5 DEF Move, Names
  <2> QED
    BY <1>3, <2>1, <2>2
<1>6. ASSUME NEW p \in Proc, NEW n \in Name, Renamed(p, n)
      PROVE  SoundFor(f)'
  <2>1. /\ moved \subseteq moved' /\ reused \subseteq reused'
        /\ \A h \in File \ moved' : place'[h] = place[h]
        /\ UNCHANGED <<queue, leftover, batch, hand, pipe, log, filtered>>
    BY <1>6 DEF Renamed, buffers, hub
  <2>2. Names(f)'
    <3> SUFFICES ASSUME NEW q \in Proc \ reused'
                 PROVE  /\ holder'[q] \in {f[q], Unknown}
                        /\ q \in DOMAIN cache' => cache'[q] = f[q]
      BY DEF Names
    <3>1. q # p /\ q \notin reused
      BY <1>6 DEF Renamed
    <3>2. holder'[q] = holder[q] /\ cache' = cache
      BY <1>6, <3>1 DEF Renamed, TypeOK
    <3> QED
      BY <1>0, <3>1, <3>2 DEF Names
  <2> QED
    BY <1>3, <2>1, <2>2
<1>7. ASSUME NEW p \in Proc, Exit(p)
      PROVE  SoundFor(f)'
  <2>1. /\ moved \subseteq moved' /\ reused \subseteq reused'
        /\ \A h \in File \ moved' : place'[h] = place[h]
        /\ UNCHANGED <<queue, leftover, batch, hand, pipe, log, filtered>>
    BY <1>7 DEF Exit, buffers, hub
  <2>2. Names(f)'
    BY <1>0, <1>7 DEF Exit, Names, TypeOK
  <2> QED
    BY <1>3, <2>1, <2>2
<1>8. CASE Read \/ ReadFails
  <2>1. Fetch
    BY <1>8 DEF Read, ReadFails
  <2>2. UNCHANGED <<world, cache, hand, pipe, log, filtered>>
    BY <2>1 DEF Fetch, hub
  <2> HIDE DEF F, R
  <2>3. Decodable \in Seq(F) /\ queue' \in Seq(F)
    BY <1>0, <2>1, ReadType DEF Fetch, TypeOK
  <2>4. Decodable # <<>>
    BY <2>1 DEF Fetch
  <2>5. leftover' \in Seq(F)
    BY <1>0, <1>8, <2>3, <2>4, CutType DEF Read, ReadFails, Rest
  <2>6. batch' \in Seq(F)
    BY <1>0, <1>8, <2>3, <2>4, CutType DEF Read, ReadFails
  <2> QED
    BY <1>0, <1>1, <1>2, <2>2, <2>3, <2>5, <2>6 DEF SoundFor
<1>9. CASE Handle
  <2> DEFINE e == Head(batch)
  <2>1. UNCHANGED <<world, leftover, pipe, log>>
    BY <1>9 DEF Handle, hub
  <2>2. Faithful(f)' = F /\ RightReports' = R
    BY <1>1, <2>1
  <2>3. e \in F /\ batch' \in Seq(F)
    BY <1>0, <1>9, HeadTailProperties DEF Handle
  <2>4. queue' \in Seq(F)
    <3>1. Access(0, Tap, DumpFile) \in F /\ Overflow \in F
      <4>1. 0 \in 0 .. MaxEvents /\ Tap \in Pid /\ Tap \notin Proc /\ DumpFile \in File
        BY TapAssumption DEF Pid
      <4> QED
        BY <1>0, <4>1, AccessIsFaithful, OverflowIsFaithful
    <3> HIDE DEF F
    <3> QED
      BY <1>0, <1>9, <3>1, QueuedIn DEF Handle
  <2>5. hand' \in Seq(R)
    <3>1. CASE Kept(e)
      <4>1. hand' = <<ReportOf(e)>> /\ ReportOf(e) \in R
        BY <1>0, <1>9, <2>3, <3>1, KeptIsRight DEF Handle
      <4> HIDE DEF R
      <4> QED
        BY <4>1
    <3>2. CASE ~Kept(e)
      BY <1>0, <1>9, <3>2 DEF Handle
    <3> QED
      BY <3>1, <3>2
  <2>6. Names(f)'
    <3> SUFFICES ASSUME NEW p \in Proc \ reused, p \in DOMAIN cache'
                 PROVE  cache'[p] = f[p]
      BY <1>0, <2>1 DEF Names, world
    <3>1. CASE Watched(e)
      <4>1. e.pid \in Proc /\ cache' = Cached(e.pid)
        BY <1>9, <2>3, <3>1, TapAssumption DEF Handle, Watched, Faithful, Event, Pid
      <4> QED
        BY <1>0, <4>1, CacheStaysRight
    <3>2. CASE ~Watched(e)
      BY <1>0, <1>9, <3>2 DEF Handle, Names
    <3> QED
      BY <3>1, <3>2
  <2>7. RightlyFiltered'
    <3> SUFFICES ASSUME NEW g \in filtered'
                 PROVE  \/ g.pid \in Own
                        \/ g.file \in moved \cup {NoFile} \/ g.at = "out"
                        \/ g.pid \in reused \/ g.by \in Excluded
      BY <2>1 DEF RightlyFiltered, world
    <3>1. CASE g \in filtered
      BY <1>0, <3>1 DEF RightlyFiltered
    <3>2. CASE g = e /\ ~Kept(e)
      BY <1>0, <2>3, <3>2, FilteredIsRight
    <3> QED
      BY <1>9, <3>1, <3>2 DEF Handle
  <2> HIDE DEF F, R
  <2> QED
    BY <1>0, <2>1, <2>2, <2>3, <2>4, <2>5, <2>6, <2>7 DEF SoundFor
<1>10. CASE Write
  <2>1. UNCHANGED <<world, queue, leftover, batch, cache, log, filtered>>
    BY <1>10 DEF Write, buffers, hub
  <2> HIDE DEF F, R
  <2>2. hand' \in Seq(R) /\ pipe' \in Seq(R)
    BY <1>0, <1>10, ConcatProperties DEF Write
  <2> QED
    BY <1>0, <1>1, <1>2, <2>1, <2>2 DEF SoundFor
<1>11. CASE Die
  <2>1. UNCHANGED <<world, pipe, log, filtered>>
    BY <1>11 DEF Die, hub
  <2>2. queue' \in Seq(F) /\ leftover' \in Seq(F) /\ batch' \in Seq(F) /\ hand' \in Seq(R)
    BY <1>0, <1>11 DEF Die
  <2>3. DOMAIN cache' = {}
    BY <1>11 DEF Die
  <2>4. Names(f)' /\ RightlyFiltered'
    BY <1>0, <2>1, <2>3 DEF Names, RightlyFiltered, world
  <2> HIDE DEF F, R
  <2> QED
    BY <1>0, <1>1, <2>1, <2>2, <2>4 DEF SoundFor
<1>12. CASE Ingest
  <2>1. UNCHANGED <<world, queue, leftover, batch, cache, hand, filtered>>
    BY <1>12 DEF Ingest, buffers
  <2> HIDE DEF F, R
  <2>2. Head(pipe) \in R /\ pipe' \in Seq(R)
    BY <1>0, <1>12, HeadTailProperties DEF Ingest, Readable
  <2>3. log' \in Seq(R)
    BY <1>0, <1>12, <2>2, AppendProperties DEF Ingest
  <2> QED
    BY <1>0, <1>1, <1>2, <2>1, <2>2, <2>3 DEF SoundFor
<1>13. CASE CloseReader
  <2>1. UNCHANGED <<world, queue, leftover, batch, cache, hand, log, filtered>> /\ pipe' = <<>>
    BY <1>13 DEF CloseReader, buffers
  <2> HIDE DEF F, R
  <2> QED
    BY <1>0, <1>1, <1>2, <2>1 DEF SoundFor
<1>14. CASE IngestFails
  <2>1. UNCHANGED <<world, queue, leftover, batch, cache, hand, log, filtered>>
    BY <1>14 DEF IngestFails, buffers
  <2> HIDE DEF F, R
  <2>2. pipe' \in Seq(R)
    BY <1>0, <1>14, HeadTailProperties DEF IngestFails, Readable
  <2> QED
    BY <1>0, <1>1, <1>2, <2>1, <2>2 DEF SoundFor
<1>15. CASE UNCHANGED vars
  <2>1. UNCHANGED <<world, queue, leftover, batch, cache, hand, pipe, log, filtered>>
    BY <1>15 DEF vars, buffers, hub
  <2> HIDE DEF F, R
  <2> QED
    BY <1>0, <1>1, <1>2, <2>1 DEF SoundFor
<1> QED
  BY <1>4, <1>5, <1>6, <1>7, <1>8, <1>9, <1>10, <1>11, <1>12, <1>13, <1>14, <1>15
  DEF Next, BrokenPipe, Killed

(***************************************************************************)
(* The reports that Sound admits are right wherever they are.              *)
(***************************************************************************)
LEMMA SoundReports == Sound => ReportsAreRight
<1> SUFFICES ASSUME NEW f \in [Proc -> Name], SoundFor(f) PROVE ReportsAreRight
  BY DEF Sound
<1> DEFINE reports == log \o pipe \o hand
<1>1. reports \in Seq(RightReports)
  <2>1. log \o pipe \in Seq(RightReports)
    BY ConcatProperties DEF SoundFor
  <2> QED
    BY <2>1, ConcatProperties DEF SoundFor
<1> HIDE DEF reports
<1>2. \A i \in DOMAIN reports : reports[i] \in RightReports
  BY <1>1, LenProperties, ElementOfSeq
<1>3. \A i \in DOMAIN reports :
          LET r == reports[i]
          IN  /\ r.pid \notin Own
              /\ r.name \notin Excluded
              /\ r.file \notin moved => r.at = "in"
              /\ r.pid \notin reused => r.name \in {r.by, Unknown}
  BY <1>2 DEF RightReports
<1> QED
  BY <1>3 DEF ReportsAreRight, reports

(***************************************************************************)
(* Sound holds in every state.                                             *)
(***************************************************************************)
LEMMA AlwaysSound == Spec => []Sound
<1>1. TypeInv /\ TypeInv' /\ Sound /\ [Next]_vars => Sound'
  <2> SUFFICES ASSUME TypeInv, TypeInv', Sound, [Next]_vars PROVE Sound'
    OBVIOUS
  <2>1. PICK f \in [Proc -> Name] : SoundFor(f)
    BY DEF Sound
  <2>2. SoundFor(f)'
    BY <2>1, NextSound
  <2> QED
    BY <2>2 DEF Sound
<1> QED
  BY <1>1, InitTypeInv, NextTypeInv, InitSound, PTL DEF Spec

(***************************************************************************)
(* Whatever moves, exits or is reused while an event waits: what the hub   *)
(* gets is never an access of the server, sudo or the tap, never carries   *)
(* an excluded name, and is wrong in place or name only for a file that    *)
(* moved or a pid that changed its name (tap_linux.go:126-183).            *)
(***************************************************************************)
THEOREM ReportsRight == Spec => []ReportsAreRight
BY AlwaysSound, SoundReports, PTL

(***************************************************************************)
(* And nothing is filtered that should have been reported, with the same   *)
(* exceptions.                                                             *)
(***************************************************************************)
THEOREM FilteredRight == Spec => []RightlyFiltered
<1>1. Sound => RightlyFiltered
  BY DEF Sound, SoundFor
<1> QED
  BY <1>1, AlwaysSound, PTL
-----------------------------------------------------------------------------
(***************************************************************************)
(* The descriptors that came with the events of a sequence.                *)
(***************************************************************************)
OwnedAt(s) == {i \in DOMAIN s : s[i].file # NoFile}
Owned(s) == Cardinality(OwnedAt(s))

(***************************************************************************)
(* Their number is a number.                                               *)
(***************************************************************************)
LEMMA OwnedType ==
    ASSUME NEW S, NEW s \in Seq(S)
    PROVE  IsFiniteSet(OwnedAt(s)) /\ Owned(s) \in Nat
<1>1. DOMAIN s = 1 .. Len(s) /\ Len(s) \in Nat
  BY LenProperties
<1>2. IsFiniteSet(1 .. Len(s)) /\ OwnedAt(s) \in SUBSET (1 .. Len(s))
  BY <1>1, FS_Interval DEF OwnedAt
<1>3. IsFiniteSet(OwnedAt(s))
  BY <1>2, FS_Subset
<1> QED
  BY <1>3, FS_CardinalityType DEF Owned

(***************************************************************************)
(* Events put one after the other bring the descriptors of both.           *)
(***************************************************************************)
LEMMA OwnedConcat ==
    ASSUME NEW S, NEW s \in Seq(S), NEW t \in Seq(S)
    PROVE  Owned(s \o t) = Owned(s) + Owned(t)
<1> DEFINE n == Len(s)
           A == OwnedAt(s)
           B == OwnedAt(t)
           C == {n + i : i \in B}
           shift == [i \in B |-> n + i]
<1>1. /\ DOMAIN s = 1 .. n /\ n \in Nat
      /\ DOMAIN t = 1 .. Len(t) /\ Len(t) \in Nat
      /\ DOMAIN (s \o t) = 1 .. n + Len(t)
      /\ \A i \in 1 .. n + Len(t) : (s \o t)[i] = IF i <= n THEN s[i] ELSE t[i - n]
  <2>1. s \o t \in Seq(S) /\ Len(s \o t) = n + Len(t)
        /\ \A i \in 1 .. n + Len(t) : (s \o t)[i] = IF i <= n THEN s[i] ELSE t[i - n]
    BY ConcatProperties
  <2>2. DOMAIN (s \o t) = 1 .. Len(s \o t)
    BY <2>1, LenProperties
  <2> QED
    BY <2>1, <2>2, LenProperties
<1>2. A \subseteq 1 .. n /\ B \subseteq 1 .. Len(t)
  BY <1>1 DEF OwnedAt
<1>3. IsFiniteSet(A) /\ IsFiniteSet(B)
  BY OwnedType
<1>4. IsFiniteSet(C) /\ Cardinality(C) = Cardinality(B)
  <2> HIDE DEF n, B
  <2>1. shift \in [B -> C]
    OBVIOUS
  <2>2. \A a, b \in B : shift[a] = shift[b] => a = b
    BY <1>1, <1>2
  <2>3. \A c \in C : \E b \in B : shift[b] = c
    OBVIOUS
  <2> HIDE DEF C, shift
  <2>4. shift \in Bijection(B, C)
    BY <2>1, <2>2, <2>3, Fun_IsBij
  <2> QED
    BY <1>3, <2>4, FS_Bijection DEF ExistsBijection
<1>5. OwnedAt(s \o t) = A \cup C
  <2>1. ASSUME NEW i \in OwnedAt(s \o t) PROVE i \in A \cup C
    <3>1. i \in 1 .. n + Len(t) /\ (s \o t)[i].file # NoFile
      BY <1>1 DEF OwnedAt
    <3>2. CASE i <= n
      BY <1>1, <3>1, <3>2 DEF OwnedAt
    <3>3. CASE i > n
      <4>1. i - n \in 1 .. Len(t) /\ t[i - n].file # NoFile /\ i = n + (i - n)
        BY <1>1, <3>1, <3>3
      <4>2. i - n \in B
        BY <1>1, <4>1 DEF OwnedAt
      <4> QED
        BY <4>1, <4>2
    <3>4. i <= n \/ i > n
      BY <1>1, <3>1
    <3> QED
      BY <3>2, <3>3, <3>4
  <2>2. ASSUME NEW i \in A PROVE i \in OwnedAt(s \o t)
    <3>1. i \in 1 .. n /\ s[i].file # NoFile
      BY <1>1 DEF OwnedAt
    <3>2. i \in 1 .. n + Len(t) /\ (s \o t)[i] = s[i]
      BY <1>1, <3>1
    <3> QED
      BY <1>1, <3>1, <3>2 DEF OwnedAt
  <2>3. ASSUME NEW j \in B PROVE n + j \in OwnedAt(s \o t)
    <3>1. j \in 1 .. Len(t) /\ t[j].file # NoFile
      BY <1>1 DEF OwnedAt
    <3>2. n + j \in 1 .. n + Len(t) /\ (s \o t)[n + j] = t[j]
      BY <1>1, <3>1
    <3> QED
      BY <1>1, <3>1, <3>2 DEF OwnedAt
  <2> QED
    BY <2>1, <2>2, <2>3
<1>6. A \cap C = {}
  BY <1>1, <1>2
<1> HIDE DEF n, A, B, C
<1>7. Cardinality(A \cup C) = Cardinality(A) + Cardinality(C) - Cardinality(A \cap C)
  BY <1>3, <1>4, FS_Union
<1>8. Cardinality(A \cap C) = 0 /\ Cardinality(A) \in Nat /\ Cardinality(B) \in Nat
  BY <1>3, <1>6, FS_EmptySet, FS_CardinalityType
<1>9. Cardinality(A \cup C) = Cardinality(A) + Cardinality(B)
  BY <1>4, <1>7, <1>8
<1> QED
  BY <1>5, <1>9 DEF Owned, A, B

(***************************************************************************)
(* None brings none; one brings what closing it gives back.                *)
(***************************************************************************)
LEMMA OwnedOne ==
    ASSUME NEW e
    PROVE  Owned(<<>>) = 0 /\ Owned(<<e>>) = Closed(e)
<1>1. OwnedAt(<<>>) = {}
  BY DEF OwnedAt
<1>2. e.file = NoFile => OwnedAt(<<e>>) = {}
  BY DEF OwnedAt
<1>3. e.file # NoFile => OwnedAt(<<e>>) = {1}
  BY DEF OwnedAt
<1> QED
  BY <1>1, <1>2, <1>3, FS_EmptySet, FS_Singleton DEF Owned, Closed

\* A batch is its first event and the others.
LEMMA FirstAndRest ==
    ASSUME NEW S, NEW s \in Seq(S), s # <<>>
    PROVE  /\ <<Head(s)>> \o Tail(s) = s
           /\ <<Head(s)>> \in Seq(S) /\ Tail(s) \in Seq(S) /\ Head(s) \in S
<1> DEFINE e == Head(s)
<1>1. e \in S /\ Tail(s) \in Seq(S) /\ Len(Tail(s)) = Len(s) - 1 /\ Len(s) \in Nat \ {0}
      /\ \A i \in 1 .. Len(Tail(s)) : Tail(s)[i] = s[i + 1]
  BY HeadTailProperties, EmptySeq
<1>2. <<e>> \in Seq(S) /\ Len(<<e>>) = 1 /\ <<e>>[1] = s[1]
  <2>1. e = s[1]
    OBVIOUS
  <2> HIDE DEF e
  <2> QED
    BY <1>1, <2>1
<1> HIDE DEF e
<1>3. /\ <<e>> \o Tail(s) \in Seq(S)
      /\ Len(<<e>> \o Tail(s)) = Len(s)
      /\ \A i \in 1 .. Len(s) : (<<e>> \o Tail(s))[i] = s[i]
  <2>1. /\ <<e>> \o Tail(s) \in Seq(S)
        /\ Len(<<e>> \o Tail(s)) = 1 + Len(Tail(s))
        /\ \A i \in 1 .. 1 + Len(Tail(s)) :
              (<<e>> \o Tail(s))[i] = IF i <= 1 THEN <<e>>[i] ELSE Tail(s)[i - 1]
    BY <1>1, <1>2, ConcatProperties
  <2>2. ASSUME NEW i \in 1 .. Len(s) PROVE (<<e>> \o Tail(s))[i] = s[i]
    <3>1. CASE i = 1
      BY <1>1, <1>2, <2>1, <3>1
    <3>2. CASE i > 1
      <4>1. i - 1 \in 1 .. Len(Tail(s)) /\ (i - 1) + 1 = i /\ ~(i <= 1)
        BY <1>1, <3>2
      <4> QED
        BY <1>1, <2>1, <4>1
    <3> QED
      BY <3>1, <3>2
  <2> QED
    BY <1>1, <2>1, <2>2
<1>4. <<e>> \o Tail(s) = s
  BY <1>3, SeqEqual
<1> QED
  BY <1>1, <1>2, <1>4 DEF e

(***************************************************************************)
(* What is open for a batch is open for its first event and the others.    *)
(***************************************************************************)
LEMMA OwnedHead ==
    ASSUME NEW S, NEW s \in Seq(S), s # <<>>
    PROVE  Owned(s) = Closed(Head(s)) + Owned(Tail(s))
<1>1. <<Head(s)>> \o Tail(s) = s /\ <<Head(s)>> \in Seq(S) /\ Tail(s) \in Seq(S)
  BY FirstAndRest
<1>2. Owned(<<Head(s)>> \o Tail(s)) = Owned(<<Head(s)>>) + Owned(Tail(s))
  BY <1>1, OwnedConcat
<1> QED
  BY <1>1, <1>2, OwnedOne

\* What a read returned is its last event, which may be cut, behind the others.
LEMMA OthersAndLast ==
    ASSUME NEW S, NEW s \in Seq(S), s # <<>>
    PROVE  /\ s = SubSeq(s, 1, Len(s) - 1) \o <<s[Len(s)]>>
           /\ SubSeq(s, 1, Len(s) - 1) \in Seq(S) /\ <<s[Len(s)]>> \in Seq(S)
<1>1. Len(s) \in Nat \ {0} /\ 1 \in 1 .. Len(s) /\ Len(s) \in 1 .. Len(s)
  BY EmptySeq
<1>2. SubSeq(s, 1, Len(s)) = SubSeq(s, 1, Len(s) - 1) \o <<s[Len(s)]>>
  BY <1>1, SubSeqRecursiveSecond
<1>3. SubSeq(s, 1, Len(s)) = s
  BY SubSeqFull
<1> QED
  BY <1>2, <1>3, CutType

(***************************************************************************)
(* The same for the last one.                                              *)
(***************************************************************************)
LEMMA OwnedCut ==
    ASSUME NEW S, NEW s \in Seq(S), s # <<>>
    PROVE  Owned(s) = Owned(SubSeq(s, 1, Len(s) - 1)) + Owned(<<s[Len(s)]>>)
BY OthersAndLast, OwnedConcat

(***************************************************************************)
(* A read opens the descriptors of the events it takes.                    *)
(***************************************************************************)
LEMMA OwnedTaken ==
    ASSUME TypeOK
    PROVE  /\ SubSeq(queue, 1, Taken) \in Seq(Event)
           /\ Owned(SubSeq(queue, 1, Taken)) =
                  Cardinality({i \in 1 .. Taken : queue[i].file # NoFile})
<1>1. queue \in Seq(Event) /\ Len(queue) \in Nat
      /\ leftover \in Seq(Event) /\ Len(leftover) <= 1
  BY LenProperties DEF TypeOK
<1>2. Taken \in 0 .. BatchCap /\ Taken <= Len(queue) /\ BatchCap \in Nat
  BY <1>1, ReadType, TapAssumption
<1>3. Taken \in Int /\ \A i \in 1 .. Taken : queue[i] \in Event
  BY <1>1, <1>2, ElementOfSeq
<1>4. /\ SubSeq(queue, 1, Taken) \in Seq(Event)
      /\ Len(SubSeq(queue, 1, Taken)) = IF 1 <= Taken THEN Taken - 1 + 1 ELSE 0
      /\ \A i \in 1 .. Taken - 1 + 1 : SubSeq(queue, 1, Taken)[i] = queue[1 + i - 1]
  BY <1>3, SubSeqProperties
<1>5. DOMAIN SubSeq(queue, 1, Taken) = 1 .. Taken
  <2>1. Len(SubSeq(queue, 1, Taken)) = Taken
    BY <1>2, <1>4
  <2> QED
    BY <1>4, <2>1, LenProperties
<1>6. \A i \in 1 .. Taken : SubSeq(queue, 1, Taken)[i] = queue[i]
  BY <1>2, <1>4
<1> QED
  BY <1>4, <1>5, <1>6 DEF Owned, OwnedAt

(***************************************************************************)
(* While the tap runs its open descriptors are exactly those of the events *)
(* it has read and not handled and those of reads that did not parse: of   *)
(* every read that parses, whatever is filtered or cut, each descriptor is *)
(* closed, and no more than once (tap_linux.go:133-139); of one that does  *)
(* not, none is (tap_linux.go:120-125).                                    *)
(***************************************************************************)
THEOREM DescriptorsCorrect == Spec => []DescriptorsOwned
<1> DEFINE Held == Owned(leftover) + Owned(batch) + Owned(discarded)
           Inv == open = IF alive THEN Held ELSE 0
<1>1. DescriptorsOwned <=> Inv
  BY DEF DescriptorsOwned, Owned, OwnedAt
<1>2. Init => Inv
  <2>1. Owned(<<>>) = 0
    BY OwnedOne
  <2>2. Init => open = 0 /\ leftover = <<>> /\ batch = <<>> /\ discarded = <<>>
    BY DEF Init
  <2> QED
    BY <2>1, <2>2
<1>3. ASSUME TypeInv, TypeInv', Inv, [Next]_vars PROVE Inv'
  <2>1. /\ leftover \in Seq(Event) /\ batch \in Seq(Event) /\ discarded \in Seq(Event)
        /\ Owned(leftover) \in Nat /\ Owned(batch) \in Nat /\ Owned(discarded) \in Nat
        /\ Owned(<<>>) = 0
    BY <1>3, OwnedType, OwnedOne DEF TypeInv, TypeOK
  <2>2. ASSUME Fetch
        PROVE  /\ Decodable \in Seq(Event) /\ Decodable # <<>> /\ batch = <<>>
               /\ alive /\ alive' = alive
               /\ open' = Owned(Decodable) + Owned(discarded)
    <3> DEFINE taken == SubSeq(queue, 1, Taken)
    <3>1. Decodable \in Seq(Event) /\ Decodable # <<>> /\ batch = <<>> /\ alive /\ alive' = alive
      BY <1>3, <2>2, ReadType DEF Fetch, TypeInv, TypeOK
    <3>2. Owned(Decodable) = Owned(leftover) + Owned(taken) /\ Owned(taken) \in Nat
      BY <1>3, <2>1, OwnedTaken, OwnedConcat, OwnedType DEF Decodable, TypeInv
    <3>3. open' = open + Owned(taken)
      BY <1>3, <2>2, OwnedTaken DEF Fetch, TypeInv
    <3> QED
      BY <1>3, <2>1, <3>1, <3>2, <3>3
  <2>3. CASE Read
    <3>1. Fetch /\ discarded' = discarded
      BY <2>3 DEF Read
    <3>2. leftover' \in Seq(Event) /\ batch' \in Seq(Event)
      BY <1>3 DEF TypeInv, TypeOK
    <3>3. Owned(leftover') \in Nat /\ Owned(batch') \in Nat
      BY <3>2, OwnedType
    <3>4. Owned(Decodable) = Owned(leftover') + Owned(batch')
      <4>1. CASE leftover' = <<>> /\ batch' = Decodable
        BY <2>1, <3>3, <4>1
      <4>2. CASE /\ leftover' = <<Decodable[Len(Decodable)]>>
                 /\ batch' = SubSeq(Decodable, 1, Len(Decodable) - 1)
        <5>1. Owned(Decodable) = Owned(batch') + Owned(leftover')
          BY <2>2, <3>1, <4>2, OwnedCut
        <5> QED
          BY <3>3, <5>1
      <4> QED
        BY <2>3, <4>1, <4>2 DEF Read, Rest
    <3> QED
      BY <2>2, <3>1, <3>4
  <2>4. CASE ReadFails
    <3>1. Fetch /\ leftover' = <<>> /\ batch' = batch /\ discarded' = discarded \o Decodable
      BY <2>4 DEF ReadFails
    <3>2. Owned(discarded') = Owned(discarded) + Owned(Decodable) /\ Owned(Decodable) \in Nat
      BY <2>1, <2>2, <3>1, OwnedConcat, OwnedType
    <3> QED
      BY <2>1, <2>2, <3>1, <3>2
  <2>5. CASE Handle
    <3>1. batch # <<>> /\ batch' = Tail(batch) /\ open' = open - Closed(Head(batch))
          /\ leftover' = leftover /\ discarded' = discarded /\ alive /\ alive'
      BY <2>5 DEF Handle
    <3>2. Owned(batch) = Closed(Head(batch)) + Owned(batch')
      BY <2>1, <3>1, OwnedHead
    <3>3. Owned(batch') \in Nat /\ Closed(Head(batch)) \in Nat
      <4>1. batch' \in Seq(Event)
        BY <1>3 DEF TypeInv, TypeOK
      <4> QED
        BY <4>1, OwnedType DEF Closed
    <3>4. open = Owned(leftover) + Owned(batch) + Owned(discarded)
      BY <1>3, <3>1
    <3>5. open' = Owned(leftover) + Owned(batch') + Owned(discarded)
      BY SMTT(30), <2>1, <3>1, <3>2, <3>3, <3>4
    <3> QED
      BY <3>1, <3>5
  <2>6. CASE Die
    BY <2>6 DEF Die
  <2>7. CASE UNCHANGED <<buffers, alive>>
    BY <1>3, <2>7 DEF buffers
  <2> HIDE DEF Inv
  <2> QED
    BY <1>3, <2>3, <2>4, <2>5, <2>6, <2>7
    DEF Next, Happen, Move, Renamed, Exit, Write, BrokenPipe, Killed, Ingest, IngestFails,
        CloseReader, vars
<1> HIDE DEF Inv
<1> QED
  BY <1>1, <1>2, <1>3, InitTypeInv, NextTypeInv, PTL DEF Spec
-----------------------------------------------------------------------------
(***************************************************************************)
(* Accounted: the numbers of the accesses in a sequence, and whether they  *)
(* grow along it.  The tap's own accesses and overflow events have none.   *)
(***************************************************************************)
Growing(s) ==
    \A i, j \in DOMAIN s : i < j /\ s[i].id > 0 /\ s[j].id > 0 => s[i].id < s[j].id

Below(A, B) == \A x \in A, y \in B : x < y

Item == Event \cup Report

\* A sequence put behind another.
LEMMA IdsConcat ==
    ASSUME NEW s \in Seq(Item), NEW t \in Seq(Item)
    PROVE  /\ Ids(s \o t) = Ids(s) \cup Ids(t)
           /\ Growing(s \o t) <=> Growing(s) /\ Growing(t) /\ Below(Ids(s), Ids(t))
<1> DEFINE n == Len(s)
           m == Len(t)
           u == s \o t
<1>1. /\ n \in Nat /\ m \in Nat /\ DOMAIN s = 1 .. n /\ DOMAIN t = 1 .. m
      /\ \A i \in 1 .. n : s[i].id \in Nat
      /\ \A i \in 1 .. m : t[i].id \in Nat
  <2>1. \A e \in Item : e.id \in Nat
    BY TapAssumption DEF Item, Event, Report
  <2> QED
    BY <2>1, LenProperties, ElementOfSeq
<1>2. /\ DOMAIN u = 1 .. n + m
      /\ \A i \in 1 .. n + m : u[i] = IF i <= n THEN s[i] ELSE t[i - n]
  <2>1. u \in Seq(Item) /\ Len(u) = n + m
        /\ \A i \in 1 .. n + m : u[i] = IF i <= n THEN s[i] ELSE t[i - n]
    BY ConcatProperties
  <2> QED
    BY <2>1, LenProperties
<1> HIDE DEF n, m, u
<1>3. \A i \in 1 .. n : i \in DOMAIN u /\ u[i] = s[i]
  BY <1>1, <1>2
<1>4. \A i \in 1 .. m : n + i \in DOMAIN u /\ u[n + i] = t[i]
  <2> TAKE i \in 1 .. m
  <2>1. n + i \in 1 .. n + m /\ ~(n + i <= n) /\ (n + i) - n = i
    BY <1>1
  <2> QED
    BY <1>2, <2>1
<1>5. \A i \in DOMAIN u : i \in 1 .. n \/ \E j \in 1 .. m : i = n + j
  <2> TAKE i \in DOMAIN u
  <2>1. CASE i <= n
    BY <1>1, <1>2, <2>1
  <2>2. CASE i > n
    <3>1. i - n \in 1 .. m /\ i = n + (i - n)
      BY <1>1, <1>2, <2>2
    <3> QED
      BY <3>1
  <2> QED
    BY <1>1, <1>2, <2>1, <2>2
<1>6. {u[i].id : i \in DOMAIN u} = {s[i].id : i \in DOMAIN s} \cup {t[i].id : i \in DOMAIN t}
  <2>1. ASSUME NEW i \in DOMAIN u
        PROVE  u[i].id \in {s[j].id : j \in DOMAIN s} \cup {t[j].id : j \in DOMAIN t}
    <3>1. CASE i \in 1 .. n
      BY <1>1, <1>3, <3>1
    <3>2. CASE \E j \in 1 .. m : i = n + j
      BY <1>1, <1>4, <3>2
    <3> QED
      BY <1>5, <3>1, <3>2
  <2>2. ASSUME NEW j \in DOMAIN s PROVE s[j].id \in {u[i].id : i \in DOMAIN u}
    BY <1>1, <1>3
  <2>3. ASSUME NEW j \in DOMAIN t PROVE t[j].id \in {u[i].id : i \in DOMAIN u}
    BY <1>1, <1>4
  <2> QED
    BY <2>1, <2>2, <2>3
<1>7. Ids(u) = Ids(s) \cup Ids(t)
  BY <1>6 DEF Ids
<1>8. ASSUME Growing(u) PROVE Growing(s) /\ Growing(t) /\ Below(Ids(s), Ids(t))
  <2>1. Growing(s)
    BY <1>1, <1>3, <1>8 DEF Growing
  <2>2. Growing(t)
    <3> SUFFICES ASSUME NEW i \in 1 .. m, NEW j \in 1 .. m, i < j, t[i].id > 0, t[j].id > 0
                 PROVE  t[i].id < t[j].id
      BY <1>1 DEF Growing
    <3>1. n + i < n + j
      BY <1>1
    <3> QED
      BY <1>4, <1>8, <3>1 DEF Growing
  <2>3. ASSUME NEW x \in Ids(s), NEW y \in Ids(t) PROVE x < y
    <3>1. PICK i \in 1 .. n : x = s[i].id
      BY <1>1 DEF Ids
    <3>2. PICK j \in 1 .. m : y = t[j].id
      BY <1>1 DEF Ids
    <3>3. x # 0 /\ y # 0
      BY DEF Ids
    <3>4. i < n + j /\ x > 0 /\ y > 0
      BY <1>1, <3>1, <3>2, <3>3
    <3> QED
      BY <1>3, <1>4, <1>8, <3>1, <3>2, <3>4 DEF Growing
  <2> QED
    BY <2>1, <2>2, <2>3 DEF Below
<1>9. ASSUME Growing(s), Growing(t), Below(Ids(s), Ids(t)) PROVE Growing(u)
  <2> SUFFICES ASSUME NEW i \in DOMAIN u, NEW j \in DOMAIN u, i < j, u[i].id > 0, u[j].id > 0
               PROVE  u[i].id < u[j].id
    BY DEF Growing
  <2>1. CASE j \in 1 .. n
    <3>1. i \in 1 .. n
      BY <1>1, <1>2, <2>1
    <3> QED
      BY <1>1, <1>3, <1>9, <2>1, <3>1 DEF Growing
  <2>2. ASSUME NEW k \in 1 .. m, j = n + k PROVE u[i].id < u[j].id
    <3>1. CASE i \in 1 .. n
      <4>1. u[i] = s[i] /\ i \in DOMAIN s /\ u[i].id # 0
        BY <1>1, <1>3, <3>1
      <4>2. u[j] = t[k] /\ k \in DOMAIN t /\ u[j].id # 0
        BY <1>1, <1>4, <2>2
      <4>3. u[i].id \in Ids(s)
        BY <4>1 DEF Ids
      <4>4. u[j].id \in Ids(t)
        BY <4>2 DEF Ids
      <4> QED
        BY <1>9, <4>3, <4>4 DEF Below
    <3>2. ASSUME NEW h \in 1 .. m, i = n + h PROVE u[i].id < u[j].id
      <4>1. h < k
        BY <1>1, <2>2, <3>2
      <4> QED
        BY <1>1, <1>4, <1>9, <2>2, <3>2, <4>1 DEF Growing
    <3> QED
      BY <1>5, <3>1, <3>2
  <2> QED
    BY <1>5, <2>1, <2>2
<1> QED
  BY <1>7, <1>8, <1>9 DEF u

\* No item and one.
LEMMA IdsSmall ==
    /\ Ids(<<>>) = {} /\ Growing(<<>>)
    /\ \A e \in Item : Ids(<<e>>) = {e.id} \ {0} /\ Growing(<<e>>)
<1>1. Ids(<<>>) = {} /\ Growing(<<>>)
  BY DEF Ids, Growing
<1>2. ASSUME NEW e \in Item PROVE Ids(<<e>>) = {e.id} \ {0} /\ Growing(<<e>>)
  <2> DEFINE s == <<e>>
  <2>1. DOMAIN s = {1} /\ s[1] = e
    OBVIOUS
  <2> HIDE DEF s
  <2>2. Ids(s) = {e.id} \ {0}
    BY <2>1 DEF Ids
  <2>3. Growing(s)
    BY <2>1 DEF Growing
  <2> QED
    BY <2>2, <2>3 DEF s
<1> QED
  BY <1>1, <1>2

\* One item more.
LEMMA IdsAppend ==
    ASSUME NEW s \in Seq(Item), NEW e \in Item
    PROVE  /\ Ids(Append(s, e)) = Ids(s) \cup ({e.id} \ {0})
           /\ Growing(Append(s, e)) <=> Growing(s) /\ Below(Ids(s), {e.id} \ {0})
<1> DEFINE t == <<e>>
<1>1. Append(s, e) = s \o t /\ t \in Seq(Item)
  BY AppendIsConcat
<1>2. Ids(t) = {e.id} \ {0} /\ Growing(t)
  BY IdsSmall
<1> HIDE DEF t
<1>3. /\ Ids(s \o t) = Ids(s) \cup Ids(t)
      /\ Growing(s \o t) <=> Growing(s) /\ Growing(t) /\ Below(Ids(s), Ids(t))
  BY <1>1, IdsConcat
<1> QED
  BY <1>1, <1>2, <1>3

\* What is below sets joined, and below what.
LEMMA BelowCup ==
    \A A, B, C :
        /\ Below(A \cup B, C) <=> Below(A, C) /\ Below(B, C)
        /\ Below(A, B \cup C) <=> Below(A, B) /\ Below(A, C)
        /\ Below({}, A) /\ Below(A, {})
        /\ B \subseteq C /\ Below(A, C) => Below(A, B)
        /\ B \subseteq C /\ Below(C, A) => Below(B, A)
BY DEF Below

(***************************************************************************)
(* Six sequences of which each grows and lies below those behind it.       *)
(***************************************************************************)
InOrder(a, b, c, d, e, f) ==
    /\ Growing(a) /\ Growing(b) /\ Growing(c) /\ Growing(d) /\ Growing(e) /\ Growing(f)
    /\ Below(Ids(a), Ids(b)) /\ Below(Ids(a), Ids(c)) /\ Below(Ids(a), Ids(d))
    /\ Below(Ids(a), Ids(e)) /\ Below(Ids(a), Ids(f))
    /\ Below(Ids(b), Ids(c)) /\ Below(Ids(b), Ids(d)) /\ Below(Ids(b), Ids(e))
    /\ Below(Ids(b), Ids(f))
    /\ Below(Ids(c), Ids(d)) /\ Below(Ids(c), Ids(e)) /\ Below(Ids(c), Ids(f))
    /\ Below(Ids(d), Ids(e)) /\ Below(Ids(d), Ids(f))
    /\ Below(Ids(e), Ids(f))

AllIds(a, b, c, d, e, f) ==
    Ids(a) \cup Ids(b) \cup Ids(c) \cup Ids(d) \cup Ids(e) \cup Ids(f)

\* The line is taken apart into its six stations.
LEMMA SixParts ==
    ASSUME NEW a \in Seq(Item), NEW b \in Seq(Item), NEW c \in Seq(Item),
           NEW d \in Seq(Item), NEW e \in Seq(Item), NEW f \in Seq(Item)
    PROVE  /\ Ids(a \o b \o c \o d \o e \o f) = AllIds(a, b, c, d, e, f)
           /\ Growing(a \o b \o c \o d \o e \o f) <=> InOrder(a, b, c, d, e, f)
<1> DEFINE s == a \o b
           t == s \o c
           u == t \o d
           v == u \o e
           w == v \o f
<1>1. s \in Seq(Item)
  BY ConcatProperties
<1>2. t \in Seq(Item)
  <2> HIDE DEF s
  <2> QED
    BY <1>1, ConcatProperties
<1>3. u \in Seq(Item)
  <2> HIDE DEF t
  <2> QED
    BY <1>2, ConcatProperties
<1>4. v \in Seq(Item)
  <2> HIDE DEF u
  <2> QED
    BY <1>3, ConcatProperties
<1>5. /\ Ids(s) = Ids(a) \cup Ids(b)
      /\ Growing(s) <=> Growing(a) /\ Growing(b) /\ Below(Ids(a), Ids(b))
  BY IdsConcat
<1>6. /\ Ids(t) = Ids(s) \cup Ids(c)
      /\ Growing(t) <=> Growing(s) /\ Growing(c) /\ Below(Ids(s), Ids(c))
  <2> HIDE DEF s
  <2> QED
    BY <1>1, IdsConcat
<1>7. /\ Ids(u) = Ids(t) \cup Ids(d)
      /\ Growing(u) <=> Growing(t) /\ Growing(d) /\ Below(Ids(t), Ids(d))
  <2> HIDE DEF t
  <2> QED
    BY <1>2, IdsConcat
<1>8. /\ Ids(v) = Ids(u) \cup Ids(e)
      /\ Growing(v) <=> Growing(u) /\ Growing(e) /\ Below(Ids(u), Ids(e))
  <2> HIDE DEF u
  <2> QED
    BY <1>3, IdsConcat
<1>9. /\ Ids(w) = Ids(v) \cup Ids(f)
      /\ Growing(w) <=> Growing(v) /\ Growing(f) /\ Below(Ids(v), Ids(f))
  <2> HIDE DEF v
  <2> QED
    BY <1>4, IdsConcat
<1> HIDE DEF s, t, u, v, w
<1>10. Ids(w) = AllIds(a, b, c, d, e, f)
  BY <1>5, <1>6, <1>7, <1>8, <1>9 DEF AllIds
<1>11. /\ Below(Ids(s), Ids(c)) <=> Below(Ids(a), Ids(c)) /\ Below(Ids(b), Ids(c))
       /\ Below(Ids(t), Ids(d)) <=>
              Below(Ids(a), Ids(d)) /\ Below(Ids(b), Ids(d)) /\ Below(Ids(c), Ids(d))
       /\ Below(Ids(u), Ids(e)) <=>
              /\ Below(Ids(a), Ids(e)) /\ Below(Ids(b), Ids(e)) /\ Below(Ids(c), Ids(e))
              /\ Below(Ids(d), Ids(e))
       /\ Below(Ids(v), Ids(f)) <=>
              /\ Below(Ids(a), Ids(f)) /\ Below(Ids(b), Ids(f)) /\ Below(Ids(c), Ids(f))
              /\ Below(Ids(d), Ids(f)) /\ Below(Ids(e), Ids(f))
  <2>1. Below(Ids(s), Ids(c)) <=> Below(Ids(a), Ids(c)) /\ Below(Ids(b), Ids(c))
    BY <1>5, BelowCup
  <2>2. Below(Ids(t), Ids(d)) <=> Below(Ids(s), Ids(d)) /\ Below(Ids(c), Ids(d))
    BY <1>6, BelowCup
  <2>3. Below(Ids(s), Ids(d)) <=> Below(Ids(a), Ids(d)) /\ Below(Ids(b), Ids(d))
    BY <1>5, BelowCup
  <2>4. Below(Ids(u), Ids(e)) <=> Below(Ids(t), Ids(e)) /\ Below(Ids(d), Ids(e))
    BY <1>7, BelowCup
  <2>5. Below(Ids(t), Ids(e)) <=> Below(Ids(s), Ids(e)) /\ Below(Ids(c), Ids(e))
    BY <1>6, BelowCup
  <2>6. Below(Ids(s), Ids(e)) <=> Below(Ids(a), Ids(e)) /\ Below(Ids(b), Ids(e))
    BY <1>5, BelowCup
  <2>7. Below(Ids(v), Ids(f)) <=> Below(Ids(u), Ids(f)) /\ Below(Ids(e), Ids(f))
    BY <1>8, BelowCup
  <2>8. Below(Ids(u), Ids(f)) <=> Below(Ids(t), Ids(f)) /\ Below(Ids(d), Ids(f))
    BY <1>7, BelowCup
  <2>9. Below(Ids(t), Ids(f)) <=> Below(Ids(s), Ids(f)) /\ Below(Ids(c), Ids(f))
    BY <1>6, BelowCup
  <2>10. Below(Ids(s), Ids(f)) <=> Below(Ids(a), Ids(f)) /\ Below(Ids(b), Ids(f))
    BY <1>5, BelowCup
  <2> QED
    BY <2>1, <2>2, <2>3, <2>4, <2>5, <2>6, <2>7, <2>8, <2>9, <2>10
<1>12. Growing(w) <=> InOrder(a, b, c, d, e, f)
  BY <1>5, <1>6, <1>7, <1>8, <1>9, <1>11 DEF InOrder
<1> QED
  BY <1>10, <1>12 DEF s, t, u, v, w

(***************************************************************************)
(* The accesses are on their way in their order, under numbers given out;  *)
(* those filtered, discarded or lost are none of them, and each is one of  *)
(* the three; while tap and server run there are no others.                *)
(***************************************************************************)
Apart ==
    /\ InLine \cap (Dropped \cup Discarded \cup lost) = {}
    /\ Dropped \cap Discarded = {} /\ lost \cap (Dropped \cup Discarded) = {}

Accesses == InLine \cup Dropped \cup Discarded \cup lost

AccountInv ==
    /\ InOrder(Arrived, pipe, hand, batch, leftover, queue)
    /\ Accesses \subseteq 0 .. count
    /\ Apart
    /\ alive /\ reader => 1 .. count = Accesses

\* The stations hold items, and the line holds what they hold.
Stations ==
    /\ Arrived \in Seq(Item) /\ pipe \in Seq(Item) /\ hand \in Seq(Item)
    /\ batch \in Seq(Item) /\ leftover \in Seq(Item) /\ queue \in Seq(Item)
    /\ InLine = AllIds(Arrived, pipe, hand, batch, leftover, queue)
    /\ Growing(Line) <=> InOrder(Arrived, pipe, hand, batch, leftover, queue)

\* That follows from the types.
LEMMA LineParts == TypeOK => Stations
<1> SUFFICES ASSUME TypeOK PROVE Stations
  OBVIOUS
<1>1. Event \subseteq Item /\ Report \subseteq Item
  BY DEF Item
<1>2. /\ Arrived \in Seq(Item) /\ pipe \in Seq(Item) /\ hand \in Seq(Item)
      /\ batch \in Seq(Item) /\ leftover \in Seq(Item) /\ queue \in Seq(Item)
  <2>1. Arrived \in Seq(Report)
    BY ConcatProperties DEF Arrived, TypeOK
  <2> QED
    BY <1>1, <2>1, SeqMonotonic DEF TypeOK
<1>3. InLine = Ids(Line)
  BY DEF InLine
<1> QED
  <2>1. /\ Ids(Line) = AllIds(Arrived, pipe, hand, batch, leftover, queue)
        /\ Growing(Line) <=> InOrder(Arrived, pipe, hand, batch, leftover, queue)
    BY <1>2, SixParts DEF Line
  <2> QED
    BY <1>2, <1>3, <2>1 DEF Stations

\* And after the step.
LEMMA NextLineParts == TypeOK' => Stations'
BY LineParts, PTL

(***************************************************************************)
(* What the kernel's queue holds after a further event: no new access if   *)
(* the event is the tap's own or the queue is full.                        *)
(***************************************************************************)
LEMMA QueuedIds ==
    ASSUME TypeInv, NEW e \in Event, queue' = Queued(e)
    PROVE  /\ e.id = 0 \/ Len(queue) >= QueueCap =>
                  Ids(queue') = Ids(queue) /\ (Growing(queue) => Growing(queue'))
           /\ Len(queue) < QueueCap /\ ~Joins(e) =>
                  /\ Ids(queue') = Ids(queue) \cup ({e.id} \ {0})
                  /\ Growing(queue) /\ Below(Ids(queue), {e.id} \ {0}) => Growing(queue')
<1>1. queue \in Seq(Item) /\ Len(queue) \in Nat /\ QueueCap \in Nat
  <2>1. TypeOK /\ Stations
    BY LineParts DEF TypeInv
  <2>2. queue \in Seq(Item)
    BY <2>1 DEF Stations
  <2> QED
    BY <2>2, LenProperties, TapAssumption
<1>2. e \in Item /\ Overflow \in Item /\ Overflow.id = 0
  BY TapAssumption DEF Overflow, Item, Event, Pid
<1>3. ASSUME NEW x \in {e, Overflow}
      PROVE  /\ Ids(Append(queue, x)) = Ids(queue) \cup ({x.id} \ {0})
             /\ Growing(Append(queue, x)) <=> Growing(queue) /\ Below(Ids(queue), {x.id} \ {0})
  <2>1. x \in Item
    BY <1>2, <1>3
  <2>2. queue \in Seq(Item)
    BY <1>1
  <2> QED
    BY ZenonT(30), <2>1, <2>2, IdsAppend
<1>4. ASSUME NEW x \in {e, Overflow}, x.id = 0
      PROVE  /\ Ids(Append(queue, x)) = Ids(queue)
             /\ Growing(Append(queue, x)) <=> Growing(queue)
  <2>1. {x.id} \ {0} = {}
    BY <1>4
  <2>2. /\ Ids(Append(queue, x)) = Ids(queue) \cup {}
        /\ Growing(Append(queue, x)) <=> Growing(queue) /\ Below(Ids(queue), {})
    BY <1>3, <2>1
  <2>3. Below(Ids(queue), {})
    BY BelowCup
  <2> QED
    BY <2>2, <2>3
<1>5. CASE queue' = queue
  <2>1. Len(queue) < QueueCap => Joins(e)
    <3>1. Len(Append(queue, e)) = Len(queue) + 1
      BY <1>1, <1>2, AppendProperties
    <3> QED
      BY <1>1, <1>5, <3>1 DEF Queued
  <2> QED
    BY <1>1, <1>5, <2>1
<1>6. CASE queue' = Append(queue, Overflow) /\ Len(queue) >= QueueCap
  BY <1>1, <1>2, <1>4, <1>6
<1>7. CASE queue' = Append(queue, e) /\ Len(queue) < QueueCap
  BY <1>1, <1>3, <1>4, <1>7
<1> QED
  BY <1>1, <1>5, <1>6, <1>7 DEF Queued

(***************************************************************************)
(* What a read takes from the queue is behind what was left over.          *)
(***************************************************************************)
LEMMA FetchIds ==
    ASSUME TypeInv, TypeInv', Fetch
    PROVE  /\ Decodable \in Seq(Item) /\ Decodable # <<>>
           /\ Ids(Decodable) \cup Ids(queue') = Ids(leftover) \cup Ids(queue)
           /\ Growing(leftover) /\ Growing(queue) /\ Below(Ids(leftover), Ids(queue)) =>
                  /\ Growing(Decodable) /\ Growing(queue')
                  /\ Below(Ids(Decodable), Ids(queue'))
<1> DEFINE taken == SubSeq(queue, 1, Taken)
           d == Decodable
<1>1. leftover \in Seq(Item) /\ queue \in Seq(Item) /\ queue' \in Seq(Item)
  BY LineParts, NextLineParts DEF TypeInv, Stations
<1>2. Taken \in 0 .. Len(queue) /\ Len(queue) \in Nat
  <2>1. Len(queue) \in Nat /\ BatchCap \in Nat
    BY <1>1, LenProperties, TapAssumption
  <2> QED
    BY <2>1 DEF Taken
<1>3. taken \in Seq(Item) /\ queue = taken \o queue'
  <2>1. taken \o SubSeq(queue, Taken + 1, Len(queue)) = SubSeq(queue, 1, Len(queue))
    <3>1. 1 \in 1 .. Len(queue) + 1 /\ Taken \in (1 - 1) .. Len(queue)
          /\ Len(queue) \in Taken .. Len(queue)
      BY <1>2
    <3> QED
      BY <1>1, <3>1, ConcatAdjacentSubSeq
  <2>2. SubSeq(queue, 1, Len(queue)) = queue
    BY <1>1, SubSeqFull
  <2>3. \A i \in 1 .. Taken : queue[i] \in Item
    BY <1>1, <1>2, ElementOfSeq
  <2>4. taken \in Seq(Item)
    BY <1>2, <2>3, SubSeqProperties
  <2> QED
    BY <2>1, <2>2, <2>4 DEF Fetch
<1>4. d = leftover \o taken /\ d \in Seq(Item) /\ d # <<>>
  BY <1>1, <1>3, ConcatProperties DEF Decodable, Fetch
<1> HIDE DEF taken, d
<1>5. /\ Ids(queue) = Ids(taken) \cup Ids(queue')
      /\ Growing(queue) <=> Growing(taken) /\ Growing(queue') /\ Below(Ids(taken), Ids(queue'))
  BY <1>1, <1>3, IdsConcat
<1>6. /\ Ids(d) = Ids(leftover) \cup Ids(taken)
      /\ Growing(d) <=> Growing(leftover) /\ Growing(taken) /\ Below(Ids(leftover), Ids(taken))
  BY <1>1, <1>3, <1>4, IdsConcat
<1>7. ASSUME Growing(leftover), Growing(queue), Below(Ids(leftover), Ids(queue))
      PROVE  Growing(d) /\ Growing(queue') /\ Below(Ids(d), Ids(queue'))
  <2>1. Below(Ids(leftover), Ids(taken)) /\ Below(Ids(leftover), Ids(queue'))
    BY <1>5, <1>7, BelowCup
  <2>2. Below(Ids(d), Ids(queue'))
    BY <1>5, <1>6, <1>7, <2>1, BelowCup
  <2> QED
    BY <1>5, <1>6, <1>7, <2>1, <2>2
<1> QED
  BY <1>4, <1>5, <1>6, <1>7 DEF d

(***************************************************************************)
(* A read that parses: neither a cut event nor the bytes left over are     *)
(* read twice or skipped.                                                  *)
(***************************************************************************)
LEMMA ReadIds ==
    ASSUME TypeInv, TypeInv', Read
    PROVE  /\ Ids(batch') \cup Ids(leftover') \cup Ids(queue') = Ids(leftover) \cup Ids(queue)
           /\ Growing(leftover) /\ Growing(queue) /\ Below(Ids(leftover), Ids(queue)) =>
                  /\ Growing(batch') /\ Growing(leftover') /\ Growing(queue')
                  /\ Below(Ids(batch'), Ids(leftover')) /\ Below(Ids(batch'), Ids(queue'))
                  /\ Below(Ids(leftover'), Ids(queue'))
<1> DEFINE d == Decodable
<1>1. batch' \in Seq(Item) /\ leftover' \in Seq(Item)
  BY LineParts, NextLineParts DEF TypeInv, Stations
<1>2. /\ d \in Seq(Item) /\ d # <<>>
      /\ Ids(d) \cup Ids(queue') = Ids(leftover) \cup Ids(queue)
      /\ Growing(leftover) /\ Growing(queue) /\ Below(Ids(leftover), Ids(queue)) =>
             Growing(d) /\ Growing(queue') /\ Below(Ids(d), Ids(queue'))
  BY FetchIds DEF Read
<1>3. d = batch' \o leftover'
  <2>1. CASE leftover' = <<>> /\ batch' = d
    BY <1>2, <2>1, ConcatEmptySeq
  <2>2. CASE leftover' = <<d[Len(d)]>> /\ batch' = SubSeq(d, 1, Len(d) - 1)
    <3> HIDE DEF d
    <3> QED
      BY <1>2, <2>2, OthersAndLast
  <2> QED
    BY <2>1, <2>2 DEF Read, Rest
<1> HIDE DEF d
<1>4. /\ Ids(d) = Ids(batch') \cup Ids(leftover')
      /\ Growing(d) <=> Growing(batch') /\ Growing(leftover') /\ Below(Ids(batch'), Ids(leftover'))
  BY <1>1, <1>3, IdsConcat
<1>5. ASSUME Below(Ids(d), Ids(queue'))
      PROVE  Below(Ids(batch'), Ids(queue')) /\ Below(Ids(leftover'), Ids(queue'))
  BY <1>4, <1>5, BelowCup
<1> QED
  BY <1>2, <1>4, <1>5

(***************************************************************************)
(* The next event of a batch: its access leaves the batch, or is the same  *)
(* in its report; behind it are only later ones.                           *)
(***************************************************************************)
LEMMA HandleIds ==
    ASSUME TypeInv, TypeInv', Handle
    PROVE  LET own == {Head(batch).id} \ {0}
           IN  /\ Ids(hand) = {} /\ Head(batch) \in Event
               /\ Ids(batch) = own \cup Ids(batch')
               /\ Growing(batch) => Growing(batch') /\ Below(own, Ids(batch'))
               /\ Ids(hand') = IF Kept(Head(batch)) THEN own ELSE {}
               /\ Growing(hand')
               /\ Ids(queue') = Ids(queue)
               /\ Growing(queue) => Growing(queue')
<1> DEFINE e == Head(batch)
           s == <<e>>
           own == {e.id} \ {0}
<1>1. /\ batch \in Seq(Event) /\ batch # <<>> /\ hand = <<>> /\ batch' = Tail(batch)
      /\ queue' = queue \/ queue' = Queued(Access(0, Tap, DumpFile))
      /\ hand' = IF Kept(e) THEN <<ReportOf(e)>> ELSE <<>>
  BY DEF Handle, TypeInv, TypeOK
<1>2. e \in Event /\ s \in Seq(Event) /\ Tail(batch) \in Seq(Event) /\ s \o Tail(batch) = batch
  BY <1>1, FirstAndRest
<1>3. e \in Item /\ s \in Seq(Item) /\ Tail(batch) \in Seq(Item)
  <2>1. Event \subseteq Item
    BY DEF Item
  <2> QED
    BY <1>2, <2>1, SeqMonotonic
<1>4. Ids(s) = own
  BY <1>3, IdsSmall
<1>5. ASSUME Kept(e) PROVE ReportOf(e) \in Item /\ ReportOf(e).id = e.id
  <2>1. ReportOf(e) \in Report
    BY <1>2, <1>5, ReportType DEF TypeInv
  <2> QED
    BY <2>1 DEF Item, ReportOf
<1>6. Ids(hand) = {}
  BY <1>1, IdsSmall
<1>7. Ids(hand') = (IF Kept(e) THEN own ELSE {}) /\ Growing(hand')
  <2>1. CASE Kept(e)
    BY <1>1, <1>5, <2>1, IdsSmall
  <2>2. CASE ~Kept(e)
    BY <1>1, <2>2, IdsSmall
  <2> QED
    BY <2>1, <2>2
<1>8. Ids(queue') = Ids(queue) /\ (Growing(queue) => Growing(queue'))
  <2>1. Access(0, Tap, DumpFile) \in Event /\ Access(0, Tap, DumpFile).id = 0
    <3>1. 0 \in 0 .. MaxEvents /\ Tap \in Pid /\ DumpFile \in File
      BY TapAssumption DEF Pid
    <3>2. Access(0, Tap, DumpFile) \in Event
      BY <3>1, AccessType DEF TypeInv
    <3> QED
      BY <3>2 DEF Access
  <2> QED
    BY <1>1, <2>1, QueuedIds
<1> HIDE DEF s
<1>9. /\ Ids(batch) = Ids(s) \cup Ids(batch')
      /\ Growing(batch) <=> Growing(s) /\ Growing(batch') /\ Below(Ids(s), Ids(batch'))
  <2> DEFINE t == Tail(batch)
  <2>1. /\ Ids(s \o t) = Ids(s) \cup Ids(t)
        /\ Growing(s \o t) <=> Growing(s) /\ Growing(t) /\ Below(Ids(s), Ids(t))
    BY <1>3, IdsConcat
  <2>2. s \o t = batch /\ t = batch'
    BY <1>1, <1>2
  <2> HIDE DEF t
  <2> QED
    BY <2>1, <2>2
<1> HIDE DEF e
<1>10. /\ Ids(batch) = own \cup Ids(batch')
       /\ Growing(batch) => Growing(batch') /\ Below(own, Ids(batch'))
  BY <1>4, <1>9
<1> QED
  BY <1>2, <1>6, <1>7, <1>8, <1>10 DEF e

(***************************************************************************)
(* Ingest takes the first report from the pipe, whether it can use it or   *)
(* not.                                                                    *)
(***************************************************************************)
LEMMA Arrives ==
    ASSUME TypeOK, Ingest \/ IngestFails
    PROVE  /\ pipe # <<>> /\ pipe' = Tail(pipe)
           /\ Arrived' = Append(Arrived, Head(pipe))
<1> DEFINE r == Head(pipe)
<1>1. pipe # <<>> /\ pipe \in Seq(Report) /\ pipe' = Tail(pipe) /\ refused = <<>>
      /\ log \in Seq(Report)
  BY DEF Ingest, IngestFails, Readable, TypeOK
<1>2. r \in Report /\ Append(log, r) \in Seq(Report)
  BY <1>1, HeadTailProperties, AppendProperties
<1>3. Arrived = log
  BY <1>1, ConcatEmptySeq DEF Arrived
<1>4. \/ log' = Append(log, r) /\ refused' = <<>>
      \/ log' = log /\ refused' = <<r>>
  BY <1>1 DEF Ingest, IngestFails
<1> HIDE DEF r
<1>5. Arrived' = Append(log, r)
  <2>1. Append(log, r) \o <<>> = Append(log, r)
    BY <1>2, ConcatEmptySeq
  <2>2. log \o <<r>> = Append(log, r)
    BY <1>1, <1>2, AppendIsConcat
  <2> QED
    BY <1>4, <2>1, <2>2 DEF Arrived
<1> QED
  BY <1>1, <1>3, <1>5 DEF r

(***************************************************************************)
(* A report written to the pipe, and one read from it.                     *)
(***************************************************************************)
LEMMA PipeIds ==
    ASSUME TypeOK, TypeOK'
    PROVE  /\ Write => /\ Ids(pipe') = Ids(pipe) \cup Ids(hand) /\ Ids(hand') = {}
                       /\ Growing(hand')
                       /\ Growing(pipe) /\ Growing(hand) /\ Below(Ids(pipe), Ids(hand)) =>
                              Growing(pipe')
           /\ Ingest \/ IngestFails =>
                  \E A : /\ Ids(pipe) = A \cup Ids(pipe') /\ Ids(Arrived') = Ids(Arrived) \cup A
                         /\ Growing(pipe) => Growing(pipe') /\ Below(A, Ids(pipe'))
                         /\ Growing(Arrived) /\ Below(Ids(Arrived), A) => Growing(Arrived')
<1>1. pipe \in Seq(Item) /\ hand \in Seq(Item) /\ Arrived \in Seq(Item)
  BY LineParts DEF Stations
<1>2. ASSUME Write
      PROVE  /\ Ids(pipe') = Ids(pipe) \cup Ids(hand) /\ Ids(hand') = {}
             /\ Growing(hand')
             /\ Growing(pipe) /\ Growing(hand) /\ Below(Ids(pipe), Ids(hand)) => Growing(pipe')
  <2>1. pipe' = pipe \o hand /\ hand' = <<>>
    BY <1>2 DEF Write
  <2> QED
    BY <1>1, <2>1, IdsConcat, IdsSmall
<1>3. ASSUME Ingest \/ IngestFails
      PROVE  \E A : /\ Ids(pipe) = A \cup Ids(pipe') /\ Ids(Arrived') = Ids(Arrived) \cup A
                    /\ Growing(pipe) => Growing(pipe') /\ Below(A, Ids(pipe'))
                    /\ Growing(Arrived) /\ Below(Ids(Arrived), A) => Growing(Arrived')
  <2> DEFINE r == Head(pipe)
             s == <<r>>
  <2>1. pipe # <<>> /\ Arrived' = Append(Arrived, r) /\ pipe' = Tail(pipe)
    BY <1>3, Arrives
  <2>2. s \o Tail(pipe) = pipe /\ s \in Seq(Item) /\ Tail(pipe) \in Seq(Item) /\ r \in Item
    BY <1>1, <2>1, FirstAndRest
  <2>3. Ids(s) = {r.id} \ {0}
    BY <2>2, IdsSmall
  <2> HIDE DEF s
  <2>4. /\ Ids(pipe) = Ids(s) \cup Ids(pipe')
        /\ Growing(pipe) <=> Growing(s) /\ Growing(pipe') /\ Below(Ids(s), Ids(pipe'))
    <3> DEFINE t == Tail(pipe)
    <3>1. /\ Ids(s \o t) = Ids(s) \cup Ids(t)
          /\ Growing(s \o t) <=> Growing(s) /\ Growing(t) /\ Below(Ids(s), Ids(t))
      BY <2>2, IdsConcat
    <3>2. s \o t = pipe /\ t = pipe'
      BY <2>1, <2>2
    <3> HIDE DEF t
    <3> QED
      BY <3>1, <3>2
  <2> HIDE DEF r
  <2>5. /\ Ids(Arrived') = Ids(Arrived) \cup Ids(s)
        /\ Growing(Arrived') <=> Growing(Arrived) /\ Below(Ids(Arrived), Ids(s))
    <3>1. /\ Ids(Append(Arrived, r)) = Ids(Arrived) \cup ({r.id} \ {0})
          /\ Growing(Append(Arrived, r)) <=>
                 Growing(Arrived) /\ Below(Ids(Arrived), {r.id} \ {0})
      BY <1>1, <2>2, IdsAppend
    <3> QED
      BY <2>1, <2>3, <3>1
  <2> QED
    BY <2>4, <2>5
<1> QED
  BY <1>2, <1>3

\* No access has happened yet.
LEMMA InitAccount == Init => AccountInv
<1> SUFFICES ASSUME Init PROVE AccountInv
  OBVIOUS
<1>1. TypeOK
  BY InitTypeInv DEF TypeInv
<1>2. /\ Arrived = <<>> /\ pipe = <<>> /\ hand = <<>> /\ batch = <<>> /\ leftover = <<>>
      /\ queue = <<>> /\ count = 0 /\ lost = {} /\ filtered = {} /\ discarded = <<>>
  BY DEF Init, Arrived
<1>3. InOrder(Arrived, pipe, hand, batch, leftover, queue)
  BY <1>2, IdsSmall, BelowCup DEF InOrder
<1>4. InLine = {}
  BY <1>1, <1>2, LineParts, IdsSmall DEF Stations, AllIds
<1>5. Dropped = {} /\ Discarded = {}
  BY <1>2, IdsSmall DEF Dropped, Discarded
<1> QED
  BY <1>2, <1>3, <1>4, <1>5 DEF AccountInv, Accesses, Apart

(***************************************************************************)
(* Each step keeps the account.  An access that happens gets a number      *)
(* above all others; what is read, handled, written and ingested keeps its *)
(* place; what is filtered or discarded leaves the line for good.          *)
(***************************************************************************)
LEMMA NextAccount == AccountInv /\ TypeInv /\ [Next]_vars => AccountInv'
<1> SUFFICES ASSUME AccountInv, TypeInv, [Next]_vars PROVE AccountInv'
  OBVIOUS
<1> USE DEF Accesses, Apart
<1>1. TypeInv'
  BY NextTypeInv
<1>2. /\ InLine = AllIds(Arrived, pipe, hand, batch, leftover, queue)
      /\ InLine' = AllIds(Arrived', pipe', hand', batch', leftover', queue')
      /\ 0 \notin InLine /\ 0 \notin InLine'
  <2>1. 0 \notin InLine /\ 0 \notin InLine'
    BY DEF InLine, Ids
  <2> QED
    BY <1>1, <2>1, LineParts, NextLineParts DEF TypeInv, Stations
<1>3. InOrder(Arrived, pipe, hand, batch, leftover, queue)
  BY DEF AccountInv
<1>4. count \in Nat
  BY DEF TypeInv, TypeOK
<1>5. ASSUME InOrder(Arrived', pipe', hand', batch', leftover', queue'), InLine' = InLine,
             UNCHANGED <<filtered, discarded, lost, count, alive, reader>>
      PROVE  AccountInv'
  <2>1. Dropped' = Dropped /\ Discarded' = Discarded
    BY <1>5 DEF Dropped, Discarded
  <2> QED
    BY <1>5, <2>1 DEF AccountInv
<1>6. ASSUME NEW pid \in Pid, NEW f \in File, Happen(pid, f) PROVE AccountInv'
  <2> DEFINE e == Access(count + 1, pid, f)
             n == count + 1
  <2>1. /\ n \in 0 .. MaxEvents /\ queue' = Queued(e) /\ count' = n
        /\ UNCHANGED <<filtered, discarded>>
        /\ UNCHANGED <<Arrived, pipe, hand, batch, leftover, alive, reader>>
        /\ Len(queue) >= QueueCap \/ ~Joins(e)
        /\ lost' = IF Len(queue) >= QueueCap THEN lost \cup {e.id} ELSE lost
    BY <1>4, <1>6, TapAssumption DEF Happen, Arrived, buffers, hub
  <2>2. e \in Event
    BY <2>1, AccessType DEF TypeInv
  <2>3. e.id = n /\ {e.id} \ {0} = {n}
    BY <1>4 DEF Access
  <2>4. Len(queue) \in Nat /\ QueueCap \in Nat
    BY LenProperties, TapAssumption DEF TypeInv, TypeOK
  <2>5. Dropped' = Dropped /\ Discarded' = Discarded
    BY <2>1 DEF Dropped, Discarded
  <2>6. n \notin Accesses
    BY <1>4 DEF AccountInv
  <2> HIDE DEF e
  <2>7. CASE Len(queue) >= QueueCap
    <3>1. Ids(queue') = Ids(queue) /\ Growing(queue')
      BY <1>3, <2>1, <2>2, <2>7, QueuedIds DEF InOrder
    <3>2. InOrder(Arrived', pipe', hand', batch', leftover', queue')
      BY <1>3, <2>1, <3>1 DEF InOrder
    <3>3. InLine' = InLine
      BY <1>2, <2>1, <3>1 DEF AllIds
    <3>4. lost' = lost \cup {n}
      BY <2>1, <2>3, <2>7
    <3> QED
      BY <1>4, <2>1, <2>5, <2>6, <3>2, <3>3, <3>4 DEF AccountInv
  <2>8. CASE Len(queue) < QueueCap
    <3>1. ASSUME NEW X \in {Ids(Arrived), Ids(pipe), Ids(hand), Ids(batch), Ids(leftover),
                            Ids(queue)}
          PROVE  Below(X, {n})
      <4>1. X \subseteq InLine
        BY <1>2 DEF AllIds
      <4> QED
        BY <1>4, <4>1 DEF AccountInv, Below
    <3>2. Ids(queue') = Ids(queue) \cup {n} /\ Growing(queue')
      BY <1>3, <2>1, <2>2, <2>3, <2>4, <2>8, <3>1, QueuedIds DEF InOrder
    <3>3. ASSUME NEW X \in {Ids(Arrived), Ids(pipe), Ids(hand), Ids(batch), Ids(leftover)},
                 Below(X, Ids(queue))
          PROVE  Below(X, Ids(queue'))
      <4>1. Below(X, {n})
        BY <3>1
      <4> QED
        BY <3>2, <3>3, <4>1 DEF Below
    <3>4. InOrder(Arrived', pipe', hand', batch', leftover', queue')
      BY <1>3, <2>1, <3>2, <3>3 DEF InOrder
    <3>5. InLine' = InLine \cup {n}
      BY <1>2, <2>1, <3>2 DEF AllIds
    <3>6. lost' = lost
      BY <2>1, <2>4, <2>8
    <3> QED
      BY <1>4, <2>1, <2>5, <2>6, <3>4, <3>5, <3>6 DEF AccountInv
  <2> QED
    BY <2>4, <2>7, <2>8
<1>7. CASE Read
  <2>1. UNCHANGED <<Arrived, pipe, hand, filtered, discarded, lost, count, alive, reader>>
        /\ batch = <<>>
    BY <1>7 DEF Read, Fetch, Arrived, hub
  <2>2. Ids(batch) = {}
    BY <2>1, IdsSmall
  <2>3. /\ Ids(batch') \cup Ids(leftover') \cup Ids(queue') = Ids(leftover) \cup Ids(queue)
        /\ Growing(batch') /\ Growing(leftover') /\ Growing(queue')
        /\ Below(Ids(batch'), Ids(leftover')) /\ Below(Ids(batch'), Ids(queue'))
        /\ Below(Ids(leftover'), Ids(queue'))
    BY <1>1, <1>3, <1>7, ReadIds DEF InOrder
  <2>4. ASSUME NEW X, Below(X, Ids(leftover)), Below(X, Ids(queue))
        PROVE  Below(X, Ids(batch')) /\ Below(X, Ids(leftover')) /\ Below(X, Ids(queue'))
    <3>1. Below(X, Ids(leftover) \cup Ids(queue))
      BY <2>4, BelowCup
    <3>2. /\ Ids(batch') \subseteq Ids(leftover) \cup Ids(queue)
          /\ Ids(leftover') \subseteq Ids(leftover) \cup Ids(queue)
          /\ Ids(queue') \subseteq Ids(leftover) \cup Ids(queue)
      BY <2>3
    <3> QED
      BY <3>1, <3>2 DEF Below
  <2>5. InOrder(Arrived', pipe', hand', batch', leftover', queue')
    BY <1>3, <2>1, <2>3, <2>4 DEF InOrder
  <2>6. InLine' = InLine
    BY <1>2, <2>1, <2>2, <2>3 DEF AllIds
  <2> QED
    BY <1>5, <2>1, <2>5, <2>6
\* A read that does not parse: what it returned and the event left over go
\* from the line to what was discarded.
<1>8. CASE ReadFails
  <2> DEFINE out == Ids(Decodable)
  <2>1. /\ UNCHANGED <<Arrived, pipe, hand, batch, filtered, lost, count, alive, reader>>
        /\ batch = <<>> /\ leftover' = <<>> /\ discarded' = discarded \o Decodable
    BY <1>8 DEF ReadFails, Fetch, Arrived, hub
  <2>2. /\ Ids(batch) = {} /\ Growing(batch) /\ Ids(leftover') = {} /\ Growing(leftover')
    BY <2>1, IdsSmall
  <2>3. /\ Decodable \in Seq(Item)
        /\ out \cup Ids(queue') = Ids(leftover) \cup Ids(queue)
        /\ Growing(queue') /\ Below(out, Ids(queue'))
    BY <1>1, <1>3, <1>8, FetchIds DEF ReadFails, InOrder
  <2>4. ASSUME NEW X, Below(X, Ids(leftover)), Below(X, Ids(queue))
        PROVE  Below(X, Ids(queue')) /\ Below(X, out)
    <3>1. Below(X, Ids(leftover) \cup Ids(queue))
      BY <2>4, BelowCup
    <3>2. out \cup Ids(queue') = Ids(leftover) \cup Ids(queue)
      BY <2>3
    <3> QED
      BY <3>1, <3>2 DEF Below
  <2>5. ASSUME NEW X PROVE Below(X, Ids(leftover')) /\ Below(Ids(leftover'), X)
    BY <2>2, BelowCup
  <2>6. InOrder(Arrived', pipe', hand', batch', leftover', queue')
    BY <1>3, <2>1, <2>2, <2>3, <2>4, <2>5 DEF InOrder
  <2>7. InLine = InLine' \cup out
    BY <1>2, <2>1, <2>2, <2>3 DEF AllIds
  <2>8. InLine' \cap out = {}
    <3>1. /\ Below(Ids(Arrived), out) /\ Below(Ids(pipe), out) /\ Below(Ids(hand), out)
          /\ Below(out, Ids(queue'))
      BY <1>3, <2>3, <2>4 DEF InOrder
    <3>2. InLine' = Ids(Arrived) \cup Ids(pipe) \cup Ids(hand) \cup Ids(queue')
      BY <1>2, <2>1, <2>2 DEF AllIds
    <3>3. out \subseteq 0 .. count
      BY <2>7 DEF AccountInv
    <3>4. \A x \in out : ~(x < x)
      BY <1>4, <3>3
    <3> QED
      BY <3>1, <3>2, <3>4 DEF Below
  <2>9. Dropped' = Dropped /\ Discarded' = Discarded \cup out
    <3>1. discarded \in Seq(Item)
      <4>1. Event \subseteq Item /\ discarded \in Seq(Event)
        BY DEF TypeInv, TypeOK, Item
      <4> QED
        BY <4>1, SeqMonotonic
    <3>2. Ids(discarded') = Ids(discarded) \cup out
      BY <2>1, <2>3, <3>1, IdsConcat
    <3> QED
      BY <2>1, <3>2 DEF Dropped, Discarded
  <2> HIDE DEF out
  <2> QED
    BY <2>1, <2>6, <2>7, <2>8, <2>9 DEF AccountInv
<1>9. CASE Handle
  <2> DEFINE e == Head(batch)
             own == {e.id} \ {0}
  <2>1. /\ UNCHANGED <<Arrived, pipe, leftover, discarded, lost, count, alive, reader>>
        /\ filtered' = IF Kept(e) THEN filtered ELSE filtered \cup {e}
    BY <1>9 DEF Handle, Arrived, hub
  <2>2. /\ Ids(hand) = {} /\ e \in Event
        /\ Ids(batch) = own \cup Ids(batch')
        /\ Growing(batch') /\ Below(own, Ids(batch'))
        /\ Ids(hand') = IF Kept(e) THEN own ELSE {}
        /\ Growing(hand') /\ Growing(queue') /\ Ids(queue') = Ids(queue)
    BY <1>1, <1>3, <1>9, HandleIds DEF InOrder
  <2> HIDE DEF e, own
  <2>3. Ids(hand') \subseteq own
    BY <2>2
  <2>4. ASSUME NEW X, Below(X, Ids(batch))
        PROVE  Below(X, own) /\ Below(X, Ids(batch')) /\ Below(X, Ids(hand'))
    BY <2>2, <2>3, <2>4, BelowCup
  <2>5. ASSUME NEW X, Below(Ids(batch), X)
        PROVE  Below(own, X) /\ Below(Ids(batch'), X) /\ Below(Ids(hand'), X)
    BY <2>2, <2>3, <2>5, BelowCup
  <2>6. Below(Ids(hand'), Ids(batch'))
    BY <2>2, <2>3, BelowCup
  <2>7. InOrder(Arrived', pipe', hand', batch', leftover', queue')
    BY <1>3, <2>1, <2>2, <2>4, <2>5, <2>6 DEF InOrder
  <2>8. CASE Kept(e)
    <3>1. InLine' = InLine
      BY <1>2, <2>1, <2>2, <2>8 DEF AllIds
    <3> QED
      BY <1>5, <2>1, <2>7, <2>8, <3>1
  <2>9. CASE ~Kept(e)
    <3>1. InLine = InLine' \cup own
      BY <1>2, <2>1, <2>2, <2>9 DEF AllIds
    <3>2. InLine' \cap own = {}
      <4>1. /\ Below(Ids(Arrived), own) /\ Below(Ids(pipe), own) /\ Below(own, Ids(batch'))
            /\ Below(own, Ids(leftover)) /\ Below(own, Ids(queue))
        BY <1>3, <2>2, <2>4, <2>5 DEF InOrder
      <4>2. InLine' = Ids(Arrived) \cup Ids(pipe) \cup Ids(batch') \cup Ids(leftover)
                          \cup Ids(queue)
        BY <1>2, <2>1, <2>2, <2>9 DEF AllIds
      <4>3. own \subseteq 0 .. count
        BY <3>1 DEF AccountInv
      <4>4. \A x \in own : ~(x < x)
        BY <1>4, <4>3
      <4> QED
        BY <4>1, <4>2, <4>4 DEF Below
    <3>3. Dropped' = Dropped \cup own /\ Discarded' = Discarded
      BY <2>1, <2>9 DEF Dropped, Discarded, own
    <3> QED
      BY <2>1, <2>7, <3>1, <3>2, <3>3 DEF AccountInv
  <2> QED
    BY <2>8, <2>9
<1>10. CASE Die
  <2>1. /\ UNCHANGED <<Arrived, pipe, discarded, lost, count, filtered>> /\ alive' = FALSE
        /\ hand' = <<>> /\ batch' = <<>> /\ leftover' = <<>> /\ queue' = <<>>
    BY <1>10 DEF Die, Arrived, hub
  <2>2. /\ Ids(hand') = {} /\ Ids(batch') = {} /\ Ids(leftover') = {} /\ Ids(queue') = {}
        /\ Growing(hand') /\ Growing(batch') /\ Growing(leftover') /\ Growing(queue')
    BY <2>1, IdsSmall
  <2>3. InOrder(Arrived', pipe', hand', batch', leftover', queue')
    BY <1>3, <2>1, <2>2, BelowCup DEF InOrder
  <2>4. InLine' \subseteq InLine
    BY <1>2, <2>1, <2>2 DEF AllIds
  <2>5. Dropped' = Dropped /\ Discarded' = Discarded
    BY <2>1 DEF Dropped, Discarded
  <2> QED
    BY <2>1, <2>3, <2>4, <2>5 DEF AccountInv
<1>11. CASE Write
  <2>1. UNCHANGED <<Arrived, batch, leftover, queue, filtered, discarded, lost, count, alive,
                    reader>>
    BY <1>11 DEF Write, Arrived, buffers, hub
  <2>2. /\ Ids(pipe') = Ids(pipe) \cup Ids(hand) /\ Ids(hand') = {}
        /\ Growing(hand') /\ Growing(pipe')
    BY <1>1, <1>3, <1>11, PipeIds DEF InOrder, TypeInv
  <2>3. ASSUME NEW X, Below(Ids(pipe), X), Below(Ids(hand), X) PROVE Below(Ids(pipe'), X)
    BY <2>2, <2>3 DEF Below
  <2>4. Below(Ids(Arrived), Ids(pipe'))
    <3>1. Below(Ids(Arrived), Ids(pipe)) /\ Below(Ids(Arrived), Ids(hand))
      BY <1>3 DEF InOrder
    <3> QED
      BY <2>2, <3>1 DEF Below
  <2>5. ASSUME NEW X PROVE Below(X, Ids(hand')) /\ Below(Ids(hand'), X)
    BY <2>2, BelowCup
  <2>6. InOrder(Arrived', pipe', hand', batch', leftover', queue')
    BY <1>3, <2>1, <2>2, <2>3, <2>4, <2>5 DEF InOrder
  <2>7. InLine' = InLine
    BY <1>2, <2>1, <2>2 DEF AllIds
  <2> QED
    BY <1>5, <2>1, <2>6, <2>7
<1>12. CASE Ingest \/ IngestFails
  <2>1. UNCHANGED <<hand, batch, leftover, queue, filtered, discarded, lost, count, alive,
                    reader>>
    BY <1>12 DEF Ingest, IngestFails, buffers
  <2>2. PICK A : /\ Ids(pipe) = A \cup Ids(pipe') /\ Ids(Arrived') = Ids(Arrived) \cup A
                 /\ Growing(pipe) => Growing(pipe') /\ Below(A, Ids(pipe'))
                 /\ Growing(Arrived) /\ Below(Ids(Arrived), A) => Growing(Arrived')
    BY <1>1, <1>12, PipeIds DEF TypeInv
  <2>3. ASSUME NEW X, Below(Ids(pipe), X) PROVE Below(A, X) /\ Below(Ids(pipe'), X)
    BY <2>2, <2>3, BelowCup
  <2>4. Below(Ids(Arrived), A) /\ Below(Ids(Arrived), Ids(pipe'))
    BY <1>3, <2>2, BelowCup DEF InOrder
  <2>5. Growing(pipe') /\ Growing(Arrived') /\ Below(A, Ids(pipe'))
    BY <1>3, <2>2, <2>4 DEF InOrder
  <2>6. ASSUME NEW X, Below(Ids(Arrived), X), Below(A, X) PROVE Below(Ids(Arrived'), X)
    BY <2>2, <2>6, BelowCup
  <2>7. InOrder(Arrived', pipe', hand', batch', leftover', queue')
    BY <1>3, <2>1, <2>3, <2>4, <2>5, <2>6 DEF InOrder
  <2>8. InLine' = InLine
    BY <1>2, <2>1, <2>2 DEF AllIds
  <2> QED
    BY <1>5, <2>1, <2>7, <2>8
<1>13. CASE CloseReader
  <2>1. /\ UNCHANGED <<Arrived, hand, batch, leftover, queue, filtered, discarded, lost, count>>
        /\ pipe' = <<>> /\ reader' = FALSE
    BY <1>13 DEF CloseReader, Arrived, buffers
  <2>2. Ids(pipe') = {} /\ Growing(pipe')
    BY <2>1, IdsSmall
  <2>3. ASSUME NEW X PROVE Below(X, Ids(pipe')) /\ Below(Ids(pipe'), X)
    BY <2>2, BelowCup
  <2>4. InOrder(Arrived', pipe', hand', batch', leftover', queue')
    BY <1>3, <2>1, <2>2, <2>3 DEF InOrder
  <2>5. InLine' \subseteq InLine
    BY <1>2, <2>1, <2>2 DEF AllIds
  <2>6. Dropped' = Dropped /\ Discarded' = Discarded
    BY <2>1 DEF Dropped, Discarded
  <2> QED
    BY <2>1, <2>4, <2>5, <2>6 DEF AccountInv
<1>14. CASE UNCHANGED <<hub, pipe, hand, buffers, queue, filtered, lost, count, alive>>
  <2>1. UNCHANGED <<Arrived, pipe, hand, batch, leftover, queue, filtered, discarded, lost,
                    count, alive, reader>>
    BY <1>14 DEF hub, buffers, Arrived
  <2>2. InLine' = InLine
    BY <1>2, <2>1
  <2>3. InOrder(Arrived', pipe', hand', batch', leftover', queue')
    BY <1>3, <2>1
  <2> QED
    BY <1>5, <2>1, <2>2, <2>3
<1> QED
  BY <1>6, <1>7, <1>8, <1>9, <1>10, <1>11, <1>12, <1>13, <1>14
  DEF Next, Move, Renamed, Exit, BrokenPipe, Killed, vars

(***************************************************************************)
(* Every access is accounted for, once and in its order (Accounted): cut   *)
(* reads, left-over bytes, a full pipe, a full queue and the tap's own     *)
(* accesses duplicate, reorder or lose nothing while tap and server run;   *)
(* and a read that does not parse loses what it returned, with the cut     *)
(* event before it, and no other access (tap_linux.go:120-125).            *)
(***************************************************************************)
THEOREM AccountedFor == Spec => []Accounted
<1>1. AccountInv /\ TypeInv => Accounted
  <2> SUFFICES ASSUME AccountInv, TypeInv PROVE Accounted
    OBVIOUS
  <2>1. Growing(Line)
    BY LineParts DEF AccountInv, TypeInv, Stations
  <2> QED
    BY <2>1 DEF AccountInv, Accounted, Apart, Accesses, Growing
<1> QED
  BY <1>1, InitAccount, NextAccount, InitTypeInv, NextTypeInv, PTL DEF Spec
-----------------------------------------------------------------------------
(***************************************************************************)
(* The processes of a session, any session: the lines in its pipe and      *)
(* whether the server listens to it are not those of this tap.             *)
(***************************************************************************)
VARIABLES mac, root, ui, ctx, sudo, tap, usage, lines, listening, ingest, interrupted

Processes == INSTANCE Session WITH pipe <- lines, reader <- listening

\* Ingest sees the end of the pipe only when nobody can write to it any more.
EndIsFinal == listening /\ ingest = "ended" => sudo = "dead" /\ tap # "up"

ProcessInv == Processes!TypeOK /\ EndIsFinal

(***************************************************************************)
(* Every step of sudo, the tap, fs_usage, the server and the signals keeps *)
(* the types and what they say of each other: no tap before sudo has run   *)
(* it, no fs_usage without a tap, no lines in a pipe whose end Ingest has  *)
(* seen.  The last needs EndIsFinal: there is no tap that could report     *)
(* then (hub.go:72-78); after a line Ingest could not use there is one.    *)
(***************************************************************************)
LEMMA NextProcesses == ProcessInv /\ [Processes!Next]_(Processes!vars) => ProcessInv'
<1> SUFFICES ASSUME Processes!TypeOK, EndIsFinal, [Processes!Next]_(Processes!vars)
             PROVE  Processes!TypeOK' /\ EndIsFinal'
  BY DEF ProcessInv
<1> USE DEF Processes!conf, Processes!server, EndIsFinal
<1>0. PipeCap \in Nat
  BY TapAssumption
<1>1. lines \in Nat /\ lines <= PipeCap
  BY <1>0 DEF Processes!TypeOK
<1>2. CASE Processes!SudoStarts \/ Processes!SudoEnds
  BY <1>2 DEF Processes!TypeOK, Processes!SudoStarts, Processes!SudoEnds
<1>3. CASE Processes!Report
  <2>1. lines' \in 0 .. PipeCap
    BY <1>0, <1>1, <1>3 DEF Processes!Report, Processes!Room
  <2>2. listening => ingest # "ended"
    BY <1>3 DEF Processes!TypeOK, Processes!Report
  <2>3. UNCHANGED <<mac, root, ui, ctx, listening, ingest, interrupted, sudo, usage>>
        /\ tap = "up" /\ tap' \in {"up", "dead"} /\ (~listening => lines' = lines)
    BY <1>3 DEF Processes!Report, Processes!AfterBrokenPipe
  <2> QED
    BY <2>1, <2>2, <2>3 DEF Processes!TypeOK
<1>4. CASE Processes!TapFails \/ Processes!UsageEnds \/ Processes!TapEnds
  BY <1>4 DEF Processes!TypeOK, Processes!TapFails, Processes!UsageEnds, Processes!TapEnds,
     Processes!UsageSeen
<1>5. CASE Processes!Listen \/ Processes!Returns \/ Processes!Stop
  BY <1>5 DEF Processes!TypeOK, Processes!Listen, Processes!Returns, Processes!Stop
<1>6. CASE Processes!Exit \/ Processes!Crash
  <2>1. /\ UNCHANGED <<mac, root, ctx, interrupted, sudo, tap, usage>>
        /\ ui' = "exited" /\ ~listening' /\ listening' = FALSE /\ ingest' = "ended" /\ lines' = 0
    BY <1>6 DEF Processes!Exit, Processes!Crash
  <2>2. 0 \in 0 .. PipeCap
    BY <1>0
  <2>3. (listening = (ui # "exited"))'
    BY <2>1
  <2> QED
    BY <2>1, <2>2, <2>3 DEF Processes!TypeOK
<1>7. CASE Processes!Ingest \/ Processes!IngestFails \/ Processes!IngestEnds
  <2>1. lines' \in 0 .. PipeCap
    BY <1>0, <1>1, <1>7 DEF Processes!Ingest, Processes!IngestFails, Processes!IngestEnds
  <2> QED
    BY <1>7, <2>1 DEF Processes!TypeOK, Processes!Ingest, Processes!IngestFails,
       Processes!IngestEnds
<1>8. CASE Processes!Terminate
  BY <1>8 DEF Processes!TypeOK, Processes!Terminate
<1>9. CASE Processes!CtrlC
  <2>1. /\ UNCHANGED <<mac, root, ui, listening, ingest, lines>>
        /\ ctx' \in BOOLEAN /\ interrupted' \in BOOLEAN
    BY <1>9 DEF Processes!CtrlC, Processes!TypeOK
  <2>2. sudo' = IF sudo = "asking" THEN "dead" ELSE sudo
    BY <1>9 DEF Processes!CtrlC
  <2>3. tap' = IF tap = "up" THEN "dead" ELSE tap
    BY <1>9 DEF Processes!CtrlC
  <2>4. usage' = IF usage = "up" THEN "dead" ELSE usage
    BY <1>9 DEF Processes!CtrlC
  <2> QED
    BY <2>1, <2>2, <2>3, <2>4 DEF Processes!TypeOK
<1>10. CASE UNCHANGED Processes!vars
  BY <1>10 DEF Processes!TypeOK, Processes!vars
<1> QED
  BY <1>2, <1>3, <1>4, <1>5, <1>6, <1>7, <1>8, <1>9, <1>10 DEF Processes!Next

\* Before sudo has started anything there is nothing in the pipe (SpawnTap).
LEMMA InitProcesses == Processes!Init => ProcessInv
<1>1. 0 \in 0 .. PipeCap
  BY TapAssumption
<1> QED
  BY <1>1 DEF Processes!Init, Processes!TypeOK, ProcessInv, EndIsFinal

(***************************************************************************)
(* The processes of a session keep their types, for every capacity of the  *)
(* pipe, on Linux and macOS, started by root or not, wherever one of them  *)
(* ends; and what Ingest takes for the end of the pipe is its end.         *)
(***************************************************************************)
THEOREM SessionTypeCorrect == Processes!Spec => [](Processes!TypeOK /\ EndIsFinal)
BY InitProcesses, NextProcesses, PTL DEF Processes!Spec, ProcessInv

(***************************************************************************)
(* How a session ends.  Ctrl-C leaves nothing that could go on: no prompt, *)
(* no tap, no fs_usage, and a server that has been told.  And a server     *)
(* that waits in its deferred stop waits for a tap that sudo runs as root, *)
(* never for a prompt or for a sudo it could kill (spawn.go:46-53).        *)
(***************************************************************************)
CtrlCReachesAll ==
    interrupted =>
        /\ sudo # "asking" /\ tap # "up" /\ usage # "up"
        /\ ctx \/ ui = "exited"

WaitsForRootOnly == ui = "waiting" => sudo # "asking" /\ (root => sudo = "dead")

\* No step brings back what has ended, and the server's context stays canceled.
LEMMA NextEnding ==
    ProcessInv /\ CtrlCReachesAll /\ WaitsForRootOnly /\ [Processes!Next]_(Processes!vars)
        => CtrlCReachesAll' /\ WaitsForRootOnly'
<1> SUFFICES ASSUME Processes!TypeOK, CtrlCReachesAll, WaitsForRootOnly,
                    [Processes!Next]_(Processes!vars)
             PROVE  CtrlCReachesAll' /\ WaitsForRootOnly'
  BY DEF ProcessInv
<1> USE DEF Processes!conf, Processes!server, CtrlCReachesAll, WaitsForRootOnly
<1>1. CASE \/ Processes!SudoStarts \/ Processes!SudoEnds \/ Processes!Report
           \/ Processes!TapFails \/ Processes!UsageEnds \/ Processes!TapEnds
  <2>1. UNCHANGED <<root, ui, ctx, interrupted>>
    BY <1>1 DEF Processes!SudoStarts, Processes!SudoEnds, Processes!Report, Processes!TapFails,
       Processes!UsageEnds, Processes!TapEnds
  <2>2. /\ sudo' = "asking" => sudo = "asking"
        /\ sudo = "dead" => sudo' = "dead"
        /\ sudo # "asking" /\ tap # "up" => tap' # "up"
        /\ sudo # "asking" /\ usage # "up" => usage' # "up"
    BY <1>1 DEF Processes!TypeOK, Processes!SudoStarts, Processes!SudoEnds, Processes!Report,
       Processes!AfterBrokenPipe, Processes!TapFails, Processes!UsageEnds, Processes!TapEnds,
       Processes!UsageSeen
  <2> QED
    BY <2>1, <2>2
<1>2. CASE Processes!Listen \/ Processes!Returns \/ Processes!Exit \/ Processes!Crash
  BY <1>2 DEF Processes!Listen, Processes!Returns, Processes!Exit, Processes!Crash
<1>3. CASE Processes!Stop
  BY <1>3 DEF Processes!TypeOK, Processes!Stop, Processes!Killable
<1>4. CASE Processes!Ingest \/ Processes!IngestFails \/ Processes!IngestEnds
  BY <1>4 DEF Processes!Ingest, Processes!IngestFails, Processes!IngestEnds
<1>5. CASE Processes!Terminate
  BY <1>5 DEF Processes!Terminate
<1>6. CASE Processes!CtrlC
  BY <1>6 DEF Processes!TypeOK, Processes!CtrlC
<1>7. CASE UNCHANGED Processes!vars
  BY <1>7 DEF Processes!vars
<1> QED
  BY <1>1, <1>2, <1>3, <1>4, <1>5, <1>6, <1>7 DEF Processes!Next

(***************************************************************************)
(* Whatever ends first and wherever the signal comes, Ctrl-C reaches every *)
(* process and nothing is started after it; and no server waits for a sudo *)
(* that it could have killed: what ServerEnds adds is that they get on.    *)
(***************************************************************************)
THEOREM SessionEnding == Processes!Spec => [](CtrlCReachesAll /\ WaitsForRootOnly)
<1>1. Processes!Init => CtrlCReachesAll /\ WaitsForRootOnly
  BY DEF Processes!Init, CtrlCReachesAll, WaitsForRootOnly
<1>2. Processes!Init => ProcessInv
  BY InitProcesses
<1> QED
  BY <1>1, <1>2, NextProcesses, NextEnding, PTL DEF Processes!Spec

(***************************************************************************)
(* This tap as one of the processes of a session: the one on Linux, behind *)
(* sudo, for a server that has begun to listen.  A report in its hand is   *)
(* not yet a line in the pipe; a server that has closed its end is gone.   *)
(***************************************************************************)
Behind == INSTANCE Session WITH
    mac         <- FALSE,
    root        <- FALSE,
    ui          <- IF reader THEN "serving" ELSE "exited",
    ctx         <- FALSE,
    sudo        <- "running",
    tap         <- IF alive THEN "up" ELSE "dead",
    usage       <- "none",
    pipe        <- Len(pipe),
    ingest      <- IF ~reader THEN "ended"
                   ELSE IF refused = <<>> THEN "reading" ELSE "failed",
    interrupted <- FALSE

\* The pipe goes with its reader, and the report in hand with the tap.
Drained == (~reader => pipe = <<>>) /\ (~alive => hand = <<>>)

\* Nothing is put into a pipe without a reader or into the hand of a dead tap.
LEMMA NextDrained == Drained /\ [Next]_vars => Drained'
BY DEF Drained, Next, Happen, Move, Renamed, Exit, Fetch, Read, ReadFails, Handle, Write,
   BrokenPipe, Killed, Die, Ingest, IngestFails, Readable, CloseReader, vars, world, hub

(***************************************************************************)
(* What Session takes for one step of the tap is what the tap does: from   *)
(* the moment it runs, each of its steps and of the server's at the pipe   *)
(* is a step of a session or none at all.  A report that is written is a   *)
(* line, and the broken pipe ends the tap (event.go:35-45, spawn.go).      *)
(***************************************************************************)
THEOREM TapIsOfSession ==
    Spec => []Behind!TypeOK /\ [][Behind!Next]_(Behind!vars)
<1>1. Init => TypeOK /\ Drained
  BY InitTypeInv DEF Init, Drained, TypeInv
<1>2. TypeInv /\ Drained => Behind!TypeOK
  BY SMTT(30), TapAssumption DEF TypeInv, TypeOK, Drained, Behind!TypeOK
<1>3. ASSUME TypeOK, TypeOK', Drained, [Next]_vars PROVE [Behind!Next]_(Behind!vars)
  <2> USE DEF Behind!vars, Behind!conf, Behind!server, hub
  <2>1. CASE Write
    <3>1. Len(pipe') = Len(pipe) + 1
      <4>1. hand \in Seq(Report) /\ pipe \in Seq(Report) /\ hand # <<>> /\ Len(hand) <= 1
        BY <1>3, <2>1 DEF Write, TypeOK
      <4>2. Len(hand) = 1
        BY SMTT(30), <4>1, EmptySeq
      <4>3. Len(pipe \o hand) = Len(pipe) + Len(hand)
        BY <4>1, ConcatProperties
      <4> QED
        BY <2>1, <4>2, <4>3 DEF Write
    <3>2. alive
      BY <1>3, <2>1 DEF Write, Drained
    <3> QED
      BY <2>1, <3>1, <3>2 DEF Write, Behind!Next, Behind!Report, Behind!Room
  <2>2. CASE BrokenPipe
    BY <1>3, <2>2
    DEF BrokenPipe, Die, TypeOK, Behind!Next, Behind!Report, Behind!AfterBrokenPipe
  <2>3. CASE Killed
    BY <2>3 DEF Killed, Die, Behind!Next, Behind!TapFails
  <2>4. CASE Ingest
    BY <1>3, <2>4 DEF Ingest, Readable, TypeOK, Behind!Next, Behind!Ingest
  <2>5. CASE IngestFails
    <3>1. pipe \in Seq(Report) /\ pipe # <<>> /\ pipe' = Tail(pipe)
      BY <1>3, <2>5 DEF IngestFails, Readable, TypeOK
    <3>2. Len(pipe) > 0 /\ Len(pipe') = Len(pipe) - 1
      BY <3>1, HeadTailProperties, EmptySeq
    <3>3. /\ UNCHANGED <<alive, reader>> /\ reader /\ refused = <<>>
          /\ refused' = <<Head(pipe)>> /\ refused' # <<>>
      BY <2>5 DEF IngestFails, Readable
    <3> QED
      BY <3>2, <3>3 DEF Behind!Next, Behind!IngestFails
  <2>6. CASE CloseReader
    BY <1>3, <2>6 DEF CloseReader, Behind!Next, Behind!Crash
  <2>7. CASE UNCHANGED <<pipe, alive, hub>>
    BY <2>7
  <2> QED
    BY <1>3, <2>1, <2>2, <2>3, <2>4, <2>5, <2>6, <2>7
    DEF Next, Happen, Move, Renamed, Exit, Fetch, Read, ReadFails, Handle, vars
<1> QED
  BY <1>1, <1>2, <1>3, InitTypeInv, NextTypeInv, NextDrained, PTL DEF Spec, TypeInv
=============================================================================
