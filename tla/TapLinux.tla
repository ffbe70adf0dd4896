------------------------------ MODULE TapLinux ------------------------------
(***************************************************************************)
(* The tap on Linux, from a file access to the hub's log: the fanotify     *)
(* queue of the kernel, the read loop of tap.Run (internal/tap), the pipe  *)
(* to the server and hub.Ingest at its end.                                *)
(*                                                                         *)
(* The kernel joins an event with an equal one that is still queued, and   *)
(* puts one overflow event, without a descriptor, into a full queue.  A    *)
(* read opens a descriptor for each event it returns.  The path and the    *)
(* name of the process are looked up when the event is handled, not when   *)
(* it happened: by then the file may have moved, the process may have      *)
(* exited, executed another program, or left its pid to another process.   *)
(*                                                                         *)
(* Two errors do not end the tap: a record shorter than its header, for    *)
(* which it throws the whole read away, and a line Ingest cannot use,      *)
(* after which nobody reads the pipe.                                      *)
(***************************************************************************)
EXTENDS Integers, Sequences, FiniteSets

CONSTANTS
    Own,            \* pids of the server, of sudo and of the tap
    Tap,            \* the tap's
    Proc,           \* other pids
    Name,           \* names of processes
    Excluded,       \* excludeProcesses and --exclude-name
    File,           \* files of the marked filesystem
    DumpFile,       \* the one --raw-dump names
    NoFile,         \* what an overflow event is about
    QueueCap,       \* events the kernel queues (16384)
    BatchCap,       \* events in a read of 64 KiB (2730)
    CacheCap,       \* names above which the cache is emptied (4096)
    PipeCap,        \* lines the pipe holds
    MaxEvents,      \* bound on the accesses to files
    MaxDiscarded    \* bound on the events in reads that do not parse

Unknown == ""       \* the name of a process that has exited
Pid == Own \cup Proc

ASSUME TapAssumption ==
    /\ Tap \in Own /\ Own \cap Proc = {}
    /\ Unknown \notin Name /\ Excluded \subseteq Name
    /\ DumpFile \in File /\ NoFile \notin File
    /\ {QueueCap, BatchCap, PipeCap} \subseteq Nat \ {0}
    /\ {CacheCap, MaxEvents, MaxDiscarded} \subseteq Nat

VARIABLES
    rawDump,        \* is --raw-dump on, with its file on the marked filesystem?
    place,          \* where a file is: inside or outside the watched directory
    holder,         \* the name of the process that has a pid
    queue,          \* events in the kernel
    leftover,       \* event of which a read returned only the first bytes
    batch,          \* events decoded, not handled
    open,           \* number of descriptors the tap has open for events
    cache,          \* procReader.cache
    hand,           \* the report being written
    pipe, log,      \* reports in the pipe; those the hub has got
    alive,          \* the tap runs
    reader,         \* the server has its end of the pipe open
    moved, reused,  \* history: files that moved, pids that changed their name
    count, lost,    \* history: number of accesses, those lost in an overflow
    filtered,       \* history: events handled and not reported
    discarded,      \* history: events in reads that did not parse
    refused         \* history: the report at which Ingest gave up

world == <<rawDump, place, holder, moved, reused>>
buffers == <<leftover, batch, open, discarded>>
hub == <<log, refused, reader>>
vars == <<world, queue, buffers, cache, hand, pipe, hub, alive, count, lost, filtered>>

NameOf(pid) == IF pid \in Proc THEN holder[pid] ELSE Unknown
Event == [id : 0 .. MaxEvents, pid : Pid, file : File \cup {NoFile},
          by : Name \cup {Unknown}, at : {"in", "out"}]
Report == [id : 0 .. MaxEvents, pid : Pid, file : File \cup {NoFile},
           by : Name \cup {Unknown}, at : {"in", "out"}, name : Name \cup {Unknown}]

\* An access: its number, by whom, to what; the name and the place at that time.
Access(id, pid, f) ==
    [id |-> id, pid |-> pid, file |-> f, by |-> NameOf(pid), at |-> place[f]]
Overflow == [id |-> 0, pid |-> Tap, file |-> NoFile, by |-> Unknown, at |-> "out"]

Init ==
    /\ rawDump \in BOOLEAN
    /\ place \in {w \in [File -> {"in", "out"}] : w[DumpFile] = "in"}
    /\ holder \in [Proc -> Name]
    /\ queue = <<>> /\ leftover = <<>> /\ batch = <<>> /\ open = 0
    /\ cache = [p \in {} |-> Unknown]
    /\ hand = <<>> /\ pipe = <<>> /\ log = <<>>
    /\ alive = TRUE /\ reader = TRUE
    /\ moved = {} /\ reused = {} /\ count = 0 /\ lost = {} /\ filtered = {}
    /\ discarded = <<>> /\ refused = <<>>
-----------------------------------------------------------------------------
(* The surroundings: files, processes and the kernel's queue.              *)

Joins(e) == \E i \in DOMAIN queue : queue[i].pid = e.pid /\ queue[i].file = e.file

Queued(e) ==
    IF Len(queue) >= QueueCap
    THEN IF Overflow \in {queue[i] : i \in DOMAIN queue} THEN queue ELSE Append(queue, Overflow)
    ELSE IF Joins(e) THEN queue ELSE Append(queue, e)

\* An access that does not join an equal one; it is lost if the queue is full.
Happen(pid, f) ==
    /\ alive /\ count < MaxEvents
    /\ pid \in Proc => holder[pid] # Unknown
    /\ LET e == Access(count + 1, pid, f)
           full == Len(queue) >= QueueCap
       IN  /\ full \/ ~Joins(e)
           /\ queue' = Queued(e)
           /\ lost' = IF full THEN lost \cup {e.id} ELSE lost
    /\ count' = count + 1
    /\ UNCHANGED <<world, buffers, cache, hand, pipe, hub, alive, filtered>>

\* A file leaves or enters the watched directory (once: a bound).
Move(f) ==
    /\ alive /\ f \notin moved \cup {DumpFile}
    /\ place' = [place EXCEPT ![f] = IF @ = "in" THEN "out" ELSE "in"]
    /\ moved' = moved \cup {f}
    /\ UNCHANGED <<rawDump, holder, reused, queue, buffers, cache, hand, pipe, hub, alive,
                   count, lost, filtered>>

\* Another program under the same pid, after exec or after an exit (once).
Renamed(p, n) ==
    /\ alive /\ p \notin reused /\ n # holder[p]
    /\ holder' = [holder EXCEPT ![p] = n]
    /\ reused' = reused \cup {p}
    /\ UNCHANGED <<rawDump, place, moved, queue, buffers, cache, hand, pipe, hub, alive,
                   count, lost, filtered>>

Exit(p) ==
    /\ alive /\ holder[p] # Unknown
    /\ holder' = [holder EXCEPT ![p] = Unknown]
    /\ UNCHANGED <<rawDump, place, moved, reused, queue, buffers, cache, hand, pipe, hub, alive,
                   count, lost, filtered>>
-----------------------------------------------------------------------------
(* The tap.                                                                *)

Taken == IF Len(queue) < BatchCap THEN Len(queue) ELSE BatchCap

\* Mutant of Decodable: what the last read left over is forgotten.
DecodableFresh == SubSeq(queue, 1, Taken)

\* What parseFanotifyEvents is given: the bytes left over, then those read.
Decodable == leftover \o SubSeq(queue, 1, Taken)

\* The read itself; each event but an overflow comes with a descriptor.
Fetch ==
    /\ alive /\ batch = <<>> /\ hand = <<>> /\ Decodable # <<>>
    /\ queue' = SubSeq(queue, Taken + 1, Len(queue))
    /\ open' = open + Cardinality({i \in 1 .. Taken : queue[i].file # NoFile})
    /\ UNCHANGED <<world, cache, hand, pipe, hub, alive, count, lost, filtered>>

Rest(cut) == IF cut THEN <<Decodable[Len(Decodable)]>> ELSE <<>>

\* A read that parses.  The last event may be cut: the rest of its bytes
\* comes with the next read.
Read ==
    /\ Fetch
    /\ \E cut \in BOOLEAN :
          /\ cut => Taken > 0
          /\ leftover' = Rest(cut)
          /\ batch' = IF cut THEN SubSeq(Decodable, 1, Len(Decodable) - 1) ELSE Decodable
    /\ UNCHANGED discarded

\* One of its records is shorter than a header: what was decoded before it
\* is thrown away with the rest, and no descriptor is closed.
ReadFails ==
    /\ Fetch
    /\ Len(discarded) + Len(Decodable) <= MaxDiscarded
    /\ discarded' = discarded \o Decodable
    /\ leftover' = <<>>
    /\ UNCHANGED batch

\* pathForFD, cleanPath and pathIn: where the file is now.
Inside(e) == e.file # NoFile /\ place[e.file] = "in"

\* Mutant of Watched: the tap, sudo and the server are not excluded.
WatchedAll(e) == Inside(e)

Watched(e) == Inside(e) /\ e.pid \notin Own

CommName(pid) == IF pid \in DOMAIN cache THEN cache[pid] ELSE NameOf(pid)

\* Mutant of Cached: "" is stored, too.
CachedAlways(pid) ==
    [q \in DOMAIN cache \cup {pid} |-> IF q \in DOMAIN cache THEN cache[q] ELSE NameOf(q)]

\* The cache after CommName: an unreadable name is not stored.
Cached(pid) ==
    IF pid \in DOMAIN cache \/ NameOf(pid) = Unknown THEN cache
    ELSE LET kept == IF Cardinality(DOMAIN cache) > CacheCap THEN {} ELSE DOMAIN cache
         IN  [q \in kept \cup {pid} |-> IF q = pid THEN NameOf(pid) ELSE cache[q]]

\* Mutant of Kept: a process whose name cannot be read is taken for excluded.
KeptIfKnown(e) == Watched(e) /\ CommName(e.pid) \notin Excluded \cup {Unknown}

Kept(e) == Watched(e) /\ CommName(e.pid) \notin Excluded

\* Mutant of Closed: the descriptor is closed only when the event is reported.
ClosedIfKept(e) == IF Kept(e) THEN 1 ELSE 0

Closed(e) == IF e.file = NoFile THEN 0 ELSE 1

ReportOf(e) == [id |-> e.id, pid |-> e.pid, file |-> e.file, by |-> e.by, at |-> e.at,
                name |-> CommName(e.pid)]

\* One round of the loop over a batch.  Writing the dump is an access too.
Handle ==
    /\ alive /\ batch # <<>> /\ hand = <<>>
    /\ LET e == Head(batch)
       IN  /\ queue' = IF rawDump THEN Queued(Access(0, Tap, DumpFile)) ELSE queue
           /\ open' = open - Closed(e)
           /\ cache' = IF Watched(e) THEN Cached(e.pid) ELSE cache
           /\ hand' = IF Kept(e) THEN <<ReportOf(e)>> ELSE <<>>
           /\ filtered' = IF Kept(e) THEN filtered ELSE filtered \cup {e}
    /\ batch' = Tail(batch)
    /\ UNCHANGED <<world, leftover, discarded, pipe, hub, alive, count, lost>>

\* The process is gone, with its descriptors and the kernel's queue.
Die ==
    /\ alive' = FALSE /\ open' = 0
    /\ queue' = <<>> /\ leftover' = <<>> /\ batch' = <<>> /\ hand' = <<>>
    /\ cache' = [p \in {} |-> Unknown]
    /\ UNCHANGED <<world, discarded, pipe, hub, count, lost, filtered>>

\* Writer.Write blocks while the pipe is full.
Write ==
    /\ hand # <<>> /\ reader /\ Len(pipe) < PipeCap
    /\ pipe' = pipe \o hand
    /\ hand' = <<>>
    /\ UNCHANGED <<world, queue, buffers, cache, hub, alive, count, lost, filtered>>

\* A write to a pipe without a reader: SIGPIPE ends the tap.
BrokenPipe == hand # <<>> /\ ~reader /\ Die

\* The tap is killed, or a read fails and Run returns.
Killed == alive /\ Die
-----------------------------------------------------------------------------
(* The server's end of the pipe.                                           *)

\* Mutant of Readable: a report without a name is refused and ends Ingest.
ReadableIfNamed ==
    reader /\ refused = <<>> /\ pipe # <<>> /\ Head(pipe).name # Unknown

Readable == reader /\ refused = <<>> /\ pipe # <<>>

Ingest ==
    /\ Readable
    /\ log' = Append(log, Head(pipe))
    /\ pipe' = Tail(pipe)
    /\ UNCHANGED <<world, queue, buffers, cache, hand, refused, reader, alive, count, lost,
                   filtered>>

\* A line over 1 MB or that is not JSON: Ingest returns, the pipe stays open.
IngestFails ==
    /\ Readable
    /\ refused' = <<Head(pipe)>>
    /\ pipe' = Tail(pipe)
    /\ UNCHANGED <<world, queue, buffers, cache, hand, log, reader, alive, count, lost, filtered>>

\* The server is gone.
CloseReader ==
    /\ reader
    /\ reader' = FALSE /\ pipe' = <<>>
    /\ UNCHANGED <<world, queue, buffers, cache, hand, log, refused, alive, count, lost, filtered>>

Next ==
    \/ \E pid \in Pid \ {Tap}, f \in File \ {DumpFile} : Happen(pid, f)
    \/ \E f \in File : Move(f)
    \/ \E p \in Proc, n \in Name : Renamed(p, n)
    \/ \E p \in Proc : Exit(p)
    \/ Read \/ ReadFails \/ Handle \/ Write \/ BrokenPipe \/ Killed
    \/ Ingest \/ IngestFails \/ CloseReader

\* The tap and Ingest get on, with an error or without one.
Fairness ==
    /\ WF_vars(Read \/ ReadFails) /\ WF_vars(Handle) /\ WF_vars(Write \/ BrokenPipe)
    /\ WF_vars(Ingest \/ IngestFails)

Spec == Init /\ [][Next]_vars /\ Fairness
-----------------------------------------------------------------------------
(* What the kernel, the tap, the pipe and the history hold.                *)
TypeOK ==
    /\ rawDump \in BOOLEAN /\ alive \in BOOLEAN /\ reader \in BOOLEAN
    /\ place \in [File -> {"in", "out"}] /\ moved \subseteq File
    /\ holder \in [Proc -> Name \cup {Unknown}] /\ reused \subseteq Proc
    /\ queue \in Seq(Event) /\ Len(queue) <= QueueCap + 1
    /\ leftover \in Seq(Event) /\ Len(leftover) <= 1
    /\ batch \in Seq(Event) /\ Len(batch) <= BatchCap + 1
    /\ open \in Int
    /\ DOMAIN cache \subseteq Proc /\ \A p \in DOMAIN cache : cache[p] \in Name
    /\ hand \in Seq(Report) /\ Len(hand) <= 1
    /\ pipe \in Seq(Report) /\ Len(pipe) <= PipeCap
    /\ log \in Seq(Report)
    /\ count \in 0 .. MaxEvents /\ lost \subseteq 1 .. MaxEvents
    /\ filtered \subseteq Event
    /\ discarded \in Seq(Event) /\ Len(discarded) <= MaxDiscarded
    /\ refused \in Seq(Report) /\ Len(refused) <= 1

(***************************************************************************)
(* While the tap runs, its open descriptors are those of the events it has *)
(* read and not handled and those of reads that did not parse: these it    *)
(* never closes, against fanotify_linux.go:19-21, and only these.  None is *)
(* left open by an event that is filtered or cut or about an overflow      *)
(* (tap_linux.go:120-139).                                                 *)
(***************************************************************************)
DescriptorsOwned ==
    LET owned(s) == Cardinality({i \in DOMAIN s : s[i].file # NoFile})
    IN  open = IF alive THEN owned(leftover) + owned(batch) + owned(discarded) ELSE 0

Ids(s) == {s[i].id : i \in DOMAIN s} \ {0}

\* What Ingest has got, the line it could not use included.
Arrived == log \o refused

Line == Arrived \o pipe \o hand \o batch \o leftover \o queue
InLine == Ids(Line)
Dropped == {e.id : e \in filtered} \ {0}
Discarded == Ids(discarded)

(***************************************************************************)
(* Every access is, once and in its order, on its way or with Ingest, or   *)
(* it was filtered, lost in an overflow or thrown away with a read that    *)
(* did not parse; so cut reads, leftover bytes, a full pipe and the tap's  *)
(* own accesses duplicate, reorder or lose nothing while tap and server    *)
(* run, and a read that does not parse loses no other access than those    *)
(* it returned and the cut one before them (tap_linux.go:105-126).         *)
(***************************************************************************)
Accounted ==
    /\ \A i, j \in DOMAIN Line :
           i < j /\ Line[i].id > 0 /\ Line[j].id > 0 => Line[i].id < Line[j].id
    /\ InLine \cap (Dropped \cup Discarded \cup lost) = {}
    /\ Dropped \cap Discarded = {} /\ lost \cap (Dropped \cup Discarded) = {}
    /\ alive /\ reader => 1 .. count = InLine \cup Dropped \cup Discarded \cup lost

(***************************************************************************)
(* Only what should be is filtered: our own accesses, those outside and    *)
(* those of excluded processes, but for files that moved and pids that     *)
(* changed their name in the meantime (the staleness proc_linux.go:29-34   *)
(* accepts).                                                               *)
(***************************************************************************)
RightlyFiltered ==
    \A e \in filtered :
        \/ e.pid \in Own
        \/ e.file \in moved \cup {NoFile} \/ e.at = "out"
        \/ e.pid \in reused \/ e.by \in Excluded

(***************************************************************************)
(* What is reported never comes from the tap, sudo or the server, lies     *)
(* inside, and carries the name of the process that did it, or none if     *)
(* that has exited; with the same two exceptions.  An excluded name is     *)
(* never shown: a process that should be excluded gets through only        *)
(* without its name.                                                       *)
(***************************************************************************)
ReportsAreRight ==
    LET reports == log \o pipe \o hand
    IN  \A i \in DOMAIN reports :
            LET r == reports[i]
            IN  /\ r.pid \notin Own
                /\ r.name \notin Excluded
                /\ r.file \notin moved => r.at = "in"
                /\ r.pid \notin reused => r.name \in {r.by, Unknown}

(***************************************************************************)
(* An access is settled in the end, filtered or with the hub, unless it is *)
(* lost in an overflow or with a read that does not parse, the tap or the  *)
(* server ends, or Ingest has given up at a line, so that the pipe fills   *)
(* and stops the tap (hub.go:71-73).  That holds with a raw dump on the    *)
(* marked filesystem, too, where the tap never rests since each event      *)
(* handled is followed by an access of its own (tap_linux.go:130-132): its *)
(* own accesses do not crowd out the others.                               *)
(***************************************************************************)
AccessIsSettled ==
    \A i \in 1 .. MaxEvents :
        (i \in InLine) ~>
            \/ i \in Dropped \cup Discarded \cup Ids(log)
            \/ ~alive \/ ~reader \/ refused # <<>>
=============================================================================
