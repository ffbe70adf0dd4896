------------------------------- MODULE Watch --------------------------------
(***************************************************************************)
(* From a change in the watched directory to the broadcasts about it:      *)
(* treewatch.Watcher (internal/treewatch) and runFSEventsWatcher           *)
(* (internal/ui/server.go).                                                *)
(*                                                                         *)
(* The notify library puts raw events into a channel and drops them when   *)
(* it is full; the watcher's loop forwards them to a second channel and    *)
(* drops them when that one is full; the server takes them out and         *)
(* suppresses an event whose (path, kind) it has announced less than       *)
(* Window ago.  Time is a clock of ticks.  Watcher.Close is never called.  *)
(***************************************************************************)
EXTENDS Integers, Sequences, FiniteSets

CONSTANTS
    Path,           \* paths below the watched directory
    ChanCap,        \* capacity of both channels (256)
    Window,         \* dedupeWindow (200 ms)
    PurgeAge,       \* age from which entries are purged (5 s)
    PurgeAbove,     \* size of the map above which they are (1024)
    MaxTime,        \* bound on the clock
    MaxEvents       \* bound on the raw events

Kind == {"create", "write", "remove", "rename"}

ASSUME WatchAssumption ==
    /\ {ChanCap, Window, PurgeAge, PurgeAbove, MaxTime, MaxEvents} \subseteq Nat
    /\ ChanCap > 0
    /\ 0 < Window /\ Window < PurgeAge

VARIABLES
    now,
    present,        \* the paths that exist
    raws,           \* number of raw events so far
    c,              \* Watcher.c: raw events, [path, flags]
    out,            \* Watcher.out: [path, kind]
    recent,         \* the dedupe map: a function from keys to times
    handled,        \* history: when an event of a key was last taken from out
    announced       \* history: when a key was last announced

vars == <<now, present, raws, c, out, recent, handled, announced>>

Key == Path \X Kind
Time == 0 .. MaxTime
Never == -1

Init ==
    /\ now = 0 /\ raws = 0
    /\ present \in SUBSET Path
    /\ c = <<>> /\ out = <<>>
    /\ recent = [k \in {} |-> 0]
    /\ handled = [k \in Key |-> Never] /\ announced = [k \in Key |-> Never]

Tick ==
    /\ now < MaxTime
    /\ now' = now + 1
    /\ UNCHANGED <<present, raws, c, out, recent, handled, announced>>

\* What can happen to a path: the event's flags and whether it exists then.
Change(p) ==
    IF p \in present
    THEN {<<{"write"}, TRUE>>, <<{"remove"}, FALSE>>, <<{"rename"}, FALSE>>}
    ELSE {<<{"create"}, TRUE>>, <<{"create", "write"}, TRUE>>, <<{"rename"}, TRUE>>}

\* The library sends without blocking.
RawEvent(p) ==
    /\ raws < MaxEvents
    /\ raws' = raws + 1
    /\ \E ch \in Change(p) :
          /\ present' = IF ch[2] THEN present \cup {p} ELSE present \ {p}
          /\ c' = IF Len(c) < ChanCap THEN Append(c, [path |-> p, flags |-> ch[1]]) ELSE c
    /\ UNCHANGED <<now, out, recent, handled, announced>>

\* The first case that applies.
Classify(flags) ==
    IF "create" \in flags THEN "create"
    ELSE IF "remove" \in flags THEN "remove"
    ELSE IF "rename" \in flags THEN "rename"
    ELSE "write"

\* Mutant of Forward: the second channel has no limit.
ForwardAlways ==
    /\ c # <<>>
    /\ c' = Tail(c)
    /\ out' = Append(out, [path |-> Head(c).path, kind |-> Classify(Head(c).flags)])
    /\ UNCHANGED <<now, present, raws, recent, handled, announced>>

\* Watcher.loop: forward, or drop when out is full.
Forward ==
    /\ c # <<>>
    /\ c' = Tail(c)
    /\ out' = IF Len(out) < ChanCap
              THEN Append(out, [path |-> Head(c).path, kind |-> Classify(Head(c).flags)])
              ELSE out
    /\ UNCHANGED <<now, present, raws, recent, handled, announced>>

Suppressed(key) == key \in DOMAIN recent /\ now - recent[key] < Window

\* Mutant of Remember: a map that has grown too large is emptied.
RememberAfresh(key) ==
    IF Cardinality(DOMAIN recent \cup {key}) > PurgeAbove
    THEN [k \in {} |-> 0]
    ELSE [k \in DOMAIN recent \cup {key} |-> IF k = key THEN now ELSE recent[k]]

\* The entry is written, then old entries are purged if there are too many.
Remember(key) ==
    LET keys == DOMAIN recent \cup {key}
        at(k) == IF k = key THEN now ELSE recent[k]
        kept == IF Cardinality(keys) > PurgeAbove
                THEN {k \in keys : now - at(k) <= PurgeAge} ELSE keys
    IN  [k \in kept |-> at(k)]

\* Mutant of Handle: a suppressed event renews its entry.
HandleSliding ==
    /\ out # <<>>
    /\ out' = Tail(out)
    /\ LET key == <<Head(out).path, Head(out).kind>>
       IN  /\ handled' = [handled EXCEPT ![key] = now]
           /\ recent' = Remember(key)
           /\ IF Suppressed(key)
              THEN UNCHANGED announced
              ELSE announced' = [announced EXCEPT ![key] = now]
    /\ UNCHANGED <<now, present, raws, c>>

\* One round of the server's loop.  To announce is to broadcast a transient
\* dirchange for the directory and, unless it is a removal, a stored write.
Handle ==
    /\ out # <<>>
    /\ out' = Tail(out)
    /\ LET key == <<Head(out).path, Head(out).kind>>
       IN  /\ handled' = [handled EXCEPT ![key] = now]
           /\ IF Suppressed(key)
              THEN UNCHANGED <<recent, announced>>
              ELSE /\ recent' = Remember(key)
                   /\ announced' = [announced EXCEPT ![key] = now]
    /\ UNCHANGED <<now, present, raws, c>>

Next == Tick \/ (\E p \in Path : RawEvent(p)) \/ Forward \/ Handle

Spec == Init /\ [][Next]_vars
-----------------------------------------------------------------------------
(* What the channels, the dedupe map and the history hold.                 *)
TypeOK ==
    /\ now \in Time /\ raws \in 0 .. MaxEvents
    /\ present \subseteq Path
    /\ c \in Seq([path : Path, flags : SUBSET Kind]) /\ Len(c) <= ChanCap
    /\ out \in Seq([path : Path, kind : Kind]) /\ Len(out) <= ChanCap
    /\ DOMAIN recent \subseteq Key /\ \A k \in DOMAIN recent : recent[k] \in Time
    /\ handled \in [Key -> Time \cup {Never}]
    /\ announced \in [Key -> Time \cup {Never}]

(***************************************************************************)
(* A burst is not swallowed: whenever an event was taken, one like it had  *)
(* been announced less than Window before, or was announced then.  A       *)
(* suppressed event does not renew its entry (server.go:114-117).          *)
(***************************************************************************)
BurstIsAnnounced ==
    \A k \in Key : handled[k] # Never =>
        announced[k] # Never /\ handled[k] - announced[k] < Window

(***************************************************************************)
(* The same (path, kind) is not announced twice within Window, whatever    *)
(* the purge of the map has removed in between (server.go:118-124).        *)
(***************************************************************************)
OncePerWindow ==
    [][\A k \in Key : announced'[k] # announced[k] /\ announced[k] # Never =>
          announced'[k] - announced[k] >= Window]_vars
=============================================================================
