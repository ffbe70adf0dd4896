-------------------------------- MODULE Feed --------------------------------
(***************************************************************************)
(* What the hub promises its subscribers, without counters, channels,      *)
(* goroutines or the ring: a log, an audience, and for every connection    *)
(* the frames it is still owed and the frames it got.                      *)
(*                                                                         *)
(*   - a publication is owed, at once, to everyone in the audience;        *)
(*   - a connection is owed the recent log exactly once;                   *)
(*   - a frame is got at most once, and only if it is owed;                *)
(*   - on a connection that is not broken only live frames are lost.       *)
(*                                                                         *)
(* Hub implements this (Hub!FeedSpec).                                     *)
(***************************************************************************)
EXTENDS Integers, Sequences

CONSTANTS
    Client,
    Event,      \* events, each with a field "store"
    Keep        \* how much of the log a connection is owed

VARIABLES
    log,        \* the stored publications
    audience,   \* connections that publications are owed to
    caughtUp,   \* connections that have been owed the recent log
    broken,     \* connections whose peer or network has failed
    owed,       \* frames still owed to each connection
    got         \* frames each connection got, in order

vars == <<log, audience, caughtUp, broken, owed, got>>

Frame == [ev : Event, replayed : BOOLEAN]

RecentLog == {log[i] : i \in {j \in 1 .. Len(log) : j > Len(log) - Keep}}

Init ==
    /\ log = <<>>
    /\ audience = {} /\ caughtUp = {} /\ broken = {}
    /\ owed = [c \in Client |-> {}]
    /\ got = [c \in Client |-> <<>>]

Publish(e) ==
    /\ log' = IF e.store THEN Append(log, e) ELSE log
    /\ owed' = [c \in Client |->
                  IF c \in audience
                  THEN owed[c] \cup {[ev |-> e, replayed |-> FALSE]}
                  ELSE owed[c]]
    /\ UNCHANGED <<audience, caughtUp, broken, got>>

Join(c) ==
    /\ c \notin audience \cup broken
    /\ audience' = audience \cup {c}
    /\ UNCHANGED <<log, caughtUp, broken, owed, got>>

CatchUp(c) ==
    /\ c \notin caughtUp
    /\ caughtUp' = caughtUp \cup {c}
    /\ owed' = [owed EXCEPT ![c] = @ \cup {[ev |-> e, replayed |-> TRUE] : e \in RecentLog}]
    /\ UNCHANGED <<log, audience, broken, got>>

Deliver(c) ==
    /\ \E f \in owed[c] :
          /\ got' = [got EXCEPT ![c] = Append(@, f)]
          /\ owed' = [owed EXCEPT ![c] = @ \ {f}]
    /\ UNCHANGED <<log, audience, caughtUp, broken>>

LoseLive(c) ==
    /\ \E f \in owed[c] : ~f.replayed /\ owed' = [owed EXCEPT ![c] = @ \ {f}]
    /\ UNCHANGED <<log, audience, caughtUp, broken, got>>

\* The connection breaks, or is broken: what it is owed may be lost.
Break(c) ==
    /\ broken' = broken \cup {c}
    /\ owed'[c] \subseteq owed[c]
    /\ owed' = [owed EXCEPT ![c] = owed'[c]]
    /\ UNCHANGED <<log, audience, caughtUp, got>>

Leave(c) ==
    /\ c \in broken
    /\ audience' = audience \ {c}
    /\ UNCHANGED <<log, caughtUp, broken, owed, got>>

Next ==
    \/ \E e \in Event : Publish(e)
    \/ \E c \in Client :
          Join(c) \/ CatchUp(c) \/ Deliver(c) \/ LoseLive(c) \/ Break(c) \/ Leave(c)

Spec == Init /\ [][Next]_vars
=============================================================================
