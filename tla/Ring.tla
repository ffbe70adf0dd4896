-------------------------------- MODULE Ring --------------------------------
(***************************************************************************)
(* The replay ring of the hub (internal/ui/hub.go): a fixed array of       *)
(* events, the index of the slot to be written next and a flag that says   *)
(* whether the array has wrapped.  Every access happens under Hub.mu, so   *)
(* Store and Snapshot are atomic.                                          *)
(*                                                                         *)
(* The history variable "stored" is not in the code: it is the sequence of *)
(* all events ever stored, against which the ring is judged.               *)
(***************************************************************************)
EXTENDS Integers, Sequences

CONSTANTS
    RingSize,   \* --buffer: number of slots
    NoEvent     \* the zero event.Event that make() leaves in every slot

\* NewHub does not validate ringSize; with 0 the first Store divides by zero.
ASSUME RingSizeAssumption == RingSize \in Nat \ {0}

VARIABLES
    ring,
    ringHead,
    ringFilled,
    stored      \* history: everything Store was ever given

ringVars == <<ring, ringHead, ringFilled, stored>>

Slots == 0 .. RingSize - 1

RingInit ==
    /\ ring = [i \in Slots |-> NoEvent]
    /\ ringHead = 0
    /\ ringFilled = FALSE
    /\ stored = <<>>

\* Mutant of Store: the head is not wrapped.
StoreUnwrapped(ev) ==
    /\ ring' = [ring EXCEPT ![ringHead] = ev]
    /\ ringHead' = ringHead + 1
    /\ ringFilled' = (ringFilled \/ ringHead' = RingSize)
    /\ stored' = Append(stored, ev)

\* The critical section of Hub.send for store = true.
Store(ev) ==
    /\ ring' = [ring EXCEPT ![ringHead] = ev]
    /\ ringHead' = (ringHead + 1) % RingSize
    /\ ringFilled' = (ringFilled \/ ringHead' = 0)
    /\ stored' = Append(stored, ev)

\* Mutant of Snapshot: a wrapped array is copied from its first slot on.
SnapshotUnrotated ==
    [i \in 1 .. (IF ringFilled THEN RingSize ELSE ringHead) |-> ring[i - 1]]

\* Hub.snapshot: the slots before the head, after those from the head on
\* once the array has wrapped (the two copy calls).
Snapshot ==
    IF ~ringFilled
    THEN [i \in 1 .. ringHead |-> ring[i - 1]]
    ELSE [i \in 1 .. RingSize |->
            IF i <= RingSize - ringHead
            THEN ring[ringHead + i - 1]
            ELSE ring[i - 1 - (RingSize - ringHead)]]

\* What a replay should hold: the last RingSize of the first n stored events.
Recent(n) ==
    SubSeq(stored, IF n > RingSize THEN n - RingSize + 1 ELSE 1, n)

(***************************************************************************)
(* The ring holds exactly the recent history, oldest first: wrapping,      *)
(* overwriting and the two-part copy in snapshot lose, repeat and reorder  *)
(* nothing (hub.go, send and snapshot).                                    *)
(***************************************************************************)
RingHoldsRecentHistory == Snapshot = Recent(Len(stored))
=============================================================================
