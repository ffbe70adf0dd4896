-------------------------------- MODULE Hub ---------------------------------
(***************************************************************************)
(* The hub (internal/ui/hub.go) and the WebSocket handler                  *)
(* (internal/ui/server.go, wsHandler): how an event travels from the       *)
(* goroutines that broadcast it to the browser connections.                *)
(*                                                                         *)
(* A broadcast has three steps: the counter, the critical section under    *)
(* Hub.mu (ring and copy of the client set) and, after the unlock, one     *)
(* non-blocking send per copied client.  A connection is served by three   *)
(* goroutines: the handler itself (the writer loop and the deferred        *)
(* clean-up), the reader that detects a close, and the replay that pushes  *)
(* the snapshot into the same channel as the live frames.                  *)
(*                                                                         *)
(* Critical sections of Hub.mu are single actions: no other step touches   *)
(* what the mutex protects.  A json.Marshal failure, a failed upgrade and  *)
(* a successful ping change no state and are left out.                     *)
(***************************************************************************)
EXTENDS Ring, FiniteSets, Functions

CONSTANTS
    Producer,   \* goroutines that broadcast: tap ingest, watcher, hook requests
    Watcher,    \* those of them that also send transient dirchange events
    Client,     \* connections; each is used once
    SendCap,    \* capacity of client.send (1024)
    MaxEvents   \* bound on the number of broadcasts

ASSUME HubAssumption ==
    /\ Watcher \subseteq Producer
    /\ IsFiniteSet(Producer) /\ IsFiniteSet(Client)
    /\ SendCap \in Nat \ {0}
    /\ MaxEvents \in Nat

VARIABLES
    clients,        \* Hub.clients
    bcastCount, deliverCount, dropCount,
    spc,            \* where each producer is in Hub.send
    sev,            \* the event it is sending
    targets,        \* copied clients it has still to offer the event to
    queue,          \* client.send
    hpc,            \* where each connection's handler is
    hand,           \* the frame the writer loop has taken, at most one
    done,           \* the reader goroutine has closed "done"
    replay,         \* where each replay goroutine is
    backlog,        \* the part of its snapshot it has still to push
    written,        \* history: frames written to the connection
    dropped,        \* history: events dropped because the channel was full
    offered,        \* history: frames the broadcasts had to offer
    regAt, snapAt   \* history: Len(stored) at register and at snapshot

sendVars == <<bcastCount, spc, sev>>
fanVars  == <<targets, deliverCount, dropCount, dropped, offered>>
connVars == <<hpc, hand, done, written>>
playVars == <<replay, backlog, snapAt>>
vars == <<ringVars, clients, sendVars, fanVars, connVars, playVars, queue, regAt>>

\* An event is known by its place in the order of broadcasts; "during" (not in
\* the code) tells which others were being broadcast when its own began.
Event == [id : 1 .. MaxEvents, from : Producer, store : BOOLEAN, during : SUBSET (1 .. MaxEvents)]
\* A queued frame; "replayed" (not in the code) says which path it took.
Frame == [ev : Event, replayed : BOOLEAN]

Live(e) == [ev |-> e, replayed |-> FALSE]
Replayed(e) == [ev |-> e, replayed |-> TRUE]

NoFrames == [c \in Client |-> <<>>]
Nowhere  == [c \in Client |-> 0]

Init ==
    /\ RingInit
    /\ clients = {}
    /\ bcastCount = 0 /\ deliverCount = 0 /\ dropCount = 0 /\ offered = 0
    /\ spc = [p \in Producer |-> "idle"]
    /\ sev = [p \in Producer |-> NoEvent]
    /\ targets = [p \in Producer |-> {}]
    /\ queue = NoFrames /\ hand = NoFrames /\ backlog = NoFrames /\ written = NoFrames
    /\ hpc = [c \in Client |-> "new"]
    /\ replay = [c \in Client |-> "none"]
    /\ done = [c \in Client |-> FALSE]
    /\ dropped = [c \in Client |-> {}]
    /\ regAt = Nowhere /\ snapAt = Nowhere

-----------------------------------------------------------------------------
(* Broadcasting: Hub.send, called by Ingest, the watcher and the hooks.    *)

\* The tap and the hooks only call broadcast.  The watcher sends a transient
\* dirchange per event and then, for some kinds, one stored event.
MaySend(p, store) ==
    IF p \in Watcher
    THEN store => (sev[p] # NoEvent /\ ~sev[p].store)
    ELSE store

\* The broadcasts under way.
Sending == {sev[p].id : p \in {q \in Producer : spc[q] # "idle"}}

SendBegin(p, store) ==
    /\ spc[p] = "idle"
    /\ MaySend(p, store)
    /\ bcastCount < MaxEvents
    /\ bcastCount' = bcastCount + 1
    /\ sev' = [sev EXCEPT ![p] = [id |-> bcastCount + 1, from |-> p, store |-> store,
                                  during |-> Sending]]
    /\ spc' = [spc EXCEPT ![p] = "counted"]
    /\ UNCHANGED <<ringVars, clients, fanVars, connVars, playVars, queue, regAt>>

\* Mutant of SendLocked: to avoid duplicates, skip clients still in replay.
SendLockedCaughtUp(p) ==
    /\ spc[p] = "counted"
    /\ IF sev[p].store THEN Store(sev[p]) ELSE UNCHANGED ringVars
    /\ targets' = [targets EXCEPT ![p] = {c \in clients : replay[c] = "ended"}]
    /\ offered' = offered + Cardinality(targets'[p])
    /\ spc' = [spc EXCEPT ![p] = "fanout"]
    /\ UNCHANGED <<clients, bcastCount, sev, deliverCount, dropCount, dropped,
                   connVars, playVars, queue, regAt>>

\* h.mu.Lock() ... h.mu.Unlock()
SendLocked(p) ==
    /\ spc[p] = "counted"
    /\ IF sev[p].store THEN Store(sev[p]) ELSE UNCHANGED ringVars
    /\ targets' = [targets EXCEPT ![p] = clients]
    /\ offered' = offered + Cardinality(clients)
    /\ spc' = [spc EXCEPT ![p] = "fanout"]
    /\ UNCHANGED <<clients, bcastCount, sev, deliverCount, dropCount, dropped,
                   connVars, playVars, queue, regAt>>

\* Mutant of SendTo: no default branch, a full channel is waited for.
SendToBlocking(p, c) ==
    /\ c \in targets[p]
    /\ Len(queue[c]) < SendCap
    /\ targets' = [targets EXCEPT ![p] = @ \ {c}]
    /\ queue' = [queue EXCEPT ![c] = Append(@, Live(sev[p]))]
    /\ deliverCount' = deliverCount + 1
    /\ UNCHANGED <<ringVars, clients, sendVars, dropCount, dropped, offered, connVars,
                   playVars, regAt>>

\* Mutant of SendTo: a full channel is counted as a drop, then tried again.
SendToRetrying(p, c) ==
    /\ c \in targets[p]
    /\ \/ /\ Len(queue[c]) < SendCap
          /\ targets' = [targets EXCEPT ![p] = @ \ {c}]
          /\ queue' = [queue EXCEPT ![c] = Append(@, Live(sev[p]))]
          /\ deliverCount' = deliverCount + 1
          /\ UNCHANGED <<dropCount, dropped>>
       \/ /\ Len(queue[c]) = SendCap
          /\ dropCount' = dropCount + 1
          /\ UNCHANGED <<targets, queue, deliverCount, dropped>>
    /\ UNCHANGED <<ringVars, clients, sendVars, offered, connVars, playVars, regAt>>

\* select { case c.send <- data: ... default: ... }, in map iteration order.
SendTo(p, c) ==
    /\ c \in targets[p]
    /\ targets' = [targets EXCEPT ![p] = @ \ {c}]
    /\ \/ /\ Len(queue[c]) < SendCap
          /\ queue' = [queue EXCEPT ![c] = Append(@, Live(sev[p]))]
          /\ deliverCount' = deliverCount + 1
          /\ UNCHANGED <<dropCount, dropped>>
       \/ /\ Len(queue[c]) = SendCap
          /\ dropCount' = dropCount + 1
          /\ dropped' = [dropped EXCEPT ![c] = @ \cup {sev[p]}]
          /\ UNCHANGED <<queue, deliverCount>>
    /\ UNCHANGED <<ringVars, clients, sendVars, offered, connVars, playVars, regAt>>

\* Mutant of SendEnd: send returns while the loop goes on in a goroutine.
SendEndEarly(p) ==
    /\ spc[p] = "fanout"
    /\ spc' = [spc EXCEPT ![p] = "idle"]
    /\ UNCHANGED <<ringVars, clients, bcastCount, sev, fanVars, connVars, playVars,
                   queue, regAt>>

SendEnd(p) ==
    /\ spc[p] = "fanout"
    /\ targets[p] = {}
    /\ spc' = [spc EXCEPT ![p] = "idle"]
    /\ UNCHANGED <<ringVars, clients, bcastCount, sev, fanVars, connVars, playVars,
                   queue, regAt>>

-----------------------------------------------------------------------------
(* The handler of one connection.                                          *)

\* After the upgrade: hub.register(c), then the two go statements.
Register(c) ==
    /\ hpc[c] = "new"
    /\ clients' = clients \cup {c}
    /\ hpc' = [hpc EXCEPT ![c] = "serving"]
    /\ replay' = [replay EXCEPT ![c] = "start"]
    /\ regAt' = [regAt EXCEPT ![c] = Len(stored)]
    /\ UNCHANGED <<ringVars, sendVars, fanVars, hand, done, written, backlog,
                   snapAt, queue>>

\* Mutant of ReaderEnd: the reader returns without close(done).
ReaderEndSilent(c) ==
    /\ hpc[c] # "new"
    /\ UNCHANGED vars

\* NextReader fails: the peer went away at any moment, or conn.Close ran.
ReaderEnd(c) ==
    /\ hpc[c] # "new"
    /\ ~done[c]
    /\ done' = [done EXCEPT ![c] = TRUE]
    /\ UNCHANGED <<ringVars, clients, sendVars, fanVars, hpc, hand, written,
                   playVars, queue, regAt>>

\* The writer loop's select: <-done ...
WriterDone(c) ==
    /\ hpc[c] = "serving"
    /\ done[c]
    /\ hpc' = [hpc EXCEPT ![c] = "leaving"]
    /\ UNCHANGED <<ringVars, clients, sendVars, fanVars, hand, done, written,
                   playVars, queue, regAt>>

\* ... msg := <-c.send, which starts a WriteMessage ...
WriterTake(c) ==
    /\ hpc[c] = "serving"
    /\ queue[c] # <<>>
    /\ hand' = [hand EXCEPT ![c] = <<Head(queue[c])>>]
    /\ queue' = [queue EXCEPT ![c] = Tail(@)]
    /\ hpc' = [hpc EXCEPT ![c] = "writing"]
    /\ UNCHANGED <<ringVars, clients, sendVars, fanVars, done, written, playVars, regAt>>

\* ... that succeeds ...
WriterWrite(c) ==
    /\ hpc[c] = "writing"
    /\ written' = [written EXCEPT ![c] = @ \o hand[c]]
    /\ hand' = [hand EXCEPT ![c] = <<>>]
    /\ hpc' = [hpc EXCEPT ![c] = "serving"]
    /\ UNCHANGED <<ringVars, clients, sendVars, fanVars, done, playVars, queue, regAt>>

\* Mutant of WriterFail: a failed write is logged and the loop goes on.
WriterFailIgnored(c) ==
    /\ hpc[c] \in {"serving", "writing"}
    /\ hand' = [hand EXCEPT ![c] = <<>>]
    /\ hpc' = [hpc EXCEPT ![c] = "serving"]
    /\ UNCHANGED <<ringVars, clients, sendVars, fanVars, done, written, playVars,
                   queue, regAt>>

\* ... or fails (deadline, broken connection); or <-ticker.C and a ping fails.
WriterFail(c) ==
    /\ hpc[c] \in {"serving", "writing"}
    /\ hand' = [hand EXCEPT ![c] = <<>>]
    /\ hpc' = [hpc EXCEPT ![c] = "leaving"]
    /\ UNCHANGED <<ringVars, clients, sendVars, fanVars, done, written, playVars,
                   queue, regAt>>

\* The deferred hub.unregister(c) ...
Unregister(c) ==
    /\ hpc[c] = "leaving"
    /\ clients' = clients \ {c}
    /\ hpc' = [hpc EXCEPT ![c] = "unregistered"]
    /\ UNCHANGED <<ringVars, sendVars, fanVars, hand, done, written, playVars,
                   queue, regAt>>

\* ... and conn.Close().
CloseConn(c) ==
    /\ hpc[c] = "unregistered"
    /\ hpc' = [hpc EXCEPT ![c] = "closed"]
    /\ UNCHANGED <<ringVars, clients, sendVars, fanVars, hand, done, written,
                   playVars, queue, regAt>>

-----------------------------------------------------------------------------
(* The replay goroutine of one connection.                                 *)

ReplaySnapshot(c) ==
    /\ replay[c] = "start"
    /\ replay' = [replay EXCEPT ![c] = "sending"]
    /\ backlog' = [backlog EXCEPT ![c] = Snapshot]
    /\ snapAt' = [snapAt EXCEPT ![c] = Len(stored)]
    /\ UNCHANGED <<ringVars, clients, sendVars, fanVars, connVars, queue, regAt>>

\* Mutant of ReplaySend: the send of the replay has a default branch too.
ReplaySendDropping(c) ==
    /\ replay[c] = "sending"
    /\ backlog[c] # <<>>
    /\ queue' = IF Len(queue[c]) < SendCap
                THEN [queue EXCEPT ![c] = Append(@, Replayed(Head(backlog[c])))]
                ELSE queue
    /\ backlog' = [backlog EXCEPT ![c] = Tail(@)]
    /\ UNCHANGED <<ringVars, clients, sendVars, fanVars, connVars, replay, snapAt, regAt>>

\* case c.send <- data: waits for room in the channel.
ReplaySend(c) ==
    /\ replay[c] = "sending"
    /\ backlog[c] # <<>>
    /\ Len(queue[c]) < SendCap
    /\ queue' = [queue EXCEPT ![c] = Append(@, Replayed(Head(backlog[c])))]
    /\ backlog' = [backlog EXCEPT ![c] = Tail(@)]
    /\ UNCHANGED <<ringVars, clients, sendVars, fanVars, connVars, replay, snapAt, regAt>>

\* Mutant of ReplayAbort: the replay gives up without waiting for "done".
ReplayAbortEarly(c) ==
    /\ replay[c] = "sending"
    /\ backlog[c] # <<>>
    /\ Len(queue[c]) = SendCap
    /\ replay' = [replay EXCEPT ![c] = "ended"]
    /\ backlog' = [backlog EXCEPT ![c] = <<>>]
    /\ UNCHANGED <<ringVars, clients, sendVars, fanVars, connVars, snapAt, queue, regAt>>

\* case <-done: return
ReplayAbort(c) ==
    /\ replay[c] = "sending"
    /\ backlog[c] # <<>>
    /\ done[c]
    /\ replay' = [replay EXCEPT ![c] = "ended"]
    /\ backlog' = [backlog EXCEPT ![c] = <<>>]
    /\ UNCHANGED <<ringVars, clients, sendVars, fanVars, connVars, snapAt, queue, regAt>>

ReplayFinish(c) ==
    /\ replay[c] = "sending"
    /\ backlog[c] = <<>>
    /\ replay' = [replay EXCEPT ![c] = "ended"]
    /\ UNCHANGED <<ringVars, clients, sendVars, fanVars, connVars, backlog, snapAt,
                   queue, regAt>>

-----------------------------------------------------------------------------
Producing(p) ==
    \/ \E store \in BOOLEAN : SendBegin(p, store)
    \/ SendLocked(p)
    \/ \E c \in Client : SendTo(p, c)
    \/ SendEnd(p)

Serving(c) ==
    \/ Register(c)
    \/ ReaderEnd(c)
    \/ WriterDone(c) \/ WriterTake(c) \/ WriterWrite(c) \/ WriterFail(c)
    \/ Unregister(c) \/ CloseConn(c)

Replaying(c) ==
    ReplaySnapshot(c) \/ ReplaySend(c) \/ ReplayAbort(c) \/ ReplayFinish(c)

Next ==
    \/ \E p \in Producer : Producing(p)
    \/ \E c \in Client : Serving(c) \/ Replaying(c)

Spec == Init /\ [][Next]_vars
-----------------------------------------------------------------------------
(* Fairness.  The Go scheduler runs every runnable goroutine; nothing is   *)
(* assumed of the peers, of new events or of new connections.              *)

ProducerFairness ==
    \A p \in Producer :
        /\ WF_vars(SendLocked(p))
        /\ WF_vars(\E c \in Client : SendTo(p, c))
        /\ WF_vars(SendEnd(p))

\* WriteMessage returns within its 10 s deadline; conn.Close makes NextReader
\* fail.  A goroutine blocked on a full channel is served first when a slot
\* becomes free (the runtime's FIFO of waiting senders): SF for ReplaySend.
ConnFairness ==
    \A c \in Client :
        /\ WF_vars(WriterDone(c)) /\ WF_vars(WriterTake(c))
        /\ WF_vars(WriterWrite(c) \/ (hpc[c] = "writing" /\ WriterFail(c)))
        /\ WF_vars(Unregister(c)) /\ WF_vars(CloseConn(c))
        /\ WF_vars(hpc[c] = "closed" /\ ReaderEnd(c))
        /\ WF_vars(ReplaySnapshot(c)) /\ SF_vars(ReplaySend(c))
        /\ WF_vars(ReplayAbort(c)) /\ WF_vars(ReplayFinish(c))

FairSpec == Spec /\ ProducerFairness /\ ConnFairness

-----------------------------------------------------------------------------
(* Slots, channels and histories hold events and frames that were sent.    *)
TypeOK ==
    /\ ring \in [Slots -> Event \cup {NoEvent}]
    /\ ringHead \in Slots /\ ringFilled \in BOOLEAN
    /\ stored \in Seq(Event)
    /\ clients \subseteq Client
    /\ bcastCount \in 0 .. MaxEvents /\ deliverCount \in Nat /\ dropCount \in Nat /\ offered \in Nat
    /\ spc \in [Producer -> {"idle", "counted", "fanout"}]
    /\ sev \in [Producer -> Event \cup {NoEvent}]
    /\ targets \in [Producer -> SUBSET Client]
    /\ queue \in [Client -> Seq(Frame)]
    /\ hand \in [Client -> Seq(Frame)]
    /\ written \in [Client -> Seq(Frame)]
    /\ backlog \in [Client -> Seq(Event)]
    /\ hpc \in [Client ->
          {"new", "serving", "writing", "leaving", "unregistered", "closed"}]
    /\ replay \in [Client -> {"none", "start", "sending", "ended"}]
    /\ done \in [Client -> BOOLEAN]
    /\ dropped \in [Client -> SUBSET Event]
    /\ regAt \in [Client -> Nat] /\ snapAt \in [Client -> Nat]

\* Neither the peer nor the network has failed yet.
Intact(c) == hpc[c] \in {"serving", "writing"} /\ ~done[c]

HasSnapshot(c) == replay[c] \in {"sending", "ended"}

ReplayFrames(evs) == [i \in DOMAIN evs |-> Replayed(evs[i])]

\* All frames of a connection in the order in which the peer gets them.
Stream(c) == written[c] \o hand[c] \o queue[c] \o ReplayFrames(backlog[c])

\* The replayed frames of s are those of the events evs, all of them and in order.
Replays(s, evs) ==
    \E at \in [DOMAIN evs -> DOMAIN s] :
        /\ \A j, k \in DOMAIN evs : j < k => at[j] < at[k]
        /\ \A k \in DOMAIN evs : s[at[k]] = Replayed(evs[k])
        /\ \A i \in DOMAIN s : s[i].replayed => \E k \in DOMAIN evs : i = at[k]

InStream(c, e) == \E i \in DOMAIN Stream(c) : Stream(c)[i].ev = e

Offering(c, e) == \E p \in Producer : c \in targets[p] /\ sev[p] = e

(***************************************************************************)
(* There is no gap between replay and live delivery (wsHandler registers   *)
(* before the replay goroutine takes its snapshot): on an intact           *)
(* connection every event that was in the ring at the snapshot or was      *)
(* stored later has reached the peer's stream, is still being offered, or  *)
(* was dropped because the channel was full.                               *)
(***************************************************************************)
NoGap ==
    \A c \in Client : Intact(c) /\ HasSnapshot(c) =>
        \A i \in 1 .. Len(stored) : i > snapAt[c] - RingSize =>
            \/ InStream(c, stored[i])
            \/ stored[i] \in dropped[c]
            \/ Offering(c, stored[i])

(***************************************************************************)
(* Replay is complete and in order (the blocking send of the replay        *)
(* goroutine): whatever the live frames around them, the replayed frames   *)
(* of an intact connection are the recent history at the snapshot.         *)
(***************************************************************************)
ReplayIntact ==
    \A c \in Client : Intact(c) /\ HasSnapshot(c) =>
        Replays(Stream(c), Recent(snapAt[c]))

\* The broadcast of e had ended when that of f began.
Precedes(e, f) == e.id < f.id /\ (e.from = f.from \/ e.id \notin f.during)

(***************************************************************************)
(* Broadcasts that do not overlap, those of one producer among them, are   *)
(* stored in their order and reach every connection in their order:        *)
(* Hub.send stores under the mutex and finishes its loop over the clients  *)
(* before it returns.  Claude waits for each hook command, so the page     *)
(* sees its events in the order they happened.  Overlapping ones have no   *)
(* order, and connections may differ in theirs.                            *)
(***************************************************************************)
BroadcastOrder ==
    /\ \A j \in DOMAIN stored : \A i \in 1 .. j - 1 : ~Precedes(stored[j], stored[i])
    /\ \A c \in Client : \A j \in DOMAIN Stream(c) : \A i \in 1 .. j - 1 :
           LET f == Stream(c)[i]
               g == Stream(c)[j]
           IN  ~f.replayed /\ ~g.replayed => ~Precedes(g.ev, f.ev)

\* Who has still to offer its event to whom.
StillToOffer == {pc \in Producer \X Client : pc[2] \in targets[pc[1]]}

(***************************************************************************)
(* The debug counters add up: every frame a broadcast had to offer was     *)
(* counted as delivered or dropped, once, or is still to be offered.       *)
(***************************************************************************)
FramesConserved == offered = deliverCount + dropCount + Cardinality(StillToOffer)

\* The frames on their way to a connection.
Pending(c) ==
    Range(queue[c]) \cup Range(hand[c]) \cup Range(ReplayFrames(backlog[c]))
        \cup {Live(sev[p]) : p \in {q \in Producer : c \in targets[q]}}

Feed == INSTANCE Feed WITH
    Keep     <- RingSize,
    log      <- stored,
    audience <- clients,
    caughtUp <- {c \in Client : HasSnapshot(c)},
    broken   <- {c \in Client : hpc[c] # "new" /\ ~Intact(c)},
    owed     <- [c \in Client |-> Pending(c)],
    got      <- written

(***************************************************************************)
(* The hub and its handlers implement the abstract feed: every broadcast   *)
(* is owed to exactly the registered connections, the snapshot is owed     *)
(* once, nothing is invented or written twice, replayed frames are lost    *)
(* only with the connection, and a connection that has left the client set *)
(* is owed nothing new, whatever copies of the set are still in use.       *)
(***************************************************************************)
FeedSpec == Feed!Spec

(***************************************************************************)
(* A broadcast never waits for a connection: it ends even when a channel   *)
(* it was copied is full and its handler has left, so that nobody drains   *)
(* it any more (the default branch of Hub.send).                           *)
(***************************************************************************)
BroadcastEnds ==
    \A p \in Producer : spc[p] = "counted" ~> spc[p] = "idle"

(***************************************************************************)
(* No replay goroutine leaks: each ends, by pushing its whole snapshot or  *)
(* because "done" is closed behind the handler that returned.              *)
(***************************************************************************)
ReplayGoroutineEnds ==
    \A c \in Client : replay[c] = "start" ~> replay[c] = "ended"

(***************************************************************************)
(* Every event offered to a connection is written to it as a live frame,   *)
(* unless it is dropped at a full channel or the connection ends.          *)
(***************************************************************************)
OfferedIsSettled ==
    \A c \in Client, n \in 1 .. MaxEvents :
        (\E p \in Producer : c \in targets[p] /\ sev[p].id = n)
            ~> \/ \E i \in DOMAIN written[c] :
                      ~written[c][i].replayed /\ written[c][i].ev.id = n
               \/ \E e \in dropped[c] : e.id = n
               \/ hpc[c] = "closed"
=============================================================================
