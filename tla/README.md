# A verification development for agentflash

agentflash shows in a browser what happens below a directory: a privileged
*tap* and a directory watcher report file activity, Claude Code's hooks report
what Claude does, a *hub* in the server keeps the last events and pushes them
to every connected page over a WebSocket. This directory holds TLA+ models of
the parts where order, loss and concurrency decide, configurations that check
them with TLC, and theorems about them that TLAPS checks.

Line numbers refer to the repository: `hub.go`, `server.go`, `claudehook.go`,
`tree.go`, `spawn.go` are in `internal/ui/`, `app.js` and `index.html` in `web/`,
`tap_linux.go` and its neighbours in `internal/tap/`, `event.go` in
`internal/event/`.

## 1. Inventory

| Component | State | Operations | Talks to |
|---|---|---|---|
| Tap on Linux (`internal/tap`) | read buffer, leftover bytes, descriptors, name cache, exclusions | read kernel events, filter, write NDJSON | fanotify; its stdout, a pipe to the server |
| Tap on macOS (`internal/tap`) | a child, fs_usage, with a pipe | read and parse lines, filter, write NDJSON | fs_usage; its stdout |
| Lifecycle (`main.go`, `spawn.go`, `server.go` Run) | sudo child, context | spawn, ingest, serve, stop | all server goroutines |
| Event codec (`internal/event`) | scanner buffer | encode, decode a line | tap, Ingest |
| Watcher (`treewatch.go`, `server.go` 91-142) | two channels of 256, dedupe map | forward, classify, suppress, announce | notify library; hub |
| Hub (`hub.go`) | ring, head, wrap flag, client set, counters | broadcast, register, unregister, snapshot | producers (tap ingest, watcher, hook requests), connections |
| WebSocket handler (`server.go` 175-243) | one channel of 1024 per connection | writer loop, reader, replay, clean-up | hub; browser |
| Hook endpoint (`claudehook.go`) | none | map a hook payload to an event | Claude's hook commands; hub |
| Tree endpoint (`tree.go`) | none | list one directory | browser |
| Browser tree (`app.js` 519-786) | rows, `state.nodes`, pending refreshes, loops | notice, refresh, reconcile, toggle, expand, collapse, sweep | tree endpoint; notices |
| Page and pill (`app.js` 66-214) | timeline, label, idle timer, tool count | onConnect, handleClaudeEvent, idle timer | WebSocket, `/api/info` |
| Timeline canvas (`app.js` 280-465) | none of its own | draw | page state |
| Hook installer (`main.go` 60-206) | Claude's settings file | read, merge, write | the user, Claude, other instances |

What is hard: three kinds of goroutine share a channel without a lock; the
client set is copied and used after the unlock; a replay and live frames
interleave; the browser awaits a fetch with a node in hand that another handler
may remove; notices are transient and dropped silently when a channel is full;
timers race with events; a settings file that others write is read, merged and
truncated without a lock. What makes each component correct:

* **Ring**: a snapshot is exactly the recent history.
* **Hub and handler**: no gap between replay and live frames, the replay whole
  and in order, broadcasts that do not overlap in their order, losses counted and only at a
  full channel or with the connection, no producer ever blocked by a browser,
  no goroutine left behind.
* **Watcher**: a burst is announced, once per window.
* **Tree**: never stale for good, rows and registry agree, a refresh does not
  disturb what the user has opened.
* **Pill**: label and timer agree, the label is true on a page that saw
  everything, a stop ends on "waiting".
* **Installer**: what is not agentflash's survives, an address is there once,
  applying again changes nothing, a broken file is left alone.
* **Tap**: every descriptor closed once and no access lost but in an overflow,
  except those of a read that does not parse (section 4); no access doubled or
  reordered, nothing shown that should be filtered or the reverse, no report of
  an access of its own.
* **Lifecycle**: the end of the tap is noticed, the end of the server ends the
  tap, Ctrl-C ends everything.
* **Paths**: tap, watcher, browser, tree and hook endpoint agree on what lies
  inside the watched directory, and a notice names the directory that changed.

## 2. Modules

| Module | Models | Built on |
|---|---|---|
| `Ring` | the ring array of the hub | |
| `Feed` | what the hub promises (abstract) | |
| `Hub` | broadcasting and the connections | `Ring`, implements `Feed` |
| `TreeView` | the live tree: disk, notices, requests, browser | |
| `Watch` | from a change on disk to an announcement | |
| `Page` | the page's stream, `onConnect`, pill | takes over what `Feed` and `BroadcastOrder` promise |
| `Hooks` | the installer among other writers of the file | |
| `TapLinux` | from a file access to the hub's log, on Linux | |
| `Session` | server, sudo, tap and fs_usage, and how they end | |
| `Paths` | the path predicates, composed as the program composes them | |
| `Selection` | the loop that keeps a list's elements of a set, in a form that can be proved about | used by `TreeView`, `Hooks` |
| `HubProofs` | theorems about ring and hub: gap, order, counters, refinement of `Feed` | `Ring`, `Hub`, `Feed` |
| `TreeProofs`, `WatchProofs`, `PageProofs`, `TapProofs`, `HooksProofs`, `PathsProofs` | theorems about the module of that name | `TreeView`, `Watch`, `Page`, `TapLinux`, `Hooks`, `Paths`; `TapProofs` also speaks of `Session` |
| `SequenceInduction` | induction over sequences and loops over them, for the proofs | |
| `MC*` | constants for TLC | one per specification |

### Hub, Ring, Feed

`Hub.send` is three actions: `SendBegin` (counter), `SendLocked` (the critical
section: store, copy the clients), then one `SendTo` per copied client in any
order and `SendEnd`. What `Hub.mu` protects is touched by nothing else, so a
critical section is one action. A connection is `Register`, then three
goroutines: the handler (`hpc`: `WriterTake`, `WriterWrite`, `WriterFail`,
`WriterDone`, then the deferred `Unregister` and `CloseConn`), the reader
(`ReaderEnd`, which closes `done`) and the replay (`ReplaySnapshot`,
`ReplaySend`, `ReplayAbort`, `ReplayFinish`). The peer may go away at any time.
A frame carries a mark that says whether it was replayed, an event the broadcasts
that were under way when its own began (`during`); the code has neither, the
properties need them. With `during`, `BroadcastOrder` can say what a mutex and a
loop that ends before `send` returns are worth: of two broadcasts that do not
overlap, the later is stored later and never reaches a connection first, whoever
makes them. Overlapping ones have no order, and two connections, or a connection
and the ring, may see them differently. `Feed` has a log, an audience and the frames owed to
and got by each connection; the refinement maps what is owed to the frames in
the channel, in the writer's hand, in the backlog and in unfinished fan-outs.

### TreeView

Every node object that was ever made has an identity, because an answer may
still be applied to a row that has left the page (`node`, `reg` is
`state.nodes`). A fetch is three steps: sent, read by the server (`Read`),
applied (`Deliver`). `expandAll` and `refreshAllExpanded` are loops that
continue when their own request is answered (`then`). `skipped`
remembers the nodes that were collapsed when their last refresh was due: the code
forgets such a refresh, so this is the one exception in `StalenessIsCovered` and
`SettlesUnlessSkipped`. Three constants switch
on surroundings the code does not cope with:

| Constant | What it allows | What then fails |
|---|---|---|
| `Lossy` | a notice is lost: a full channel, or a change while the socket is down | `StalenessIsCovered`, `SettlesUnlessSkipped`, and the refresh button does not repair it (`SweepNext`) |
| `Reorder` | two fetches of one directory are read or answered in the opposite order | `StalenessIsCovered`, `RowsAreRegistered` |
| `Reuse` | a removed directory is created again | `StalenessIsCovered`, `SettlesUnlessSkipped`, from three changes on if `note` exists at first: the refresh that failed in between left the old children; `RowsAreRegistered`, from four changes on: a node that `expandAll` still has in its queue is expanded after its directory was purged and listed anew, and its answer registers a second node for each path |

With all three off the passing run `tree_settles` checks, and `TreeProofs`
proves for every tree of paths, that nothing else goes wrong, in every interleaving of changes, refreshes, clicks (expanding and
collapsing), loops and answers.

### Watch

`RawEvent` puts the library's event into the first channel or drops it,
`Forward` is the watcher's loop with its own silent drop, `Handle` one round of
the server's loop: suppress, or remember, purge and announce. Time is a clock of
ticks; window and purge age keep their order. The two broadcasts of an
announcement are one step here; `Hub` has them apart (`Watcher`, `MaySend`).

### Page

The stream is what the hub promises one connection: a channel that receives live
events and, from the snapshot on, the backlog, in any interleaving. A broadcast is
two steps, as in `Hub.send`: `Store` in the critical section, which also decides
that this connection will get the event, and some time later `Offer`, the send
that may find the channel full. So events that overlap reach the page in another
order than the ring has them in. Claude is an
environment: one session, prompts, tool calls that end with or without a hook,
stops with no tool in flight. Its hook command is a curl that Claude waits for
(main.go:68-69), and the handler answers when `broadcast` has returned
(claudehook.go:49-55); so no two of its hook events overlap (`Telling`), and by
`BroadcastOrder` they keep their order. (It waits 5 s, main.go:101; `broadcast`
never blocks, and a server that is not scheduled for that long is left out.) Tap and watcher have one broadcast each
under way (`Reporting`), anywhere between those. `InfoArrives` is the rest of `onConnect` after its
await. The timeline is the set of places of the log on show; duplicates of a
replay are not told apart. A restart of the server under another root is left out.

### Hooks

Each address is a command line that may be run again and again. A run is `Read`,
then `Refuse`, `UpToDate`, or `Truncate` and `Write`, since `os.WriteFile`
truncates first; `CutOff` ends it in between. Two runs that overlap in one file
may leave the end of the longer text behind (`broken`). `UserSaves` stands for
everybody else. `disturbed` remembers that a run overlapped another writer or
was cut off since the last save: the code has no lock and no atomic rename, so
this is where its promises end. The loop over the entries of an event is `Only`,
a recursive function, so that it can be reasoned about.

### TapLinux

| State, action | Code |
|---|---|
| `Happen`, `Move`, `Renamed`, `Exit` | the surroundings: accesses, renames, exec and pids used again, exits |
| `queue` with `Queued` | the fanotify queue: equal events are joined, a full queue takes one overflow event |
| `Fetch` | what every `dev.Read` does: events leave the queue, each with a descriptor |
| `Read` | a read that `parseFanotifyEvents` accepts: what was left over, then what was read; the last event may be left over again |
| `ReadFails` | one with a record shorter than its header (tap_linux.go:120-125, fanotify_linux.go:38-40): what was decoded and what was left over are thrown away with their descriptors (`discarded`), and the loop goes on |
| `Handle` | one round of the loop over the batch (tap_linux.go:128-175): raw dump, path of the descriptor, close, filter chain with `CommName` and its cache, report |
| `Write`, `BrokenPipe` | `Writer.Write` to stdout: waits for room, or SIGPIPE |
| `Ingest`, `CloseReader` | `Reader.Next` with `Hub.Ingest`; the end of the server |
| `IngestFails` | a line over 1 MB or that is not JSON: `Ingest` returns for good (hub.go:71-73) with the pipe still open (`refused`), so that it fills and `Write` waits for ever |

An access is recorded with the name and the place it had (`by`, `at`), which the
program does not know: it looks both up when it handles the event. `moved` and
`reused` remember where they may differ, and the two properties about filtering
speak of everything else. `lost`, `filtered` and `discarded` make `Accounted` an
equation. The kernel hands out whole events with whole headers;
`parseFanotifyEvents` relies on neither, and so does the model: a read may be cut
or fail to parse. Both at once are left out: the tap would then take the rest of the cut
event's bytes for the next event. Nor does the tap itself write a line that
`Ingest` cannot use; the code handles one, and so does the model. Abstracted: the operation of an event, the statistics,
the text of a line, and the lists of excluded names, which are data. With one
other process in the instance the cache is never emptied for its size; the
theorems cover that.

### Session

The processes and the pipe between them. `Report` is a write to the pipe of
which only the number of lines matters. sudo can be killed by its user only
while it asks for the password (`Killable`), for then it becomes root; the pipe's
write end is held by sudo and by the tap, so `IngestEnds` needs both to be gone.
`IngestFails` is the other way `Ingest` returns: the pipe stays open, and once it
is full the tap is `Stuck` with its next line, and misses even the end of
fs_usage.
`Stop` and `Exit` are the two halves of the function SpawnTap returns, `Returns`
the moment at which `Run` begins to run its defers, `Terminate` and `CtrlC` the
two kinds of signals: Ctrl-C reaches the whole terminal. `Crash` runs no defers.

### Paths

A path is a sequence of segments, so that "begins with" on text is a relation
`Extends` on names where the code tests text without a slash. The only state is
the raw path, which grows segment by segment; the invariants compare the parts
of the program on it. `Clean` is `path.Clean`, segment by segment (`Resolve`). `Served`
excludes the roots the predicates do not fit (`/`, and on macOS a root on the
data volume), see section 4.

## 3. Runs

| Run | Bounds | Shows |
|---|---|---|
| `hub_safety` | tap and watcher, 1 connection, ring 2, channel 1, 3 broadcasts | `TypeOK`, `RingHoldsRecentHistory`, `NoGap`, `ReplayIntact`, `BroadcastOrder`, `FramesConserved` |
| `hub_liveness` | ring 1, channel 1, 2 broadcasts | refinement `FeedSpec`, `BroadcastEnds`, `ReplayGoroutineEnds`, `OfferedIsSettled` |
| `tree_settles` | one subdirectory with a file, one file; 2 changes, 1 sweep | `StalenessIsCovered`, `RowsAreRegistered`, `RowsSurviveRefresh`, `SettlesUnlessSkipped` |
| `watch_dedupe` | 2 paths, channels of 2, 4 events, 6 instants, purge above 1 entry | `BurstIsAnnounced`, `OncePerWindow` |
| `page_pill` | 3 events, ring 2, 2 connections, 1 tool at a time | `TimerMatchesLabel`, `PillIsTruthful`, `StopIsShown`, `WorkingEnds` |
| `hooks_merge` | 2 addresses, 2 events, 9 files, any number of runs and saves | `UnrelatedKept`, `AppliedOnce`, `BrokenIsKept`, `ReapplyWritesNothing` |
| `tap_reports` | the server and one process, 2 names, 1 file and the dump file; queue 2, read 2, pipe 1; 2 accesses beside those of the dump file; 3 events in reads that do not parse | `DescriptorsOwned`, `Accounted`, `RightlyFiltered`, `ReportsAreRight`, `AccessIsSettled` |
| `session_ends` | both systems, root or not, pipe of 2 lines | `ServerEnds`, `OrphansEnd`, `TapEndIsSeen` |
| `paths_inside` | 7 segments, 5 roots, both systems, paths of up to 5 segments | `SameInside`, `NoticeListsDirectory` |
| `page_replay`, `hooks_mixed`, `session_tap_exit` | one property each | a counterexample, see section 4 |

Why the bounds are enough. Three broadcasts on a ring of two wrap it, a channel
of one is full as soon as one frame waits, two producers and one connection give
every overlap of two sends with a registration, a snapshot and a clean-up;
connections share nothing but the client set, so a second one adds no case to
properties that speak of one. Two changes are the least that make a refresh
stale while it is answered; a deeper directory would repeat the relation between
`""` and `docs`. Six instants hold two windows and a purge age, and a map that is
purged above one entry is purged at each second key. Three events and two
connections give a page that missed an event, was replayed it, and was sent it
twice. The state space of `Hooks` is finite by itself, that of `Session` but for
the pipe. In `TapLinux` a queue of two overflows at the second access behind the
tap's own dump, reads of two are cut in any place, and two reports fill a pipe
of one; a pid and a file change once, since a second change adds nothing to an
exception that is made already. Of the three events that reads may throw away at
most two occur, since only two accesses do: that bound is never reached. Five segments hold a root of two, a name below it, and two
of "", "." and ".." anywhere.

Each property of a passing run is shown to depend on the code: for each there is
a mutant, a definition beside the modelled one with a plausible slip (a swapped
order, a missing reset, a lost branch), under which TLC finds the property
violated. Mutants are marked as such where they stand.

### Fairness

*Hub.* The Go scheduler runs every runnable goroutine: weak fairness for each
step of producers, handlers and replays. `WriteMessage` returns, because of its
10 s deadline, with success or failure; which one is not assumed. After
`conn.Close` the reader's `NextReader` fails. A goroutine that waits to send on a
full channel is served when a slot becomes free, in FIFO order, which is strong
fairness for `ReplaySend`. Nothing is assumed of the peers, of new events or of
new connections. *TreeView.* As long as a notice, a timer or a request
is out, one of them gets on: one weak fairness over all of them, less than the
network and the event loop give. User, disk and the two loops owe nothing.
*Page.* Broadcasts go on, messages arrive and timers fire; Claude, the user and `/api/info` owe
nothing.

*TapLinux.* The tap's loop goes on (`Read` or `ReadFails`, `Handle`), a write
succeeds or the tap is ended by SIGPIPE, the server takes a line or fails at it.
Accesses, exits and the ends of tap and server owe nothing. *Session.* What runs
gets on, but not a tap that is `Stuck`; sudo ends after its command. Nobody need answer the password prompt and nothing need happen in the
files: `OrphansEnd` states the second as its own condition, for without a write
the tap never learns that its reader is gone.

Deadlock is not checked in `Hub`, `TreeView`, `Watch`, `TapLinux` and `Paths`,
whose bounds run out, nor in `Session`, where in the end every process is gone.

## 4. Where code and documents disagree

With a run and a counterexample:

* **The replay is erased** (`page_replay`). `onConnect` empties `state.events`
  after its await, when replayed events may have arrived (app.js:78).
* **A mixed entry is dropped whole** (`hooks_mixed`). main.go:119-120 promises
  that unrelated hooks under the same event are kept.
* **The server outlives the tap** (`session_tap_exit`). server.go:33 says that
  Run "Blocks until the tap exits or ctx is canceled"; only `Ingest` ends, in a
  goroutine whose end is logged.

Seen while modelling, without a run of their own:

* *Tree.* `refreshDir` skips a collapsed directory (app.js:559) and `toggleDir`
  shows the old list again without fetching (app.js:695). The refresh button
  looks for the list directly below `#tree` (app.js:575), where it never is, so
  it does not reach the top level. `scheduleParentRefresh` is called for
  replayed events, too, so a reconnect also schedules refreshes; `TreeView` has
  only the live ones.
* *Hub.* A replay longer than the channel keeps it full, so live events are
  dropped meanwhile (server.go:202-204 says they are served promptly).
  `--buffer 0` is accepted and panics at the first event.
* *Watcher.* The second of two deletes within the window is suppressed although
  a creation was announced in between (comment at server.go:99-102).
* *Pill.* `StopIsShown` needs the condition that no event is offered inside a
  replay; without it a stop overtaken by older replayed events leaves the pill
  on "working" or "thinking".
* *Lifecycle.* Once sudo runs as root, Kill is refused, the error ignored, and
  `stop` waits for a tap nobody told to end: on SIGTERM, or when the port turns
  out to be taken, the server hangs (spawn.go:46-53; `ServerEnds` states when it
  does not). spawn.go:13-14 has it that this kills the
  "subprocess (and therefore fs_usage)": while it is possible it ends sudo with a signal sudo
  cannot pass on, and the tap lives until its next write.
* *Tap.* A record with an `event_len` below 24 makes `parseFanotifyEvents` return
  an error beside the events it has decoded (fanotify_linux.go:38-40, tested by
  `TestParseFanotifyEvents_BadEventLen`); `Run` then drops them and the leftover
  bytes and goes on (tap_linux.go:120-125). Their descriptors are never closed,
  which fanotify_linux.go:19-21 says the caller must do, and their accesses are
  lost. `DescriptorsOwned`, `Accounted` and `AccessIsSettled` have these as
  their exception (`discarded`), and show that no other event is affected. A line
  that `Ingest` cannot use ends it for good while the tap runs on: nobody
  drains the pipe any more (hub.go:71-73), and the tap stops at it.
* *Tap.* With `--raw-dump` on the watched filesystem each event handled is
  followed by one of the dump file, so the tap never rests; `AccessIsSettled`
  shows that it does its work all the same. pathForFD is said to return "" for
  a file that was deleted (fanotify_linux.go:113-114); the link then ends in
  " (deleted)", a path that exists nowhere, and is reported. On macOS the number at
  the end of a line of fs_usage is a thread's, so that an exclusion by pid may
  not match.
* *Paths.* Below the root `/` nothing is listed (two slashes at tree.go:47). On
  macOS, with a root above the data volume such as `/System`, the endpoint lists
  the volume while the tap strips its prefix and takes the same files for
  outside, so their rows never light up; `SameInside` asks it only of
  directories that normalizePath leaves as they are. A
  symbolic link as `--dir` is not resolved, while the kernel reports real paths;
  cwdInside turns down a directory below the root whose first name begins with
  two dots, which the taps report.

## 5. What is proved

Each theorem holds for every value of the constants that the named assumption
allows, where a run checks one small instance.

### Hub (`HubProofs`)

For every ring size, channel capacity, number of broadcasts and every finite set
of producers and connections (`RingSizeAssumption`, `HubAssumption`):

* `TypeCorrect`: `Spec => [](TypeOK /\ RingInv /\ Busy)`; the invariant behind it
  adds `Fanning` (only a producer in its fan-out has targets);
* `RingCorrect`: `Spec => []RingHoldsRecentHistory`, what a new connection is
  replayed is exactly the last `RingSize` stored events, oldest first;
* `GapFree`: `Spec => []NoGap`, nothing falls between replay and live delivery.

`RingHoldsRecentHistory` is not inductive: that the snapshot is right says
nothing of where the next store goes. `RingInv` strengthens it: before the wrap
the history is as long as the head, after it at least as long as the ring, and
every slot in use holds the event of the history that `Origin` names. The lemmas
`RingInitOK`, `StoreOK` and `SnapshotOK` speak of the ring alone and are cited
from the hub's steps; `NextTypeInv` has one step per action of `Hub`. `Busy` (a
producer past the counter holds an event) is what makes a stored value an event.

`NoGap` speaks of connections that have their snapshot, so it says nothing of
the time before. `GapInv` adds that: every event stored since a connection
registered is settled, that is in its stream, dropped, or about to be offered to
it (`SinceRegister`); it holds already before the snapshot because a store and
the choice of its targets are one critical section. The snapshot is taken after
registration and holds the last `RingSize` events (`InSnapshot`), so the two
overlap. `Shape` holds the facts of control this needs: a frame is
in the writer's hand only while it writes, and a connection that is served is
registered. `Keep` is the common
part of the steps: one that stores nothing keeps the invariant if what was
settled stays settled.

The second part goes on with what the order of the frames needs. A stream is what
was written, the frame in the writer's hand, the channel and the backlog.
`InTurn(e, f)` says that e and f are different and e may come first: f's broadcast
had not ended when e's began. It is no order (it is not transitive), so it has to
be known of every pair, and an event that is on its way must be in turn behind
all that went before. `OrderInv` says that a producer's event has its number and
no higher one than the counter, and that any two broadcasts under way are in turn
both ways (`Numbered`); that what is stored is in turn, also before what has yet
to be stored (`StoredOnce`); and of
each stream (`LineInv`) that its live frames are in turn and its replayed ones
distinct (`Orderly`), that they are in turn before everything still to be
offered to it, by any producer (`Older`), and that the replayed ones are an order-preserving image of the
history at the snapshot (`Replays`). A live frame enters behind
the channel and before the backlog, hence in the middle of the stream: `Grown`
and `Cut` say what an insertion and a removal anywhere leave of an order, and are
proved once. From it:

* `BroadcastsInOrder`: `Spec => []BroadcastOrder`;
* `BroadcastsOnce`: `Spec => []EachOnce`, no event is stored twice or reaches a
  connection twice as a live frame;
* `ReplayComplete`: `Spec => []ReplayIntact`;
* `CountersAddUp`: `Spec => []FramesConserved`;
* `HubImplementsFeed`: `Spec => FeedSpec`. `MapInv` joins the invariants above
  with `FreshInv` (a connection joins once, and before it can break), and
  `OfferIsNew` tells what is still to be offered from what was.
  The steps map so: `SendLocked` to the feed's `Publish`, `Register` to `Join`,
  `ReplaySnapshot` to `CatchUp`, `WriterWrite` to `Deliver`, a `SendTo` that
  drops to `LoseLive`, `ReaderEnd`, `WriterFail` and `ReplayAbort` to `Break`,
  `Unregister` to `Leave`; every other step is a stutter, since it moves a frame
  from one place it is owed in to another.

### Live tree (`TreeProofs`)

For every tree of paths, every choice of directories among them, every bound on
changes and sweeps and every interleaving of disk, notices, timer, requests,
answers, clicks and loops (`TreeViewAssumption`):

* `TypeCorrect`: `Spec => []TypeOK`, without a further condition;
* `RowsRegistered`: `Spec /\ Calm => []RowsAreRegistered`;
* `RowsSurvive`: `Spec /\ Calm => RowsSurviveRefresh`, an action property;
* `StalenessCovered`: `Spec /\ Calm /\ ~Lossy => []StalenessIsCovered`.

`Calm` is `~Reorder /\ ~Reuse`. These conditions are not for the prover's sake:
the table in section 2 says how each property fails without them, and they are
the values of the run `tree_settles`. The code ensures neither: requests of one
directory keep their order if each is answered before the next is sent, which
the delay of `scheduleRefresh` makes likely and nothing makes certain, and what
is created again is the user's affair.

`CalmInv` is the inductive invariant of the rows. What makes
`RowsAreRegistered` hold is not in the rows but in the answers on their way: an
old answer must not bring back a row that a newer one has purged. So:

* `DiskInv` and `Existed`: what was removed is gone, what exists hangs from what
  exists, and a directory with a node has existed;
* `Links`: a list holds paths of its own directory, each once, and no directory
  ever has two nodes;
* `Asked`: a request is for the node of its directory (`Fits`), and the first
  fetch of a list finds it empty and comes before any other (`FirstFetch`);
* `InOrder`: of the requests of one directory the older are read first;
* `Convex`: in the answers of a directory, oldest first, a subdirectory comes
  and goes once. If one answer holds it and a later one does not, or it has a
  node that hangs nowhere, it was removed and no answer behind lists it
  (`GoesOnce`).

`FsCalm` is where `Reuse` matters; `ReadCalm` and `DeliversFirst` are where
`Reorder` does. The largest step is `Deliver`, which purges, makes and links rows
at once: `FilledLists` says what it leaves of the lists, `FilledRows` of the
registered rows, `LeftConvex` and `FilledConvex` of the answers still out. A step
that touches no row keeps the invariant by `QuietCalm`.

`CoverInv` adds for each expanded directory on show that was not skipped one of
four (`Covered`): a request for it that the server has not read yet (`Fetching`);
a notice on its way, or a pending refresh with the timer set (`Announced`); no
request and the list as on disk (`Settled`); or an answer as on disk that no
other for it comes after (`LastIsFresh`). The last is what `StalenessIsCovered`
leaves out: it only asks for some answer under way, which is not inductive,
since the one that arrives last may be stale.

### Watcher (`WatchProofs`)

For every set of paths, every capacity, any window above zero
and any purge age above the window (`WatchAssumption`): `TypeCorrect`,
`BurstCorrect` (`Spec => []BurstIsAnnounced`) and `WindowCorrect`
(`Spec => OncePerWindow`). The invariant behind both, `Remembers`, ties the
dedupe map to the history: a key in the map has the time of its last
announcement; a key that is not there was never announced, or was purged and so
is older than the purge age. `Remembered` says what one round of the purge
leaves, `NotSuppressed` draws the conclusion for the next announcement.

### Page (`PageProofs`)

For every ring, every number of events, connections and tools, lossy or not
(`PageAssumption`):

* `TypeCorrect` and `TimerCorrect`: `TypeOK` and `TimerMatchesLabel` are
  inductive together with the fact that no more fetches of `/api/info` are under
  way than there were connections (`TypeInv`);
* `PillCorrect`: `Spec => []PillIsTruthful`. The pill depends on what has been
  received, the truth on what Claude does now. So `PillInv` follows Claude along
  the log: there is a course (`Course`, `Tells`) that says how many tools were in
  flight or had failed after each event and whether a prompt was worked on, and
  a page that got everything live stands where that course was at the last hook
  event g it received (`Knows`). What was received is no prefix of the log, since
  file events overtake hook events and are overtaken. It is enough that the hook
  events behind g are in the channel, in order, or still to be offered, behind
  those in the channel (`HooksComing`), and that the course stands still over
  stretches of files (`FilesOnly`). That the order survives an offer rests on
  `OneHook`: while a hook event is to be offered, only files are stored after it;
* `StopCorrect`: `Spec => []StopIsShown`. What is due to the page is the channel
  followed by the backlog (`Due`). `StopInv` says that, unless an event was
  offered into a replay, the stop is still to be offered, or what is due ends in it
  (`EndsInStop`), or nothing of what is due moves a pill that is waiting
  (`AllQuiet`); duplicates and missed events do not disturb that, nor does what
  else is still to be offered: by `OneHook`, no hook event older than the stop.

### Tap (`TapProofs`)

For every set of processes, names and files and every limit of
queue, read, cache and pipe (`TapAssumption`):

* `TypeCorrect`; `OverflowInv` (a queue above its limit holds the overflow
  event) keeps the queue within one event of its limit;
* `ReportsRight` and `FilteredRight`: `Spec => []ReportsAreRight` and
  `Spec => []RightlyFiltered`. Both follow from `Sound`: there is a function f,
  the name each pid had at first, such that processes and cache agree with it,
  and every event on its way carries the name f gives and the place the file
  has, for pids and files that have not changed; and every report on its way is
  right. `KeptIsRight` and `FilteredIsRight` are the two outcomes of the filter
  chain, `StaysRight` says that a rename or a reused pid spoils nothing that is
  on its way, for it only adds to the exceptions;
* `DescriptorsCorrect`: `Spec => []DescriptorsOwned`, from lemmas on how the
  descriptors of a sequence split at its head, at its end and at a concatenation
  (`OwnedHead`, `OwnedCut`, `OwnedConcat`); that a read that does not parse leaks
  exactly its own is part of the statement;
* `AccountedFor`: `Spec => []Accounted`. `AccountInv` lays six stations in one
  line: what Ingest has got (`Arrived`), pipe, the tap's hand, batch, left-over
  bytes, kernel queue. Along it the numbers of the accesses grow (`InOrder`: within each station, and from
  each to those behind it), so that a step moves an access to the next station
  without doubling or overtaking; what was filtered, thrown away or lost is each
  apart from the line and from the others (`Apart`), and while tap and server run
  every number given out is in one of them. `FetchIds` and `ReadIds` say what a
  read does to the numbers, whether it parses or not. The overflow event, which has no number of its own, is not counted.

The module ends with the session of processes that a tap is part of, for every
capacity of the pipe. `Processes` is an instance of `Session` over variables of
its own, `Behind` one over the state of `TapLinux`:

* `SessionTypeCorrect`: `Processes!Spec => [](Processes!TypeOK /\ EndIsFinal)`.
  `TypeOK` says that no pipe whose end `Ingest` has seen has lines in it, and is
  not inductive: a report after that end would break it. `EndIsFinal` rules that
  out, since `Ingest` sees the end of the pipe only when sudo and tap are both
  gone; when `Ingest` failed at a line they need not be;
* `SessionEnding`: `Processes!Spec => [](CtrlCReachesAll /\ WaitsForRootOnly)`,
  the safety core of `ServerEnds`: after Ctrl-C nothing runs and nothing starts,
  and a server in `cmd.Wait` waits for a sudo it could not have killed;
* `TapIsOfSession`: `Spec => []Behind!TypeOK /\ [][Behind!Next]_(Behind!vars)`,
  the detailed tap implements the tap of `Session` from the moment it runs: a
  `Write` is a `Report`, a `BrokenPipe` the end a report without a reader has,
  `Killed` a `TapFails`, `Ingest` and `IngestFails` what they are there,
  `CloseReader` the end of the server; everything else the tap does is a stutter.

### Hook installer (`HooksProofs`)

For every set of addresses, events, commands and every file a user may save
(`HooksAssumption`: the user's commands are not ours, what is no list is no
list), with entries in any number:

* `TypeCorrect`: `Spec => []TypeOK`;
* `UnrelatedSurvive`, `AppliedCorrect`, `BrokenSurvives`: `UnrelatedKept`,
  `AppliedOnce` and `BrokenIsKept` hold always;
* `ReapplyIsIdle`: `Spec => ReapplyWritesNothing`, an action property: a merge
  for the address merged last gives back the same text.

`MergeOne` is the heart: merging for one address keeps the loop's result for
every other set of entries and leaves exactly one entry of that address
(`OnlyTwice`: two loops in turn are one loop over the intersection). A file is
`Good` if it holds what is owed and every applied address once, is the user's own
if that does not parse, and is what a further merge for the address applied last
would write. `Alone` is the inductive
invariant: until something is disturbed at most one run is under way, it has read
a good file, and the disk is good unless that run has truncated it.

### Paths (`PathsProofs`)

For every set of names, relation `Extends`, clean roots and data volume
(`PathsAssumption`), and paths of any length:

* `InsideAgrees`: `Spec => []SameInside`;
* `NoticeFindsDirectory`: `Spec => []NoticeListsDirectory`.

Both rest on `CleanTail` (a clean tail survives cleaning, wherever it is put;
by induction over the tail), `CleanClean` (cleaning twice is cleaning once) and on
the decomposition of a path below a directory (`Below`, `BelowBack`,
`FrontBelow`). The proof showed that `SameInside` had been too strong: for a root
above the data volume it is false, which an instance with a data volume of one
segment could not show (section 4).

### Induction (`SequenceInduction`)

The library's induction theorems take operators as parameters, which the provers
cannot instantiate. `SetInduction` and `SeqInduction` say the same of sets, from
the well-foundedness of `<` on `Nat`; `FoldExists`, `FoldUnique` and
`FoldedAppend` give a loop over a sequence its value and its equations, and
`FoldedRounds` lets a recursive function stand for such a loop.

### Only model-checked

* Liveness: `BroadcastEnds`, `ReplayGoroutineEnds`, `OfferedIsSettled`,
  `SettlesUnlessSkipped`, `WorkingEnds`, `AccessIsSettled`, `ServerEnds`,
  `OrphansEnd`, `TapEndIsSeen`. The prover does neither fairness nor `ENABLED`.
  Of `Session` only what `SessionEnding` states is proved; that the processes get
  there is TLC's.
* `ReplayIsShown`, `OwnHooksKept` and `TapExitEnds`, which do not hold.

## 6. Not modelled

* The parser of `fs_usage` lines and `mapSyscall`: regular expressions over the
  text of another program, without state. The macOS tap is modelled as far as
  its path filter (`Paths`) and its end (`Session`).
* Summaries, truncation and other formatting; drawing; flag parsing; logging.
* Numbers in the settings file pass through float64 (main.go:129), which rounds
  integers above 2^53: a matter of one library call.
* A failed upgrade, a failed `json.Marshal` and a ping that succeeds change no
  state.
* In the browser: a row that turns from file to directory, a stop replayed
  before `/api/info` has answered (`autoPause` is not known yet), several Claude
  sessions at once, a compaction in the middle of a turn. They are in the list
  of hazards where they bite.

## 7. Plan

What is left, in order of weight:

1. Composition of `Watch`, the announcements of `Hub` and `TreeView`'s notices,
   to replace the assumption of `Lossy = FALSE` by the conditions under which it
   holds.
2. `Page` with two sessions and a compaction, against an abstract pill.
