------------------------------ MODULE TreeView ------------------------------
(***************************************************************************)
(* The live file tree: web/app.js (the tree half) against the watched      *)
(* directory, through /api/tree (internal/ui/tree.go) and the dirchange    *)
(* notices of the hub.                                                     *)
(*                                                                         *)
(* The browser is single-threaded but every fetch is an await: a request   *)
(* is sent, the server reads the directory at some later moment and the    *)
(* answer is applied later still, to the node and the <ul> captured when   *)
(* it was sent.  Node objects therefore have an identity of their own: a   *)
(* row that was removed from the page may still be written to.             *)
(*                                                                         *)
(* Three constants switch on behaviour of the surroundings that the code    *)
(* does not cope with; the README says what each of them breaks.           *)
(***************************************************************************)
EXTENDS Integers, Sequences, SequencesExt, Selection

CONSTANTS
    Root,           \* the path "" of the watched directory itself
    Order,          \* all other paths, in the order of tree.go's sort
    Parent,         \* [path |-> its directory]
    DirPath,        \* the paths that are directories
    FirstDisks,     \* what may exist when the page is opened: a set of sets
    MaxChanges,     \* bound on the changes to the directory
    MaxSweeps,      \* bound on the uses of the "Refresh tree" button
    Lossy,          \* a notice may get lost on its way
    Reorder,        \* two requests for one directory may overtake each other
    Reuse           \* a removed directory may be created again

Path == Range(Order)
AnyDir == DirPath \cup {Root}

ASSUME TreeViewAssumption ==
    /\ Root \notin Path /\ DirPath \subseteq Path
    /\ Parent \in [Path -> AnyDir]
    /\ Order \in Seq(Path) /\ IsInjective(Order)
    /\ \A s \in FirstDisks : s \subseteq Path /\ \A p \in s : Parent[p] \in s \cup {Root}
    /\ {MaxChanges, MaxSweeps} \subseteq Nat
    /\ {Lossy, Reorder, Reuse} \subseteq BOOLEAN

VARIABLES
    disk,       \* the paths that exist
    removed,    \* directories that have been removed
    changes,    \* number of changes made
    notices,    \* dirchange notices on their way to the browser
    node,       \* all node objects ever made: [path, expanded, ul, kids]
    reg,        \* state.nodes: the node registered for a path, 0 for none
    pending,    \* state.pendingRefresh
    timer,      \* state.refreshTimer is set
    reqs,       \* requests in flight, oldest first
    expandQ,    \* the queue of the running expandAll
    sweepQ,     \* the directories refreshAllExpanded has still to do
    loops,      \* which of the two async loops run: a subset of {"expand", "sweep"}
    sweeps,     \* number of sweeps started
    skipped     \* history: nodes whose last due refresh found them collapsed

diskVars == <<disk, removed, changes>>
viewVars == <<node, reg>>
loopVars == <<expandQ, sweepQ, loops, sweeps>>
vars == <<diskVars, notices, viewVars, pending, timer, reqs, loopVars, skipped>>

Node == [path : Path \cup {Root}, expanded : BOOLEAN, ul : BOOLEAN, kids : Seq(Nat)]

Failed == <<Root>>      \* the answer of a failed ReadDir; no listing holds the root
Unread == <<Root, Root>>

\* use: what the answer is for; then: the loop that awaits it, if any.
Request == [use : {"render", "toggle", "refresh", "ignore"}, dir : AnyDir, to : Nat,
            then : {"none", "expand", "sweep"}, answer : Seq(Path \cup {Root})]

Ask(use, dir, to, then) ==
    [use |-> use, dir |-> dir, to |-> to, then |-> then, answer |-> Unread]

NewNode(p) == [path |-> p, expanded |-> FALSE, ul |-> FALSE, kids |-> <<>>]

\* treeHandler: one level of the directory, sorted.
Listing(d) == Only(Order, {p \in disk : Parent[p] = d})

Exists(d) == d = Root \/ d \in disk

\* onConnect has got /api/info: the root node is registered and fetched.
Init ==
    /\ disk \in FirstDisks
    /\ removed = {} /\ changes = 0
    /\ notices = <<>>
    /\ node = <<[path |-> Root, expanded |-> TRUE, ul |-> TRUE, kids |-> <<>>]>>
    /\ reg = [p \in Path \cup {Root} |-> IF p = Root THEN 1 ELSE 0]
    /\ pending = {} /\ timer = FALSE
    /\ reqs = <<Ask("render", Root, 1, "none")>>
    /\ expandQ = <<>> /\ sweepQ = <<>> /\ loops = {} /\ sweeps = 0
    /\ skipped = {}

-----------------------------------------------------------------------------
(* The watched directory and the notices about it.                         *)

Notify(d) ==
    \/ notices' = Append(notices, d)
    \/ Lossy /\ notices' = notices

\* Mutant of FsCreate: the notice names the path instead of its directory.
FsCreateNamesPath(p) ==
    /\ changes < MaxChanges
    /\ p \notin disk /\ Exists(Parent[p])
    /\ p \in removed => Reuse
    /\ disk' = disk \cup {p}
    /\ changes' = changes + 1
    /\ Notify(p)
    /\ UNCHANGED <<removed, viewVars, pending, timer, reqs, loopVars, skipped>>

\* A file or a directory appears, on its own or by a rename ...
FsCreate(p) ==
    /\ changes < MaxChanges
    /\ p \notin disk /\ Exists(Parent[p])
    /\ p \in removed => Reuse
    /\ disk' = disk \cup {p}
    /\ changes' = changes + 1
    /\ Notify(Parent[p])
    /\ UNCHANGED <<removed, viewVars, pending, timer, reqs, loopVars, skipped>>

\* ... or disappears.
FsRemove(p) ==
    /\ changes < MaxChanges
    /\ p \in disk
    /\ \A q \in disk : Parent[q] # p
    /\ disk' = disk \ {p}
    /\ removed' = removed \cup ({p} \cap DirPath)
    /\ changes' = changes + 1
    /\ Notify(Parent[p])
    /\ UNCHANGED <<viewVars, pending, timer, reqs, loopVars, skipped>>

\* Mutant of Notice: an armed timer is taken to cover the new directory too.
NoticeIfUnarmed ==
    /\ notices # <<>>
    /\ notices' = Tail(notices)
    /\ pending' = IF timer THEN pending ELSE {Head(notices)}
    /\ timer' = TRUE
    /\ UNCHANGED <<diskVars, viewVars, reqs, loopVars, skipped>>

\* ws.onmessage of a dirchange: scheduleRefresh.
Notice ==
    /\ notices # <<>>
    /\ notices' = Tail(notices)
    /\ pending' = pending \cup {Head(notices)}
    /\ timer' = TRUE
    /\ UNCHANGED <<diskVars, viewVars, reqs, loopVars, skipped>>

\* refreshDir up to its await: nothing for a node that is not there, not
\* expanded or without a list.
Refreshable(d) == reg[d] # 0 /\ node[reg[d]].expanded /\ node[reg[d]].ul

\* Of the directories due, those refreshed are no longer skipped; those with a
\* list that is hidden are.
NoteSkipped(due) ==
    skipped' = (skipped \ {reg[d] : d \in due})
                 \cup {reg[d] : d \in {e \in due : reg[e] # 0 /\ ~Refreshable(e) /\ node[reg[e]].ul}}

\* Mutant of TimerFires: one pending directory is refreshed, all are cleared.
TimerFiresForOne ==
    /\ timer
    /\ timer' = FALSE
    /\ pending' = {}
    /\ \E d \in pending :
          reqs' = IF Refreshable(d) THEN Append(reqs, Ask("refresh", d, reg[d], "none")) ELSE reqs
    /\ NoteSkipped(pending)
    /\ UNCHANGED <<diskVars, notices, viewVars, loopVars>>

\* The timer callback: all pending directories at once.
TimerFires ==
    /\ timer
    /\ timer' = FALSE
    /\ pending' = {}
    /\ LET due == Only(<<Root>> \o Order, {d \in pending : Refreshable(d)})
       IN  reqs' = reqs \o [i \in DOMAIN due |-> Ask("refresh", due[i], reg[due[i]], "none")]
    /\ NoteSkipped(pending)
    /\ UNCHANGED <<diskVars, notices, viewVars, loopVars>>

-----------------------------------------------------------------------------
(* Requests and what is done with their answers.                           *)

\* treeHandler calls os.ReadDir.
Read(i) ==
    /\ i \in DOMAIN reqs
    /\ reqs[i].answer = Unread
    /\ Reorder \/ \A j \in 1 .. i - 1 : reqs[j].dir = reqs[i].dir => reqs[j].answer # Unread
    /\ reqs' = [reqs EXCEPT ![i].answer =
                  IF Exists(reqs[i].dir) THEN Listing(reqs[i].dir) ELSE Failed]
    /\ UNCHANGED <<diskVars, notices, viewVars, pending, timer, loopVars, skipped>>

PathsOf(kids) == [k \in DOMAIN kids |-> node[kids[k]].path]

\* have.get(name): the last row of that name.
RowOf(kids, p) == kids[CHOOSE k \in DOMAIN kids :
    /\ PathsOf(kids)[k] = p
    /\ \A j \in DOMAIN kids : PathsOf(kids)[j] = p => j <= k]

\* purgeNode: the registered node of a path and, through the lists of the
\* registered nodes, everything below it.
Purged(gone) ==
    LET below[k \in 0 .. Len(Order)] ==
          IF k = 0 THEN {p \in gone : reg[p] # 0}
          ELSE LET above == below[k - 1]
               IN  above \cup {q \in Path : reg[q] # 0 /\ \E p \in above :
                                           q \in Range(PathsOf(node[reg[p]].kids))}
    IN  below[Len(Order)]

\* makeNode for every path of "made", in order.
WithNew(made) == node \o [k \in DOMAIN made |-> NewNode(made[k])]
IdOfNew(made, p) == Len(node) + CHOOSE k \in DOMAIN made : made[k] = p

\* Mutant of Reconcile: the list is emptied and built again.
ReconcileRebuilds(n, entries) ==
    /\ node' = [WithNew(entries) EXCEPT ![n].kids = [k \in DOMAIN entries |-> Len(node) + k]]
    /\ reg' = [p \in DOMAIN reg |->
                 IF p \in Range(entries) THEN IdOfNew(entries, p)
                 ELSE IF p \in Purged(Range(PathsOf(node[n].kids))) THEN 0 ELSE reg[p]]

\* reconcileChildren(dir, ul of node n, entries): rows that are not wanted
\* leave, the wanted ones come first in the order wanted.
Reconcile(n, entries) ==
    LET kids == node[n].kids
        had  == Range(PathsOf(kids))
        made == Only(entries, Path \ had)
        gone == had \ Range(entries)
        held == {RowOf(kids, p) : p \in had}
        rows == [k \in DOMAIN entries |->
                   IF entries[k] \in had THEN RowOf(kids, entries[k])
                                         ELSE IdOfNew(made, entries[k])]
    IN  /\ node' = [WithNew(made) EXCEPT ![n].kids =
                      rows \o Only(kids, DOMAIN node \ held)]
        /\ reg' = [p \in DOMAIN reg |->
                     IF p \in Range(made) THEN IdOfNew(made, p)
                     ELSE IF p \in Purged(gone) THEN 0 ELSE reg[p]]

\* Mutant of AppendRows: rows that a toggle adds are not put into state.nodes.
AppendUnregistered(n, entries) ==
    /\ node' = [WithNew(entries) EXCEPT ![n].kids =
                  @ \o [k \in DOMAIN entries |-> Len(node) + k]]
    /\ UNCHANGED reg

\* renderTreeRoot and toggleDir append a row for every entry.
AppendRows(n, entries) ==
    /\ node' = [WithNew(entries) EXCEPT ![n].kids =
                  @ \o [k \in DOMAIN entries |-> Len(node) + k]]
    /\ reg' = [p \in DOMAIN reg |->
                 IF p \in Range(entries) THEN IdOfNew(entries, p) ELSE reg[p]]

\* A failed toggle replaces the list's content by a message.
ClearRows(n) == node' = [node EXCEPT ![n].kids = <<>>] /\ UNCHANGED reg

\* expandAll goes on with the directories below the one it has opened.
Unopened(n) ==
    Only([k \in DOMAIN node'[n].kids |-> reg'[node'[node'[n].kids[k]].path]],
         {m \in DOMAIN node' : node'[m].path \in DirPath /\ ~node'[m].expanded})

Deliver(i) ==
    LET r == reqs[i]
    IN  /\ i \in DOMAIN reqs
        /\ r.answer # Unread
        /\ Reorder \/ \A j \in 1 .. i - 1 : reqs[j].dir # r.dir
        /\ reqs' = RemoveAt(reqs, i)
        /\ \/ r.use = "ignore" /\ UNCHANGED viewVars
           \/ r.use = "refresh" /\ r.answer = Failed /\ UNCHANGED viewVars
           \/ r.use = "refresh" /\ r.answer # Failed /\ Reconcile(r.to, r.answer)
           \/ r.use \in {"toggle", "render"} /\ r.answer = Failed /\ ClearRows(r.to)
           \/ r.use \in {"toggle", "render"} /\ r.answer # Failed /\ AppendRows(r.to, r.answer)
        \* Whoever awaited the answer goes on: onConnect with expandAll, a
        \* loop with its next step.
        /\ expandQ' = IF r.use = "render" \/ r.then = "expand"
                      THEN expandQ \o Unopened(r.to) ELSE expandQ
        /\ loops' = IF r.use = "render" THEN loops \cup {"expand"} ELSE loops
        /\ UNCHANGED <<diskVars, notices, pending, timer, sweepQ, sweeps, skipped>>

-----------------------------------------------------------------------------
(* The user, expandAll and refreshAllExpanded.                             *)

\* toggleDir(rel, node n, tri); the list is fetched the first time only.
Toggle(n, then) ==
    /\ node' = [node EXCEPT ![n].expanded = ~@, ![n].ul = TRUE]
    /\ UNCHANGED reg
    /\ reqs' = IF ~node[n].expanded /\ ~node[n].ul
               THEN Append(reqs, Ask("toggle", node[n].path, n, then)) ELSE reqs

\* The rows on the page: what hangs below the root's list.
Shown ==
    LET upto[k \in 0 .. Len(Order)] ==
          IF k = 0 THEN {1}
          ELSE LET above == upto[k - 1]
               IN  above \cup UNION {Range(node[n].kids) : n \in above}
    IN  upto[Len(Order)]

Click(n) ==
    /\ n \in Shown
    /\ node[n].path \in DirPath
    /\ Toggle(n, "none")
    /\ UNCHANGED <<diskVars, notices, pending, timer, loopVars, skipped>>

RegisteredDirs == {reg[p] : p \in {q \in DirPath : reg[q] # 0}}

\* isFullyExpanded: what the "Expand all" / "Collapse all" button goes by.
FullyExpanded == RegisteredDirs # {} /\ \A n \in RegisteredDirs : node[n].expanded

CollapseAll ==
    /\ FullyExpanded /\ "expand" \notin loops
    /\ node' = [n \in DOMAIN node |->
                  [node[n] EXCEPT !.expanded = @ /\ n \notin RegisteredDirs]]
    /\ UNCHANGED <<diskVars, notices, reg, pending, timer, reqs, loopVars, skipped>>

Awaited(loop) == \E i \in DOMAIN reqs : reqs[i].then = loop

ExpandAll ==
    /\ ~FullyExpanded /\ "expand" \notin loops
    /\ loops' = loops \cup {"expand"}
    /\ expandQ' = Only([i \in DOMAIN Order |-> reg[Order[i]]],
                       {n \in RegisteredDirs : ~node[n].expanded})
    /\ UNCHANGED <<diskVars, notices, viewVars, pending, timer, reqs, sweepQ, sweeps, skipped>>

\* One round of expandAll's loop, up to the await of toggleDir.
ExpandNext ==
    /\ "expand" \in loops
    /\ ~Awaited("expand")
    /\ \/ /\ expandQ = <<>>
          /\ loops' = loops \ {"expand"}
          /\ UNCHANGED <<expandQ, viewVars, reqs>>
       \/ /\ expandQ # <<>>
          /\ LET n == Head(expandQ)
             IN  IF node[n].expanded
                 THEN UNCHANGED <<viewVars, reqs>> /\ expandQ' = Tail(expandQ)
                 ELSE /\ Toggle(n, "expand")
                      /\ expandQ' = Tail(expandQ) \o
                                    (IF node[n].ul THEN Unopened(n) ELSE <<>>)
          /\ UNCHANGED loops
    /\ UNCHANGED <<diskVars, notices, pending, timer, sweepQ, sweeps, skipped>>

\* The button: "" first, then every expanded node, "" among them.
SweepStart ==
    /\ "sweep" \notin loops /\ sweeps < MaxSweeps
    /\ loops' = loops \cup {"sweep"}
    /\ sweeps' = sweeps + 1
    /\ sweepQ' = <<Root, Root>> \o Only(Order, {p \in Path : reg[p] # 0 /\ node[reg[p]].expanded})
    /\ UNCHANGED <<diskVars, notices, viewVars, pending, timer, reqs, expandQ, skipped>>

\* For "" the code looks for a <ul> directly below #tree; the list is below
\* #treeContent (index.html), so the answer is dropped.
SweepNext ==
    /\ "sweep" \in loops /\ sweepQ # <<>>
    /\ ~Awaited("sweep")
    /\ sweepQ' = Tail(sweepQ)
    /\ LET d == Head(sweepQ)
       IN  reqs' = IF d = Root THEN Append(reqs, Ask("ignore", Root, 1, "sweep"))
                   ELSE IF Refreshable(d) THEN Append(reqs, Ask("refresh", d, reg[d], "sweep"))
                   ELSE reqs
    /\ NoteSkipped({Head(sweepQ)} \ {Root})
    /\ UNCHANGED <<diskVars, notices, viewVars, pending, timer, expandQ, loops, sweeps>>

SweepEnd ==
    /\ "sweep" \in loops /\ sweepQ = <<>>
    /\ ~Awaited("sweep")
    /\ loops' = loops \ {"sweep"}
    /\ UNCHANGED <<diskVars, notices, viewVars, pending, timer, reqs, expandQ, sweepQ,
                   sweeps, skipped>>

-----------------------------------------------------------------------------
Browser ==
    \/ Notice
    \/ TimerFires
    \/ \E i \in DOMAIN reqs : Deliver(i)
    \/ ExpandNext
    \/ SweepNext \/ SweepEnd

Server == \E i \in DOMAIN reqs : Read(i)

User == (\E n \in DOMAIN node : Click(n)) \/ ExpandAll \/ CollapseAll \/ SweepStart

Next == Browser \/ Server \/ User \/ \E p \in Path : FsCreate(p) \/ FsRemove(p)

Spec == Init /\ [][Next]_vars

\* As long as a message, a timer or a request is out one of them gets on; the
\* user and the programs that change the directory owe nothing, nor need the
\* loops go on.
FairSpec ==
    /\ Spec
    /\ WF_vars(Notice \/ TimerFires \/ Server \/ \E i \in DOMAIN reqs : Deliver(i))
-----------------------------------------------------------------------------
(* Every reference to a node is to one that was made, every path named by  *)
(* a notice, a pending refresh or a request is a directory.                *)
TypeOK ==
    /\ disk \subseteq Path /\ removed \subseteq DirPath /\ changes \in 0 .. MaxChanges
    /\ notices \in Seq(AnyDir)
    /\ node \in Seq(Node)
    /\ reg \in [Path \cup {Root} -> 0 .. Len(node)]
    /\ pending \subseteq AnyDir /\ timer \in BOOLEAN
    /\ reqs \in Seq(Request)
    /\ expandQ \in Seq(DOMAIN node) /\ sweepQ \in Seq(AnyDir)
    /\ loops \subseteq {"expand", "sweep"} /\ sweeps \in 0 .. MaxSweeps
    /\ skipped \subseteq DOMAIN node

\* Node n shows its directory: one row per entry, in order.
UpToDate(n) == PathsOf(node[n].kids) = Listing(node[n].path)

\* Expanded directories on the page that still exist.
Watched == {n \in Shown : node[n].expanded /\ node[n].ul /\ Exists(node[n].path)}

(***************************************************************************)
(* The page is never stale for good: a visible expanded directory shows    *)
(* what is on disk, or a notice, a pending refresh or an answer that will  *)
(* be applied to this very row is on its way (scheduleRefresh, refreshDir, *)
(* toggleDir, reconcileChildren and purgeNode together).  The one          *)
(* exception is a directory that was collapsed when its refresh was due.   *)
(***************************************************************************)
StalenessIsCovered ==
    \A n \in Watched \ skipped :
        \/ UpToDate(n)
        \/ \E i \in DOMAIN reqs : reqs[i].to = n /\ reqs[i].use # "ignore"
        \/ /\ reg[node[n].path] = n
           /\ \/ node[n].path \in pending /\ timer
              \/ node[n].path \in Range(notices)

(***************************************************************************)
(* Every row on the page is the one registered for its path, so refreshes, *)
(* expandAll and the ticks of the timeline reach it, and no path has two   *)
(* rows (makeNode and purgeNode keep state.nodes in step with the page).   *)
(***************************************************************************)
RowsAreRegistered == \A n \in Shown : reg[node[n].path] = n

(***************************************************************************)
(* A refresh does not disturb the user: a row whose path stays on the page *)
(* keeps its node, hence its expansion and what is below it.               *)
(***************************************************************************)
RowsSurviveRefresh ==
    [][\A n \in Shown : n \notin Shown' =>
          \A m \in Shown' : node'[m].path # node[n].path]_vars

(***************************************************************************)
(* Once the directory and the user are quiet every visible expanded        *)
(* directory shows the disk, except one collapsed when its refresh was due *)
(* (scheduleRefresh, refreshDir and the awaits of fetchTree).              *)
(***************************************************************************)
SettlesUnlessSkipped == <>[](\A n \in Watched \ skipped : UpToDate(n))
=============================================================================
