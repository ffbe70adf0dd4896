-------------------------------- MODULE Page --------------------------------
(***************************************************************************)
(* The browser page (web/app.js) on the receiving end of the hub: its      *)
(* WebSocket connection with the asynchronous onConnect, the timeline, and *)
(* the pill that says what Claude is doing, driven by hook events, an idle *)
(* timer and a count of tool calls.                                        *)
(*                                                                         *)
(* The stream is the one Hub shows: a live frame of each event, in the     *)
(* order of the broadcasts as far as they have one, and, anywhere between  *)
(* them, a replay of the last Keep stored events; an event can be replayed *)
(* before its live frame comes, and live frames may be lost.  Claude and   *)
(* its hook commands are outside the repository; what is assumed of them   *)
(* is in the section "Claude".                                             *)
(***************************************************************************)
EXTENDS Integers, Sequences, FiniteSets, SequencesExt

CONSTANTS
    Keep,           \* size of the replay ring
    AutoPause,      \* --auto-pause
    MaxEvents,      \* bound on the stored events
    MaxTools,       \* bound on the tool calls in flight
    MaxConnects,    \* bound on the connections
    Lossy           \* live events may be lost (Hub: a full channel)

ASSUME PageAssumption ==
    /\ Keep \in Nat \ {0}
    /\ {MaxEvents, MaxTools, MaxConnects} \subseteq Nat
    /\ {AutoPause, Lossy} \subseteq BOOLEAN

VARIABLES
    busy,           \* Claude works on a prompt
    inflight,       \* its tool calls without an end so far
    failed,         \* tool calls of the session that ended without a hook event
    log,            \* all stored events: a phase, or "file" for file activity
    connects,       \* connections so far
    ws,             \* "down" | "up": registered, replay due | "replaying": snapshot taken
    offers,         \* places in the log still to be offered to this connection
    backlog,        \* places in the log the replay still has to send
    channel,        \* places in the log sent to the page and not received
    direct,         \* history: all events came live, from the first on
    raced,          \* history: a live frame fell into the middle of a replay
    asking,         \* /api/info requests of onConnect without an answer
    rootKnown,      \* state.rootDir is set
    shown,          \* state.events, as places in the log
    label,          \* state.claude.state
    activeTools,    \* state.claude.activeTools
    timers,         \* idle timers that have not fired or been cleared
    armed,          \* state.claude.idleTimer is one of them
    running         \* state.running

claudeVars == <<busy, inflight, failed>>
feedVars == <<log, connects, ws, offers, backlog, channel, direct, raced>>
pageVars == <<asking, rootKnown, shown>>
pillVars == <<label, activeTools, timers, armed, running>>
vars == <<claudeVars, feedVars, pageVars, pillVars>>

\* The phases that move the pill, and those only logged in the panel.
Working == {"user_prompt", "pre", "post"}
LoggedOnly == {"subagent_stop", "notification"}
Phase == Working \cup LoggedOnly \cup {"session_start", "stop"}

Init ==
    /\ busy = FALSE /\ inflight = 0 /\ failed = 0
    /\ log = <<>> /\ connects = 0
    /\ ws = "down" /\ offers = {} /\ backlog = <<>> /\ channel = <<>>
    /\ direct = TRUE /\ raced = FALSE
    /\ asking = 0 /\ rootKnown = FALSE /\ shown = {}
    /\ label = "idle" /\ activeTools = 0 /\ timers = 0 /\ armed = FALSE
    /\ running = TRUE

-----------------------------------------------------------------------------
(* The server: claudeHookHandler and the hub.                              *)

\* mapPhase; other hook events, and sessions outside the watched directory,
\* are dropped by the handler.
MapPhase ==
    [PreToolUse |-> "pre", PostToolUse |-> "post", UserPromptSubmit |-> "user_prompt",
     SessionStart |-> "session_start", Stop |-> "stop",
     SubagentStop |-> "subagent_stop", Notification |-> "notification"]

\* hub.send up to the unlock: the event is stored, the clients are copied.
Store(kind) ==
    /\ Len(log) < MaxEvents
    /\ log' = Append(log, kind)
    /\ \/ ws # "down" /\ offers' = offers \cup {Len(log) + 1} /\ UNCHANGED direct
       \/ ws = "down" /\ direct' = FALSE /\ UNCHANGED offers
    /\ UNCHANGED <<connects, ws, backlog, channel, raced, pageVars, pillVars>>

\* After the unlock: the send to this connection, dropped if it is full.
Offer ==
    /\ \E i \in offers :
          /\ offers' = offers \ {i}
          /\ \/ channel' = Append(channel, i) /\ UNCHANGED direct
             \/ Lossy /\ direct' = FALSE /\ UNCHANGED channel
    /\ raced' = (raced \/ backlog # <<>>)
    /\ UNCHANGED <<claudeVars, log, connects, ws, backlog, pageVars, pillVars>>

\* Who is still being told of hook events, and of file activity.
Telling == {i \in offers : log[i] # "file"}
Reporting == offers \ Telling

-----------------------------------------------------------------------------
(* Claude.                                                                 *)

\* Its hook command posts to /api/claude/event, and Claude waits for it (5 s; a
\* broadcast never blocks): one hook event is broadcast after the other.
Hook(name) == Telling = {} /\ Store(MapPhase[name])

SessionStart ==
    /\ ~busy
    /\ failed' = 0
    /\ Hook("SessionStart")
    /\ UNCHANGED <<busy, inflight>>

Prompt ==
    /\ ~busy
    /\ busy' = TRUE
    /\ Hook("UserPromptSubmit")
    /\ UNCHANGED <<inflight, failed>>

ToolStarts ==
    /\ busy /\ inflight < MaxTools
    /\ inflight' = inflight + 1
    /\ Hook("PreToolUse")
    /\ UNCHANGED <<busy, failed>>

ToolEnds ==
    /\ inflight > 0
    /\ inflight' = inflight - 1
    /\ Hook("PostToolUse")
    /\ UNCHANGED <<busy, failed>>

\* A tool call that is denied or interrupted has no PostToolUse.
ToolFails ==
    /\ inflight > 0 /\ failed < MaxTools
    /\ inflight' = inflight - 1
    /\ failed' = failed + 1
    /\ UNCHANGED <<busy, feedVars, pageVars, pillVars>>

Stop ==
    /\ busy /\ inflight = 0
    /\ busy' = FALSE
    /\ Hook("Stop")
    /\ UNCHANGED <<inflight, failed>>

OtherHook ==
    /\ \E name \in {"SubagentStop", "Notification"} : Hook(name)
    /\ UNCHANGED claudeVars

\* The tap and the watcher broadcast one event each at a time.
FileActivity ==
    /\ Cardinality(Reporting) < 2
    /\ Store("file")
    /\ UNCHANGED claudeVars

-----------------------------------------------------------------------------
(* The connection.                                                         *)

\* The handler registers the client; ws.onopen runs onConnect up to its await.
Connect ==
    /\ ws = "down" /\ connects < MaxConnects
    /\ ws' = "up"
    /\ connects' = connects + 1
    /\ asking' = asking + 1
    /\ raced' = FALSE
    /\ UNCHANGED <<claudeVars, log, offers, backlog, channel, direct, rootKnown, shown, pillVars>>

\* hub.snapshot: the last Keep stored events, oldest first.
Recent ==
    LET n == IF Len(log) < Keep THEN Len(log) ELSE Keep
    IN  [i \in 1 .. n |-> Len(log) - n + i]

\* Mutant of Snapshot: the newest event is replayed first.
SnapshotReversed ==
    /\ ws = "up"
    /\ ws' = "replaying"
    /\ backlog' = Reverse(Recent)
    /\ direct' = (direct /\ log = <<>>)
    /\ UNCHANGED <<claudeVars, log, connects, offers, channel, raced, pageVars, pillVars>>

\* The replay goroutine takes the snapshot.
Snapshot ==
    /\ ws = "up"
    /\ ws' = "replaying"
    /\ backlog' = Recent
    /\ direct' = (direct /\ log = <<>>)
    /\ UNCHANGED <<claudeVars, log, connects, offers, channel, raced, pageVars, pillVars>>

\* It sends one event of it on the client's channel.
ReplaySend ==
    /\ backlog # <<>>
    /\ channel' = Append(channel, Head(backlog))
    /\ backlog' = Tail(backlog)
    /\ UNCHANGED <<claudeVars, log, connects, ws, offers, direct, raced, pageVars, pillVars>>

HangUp ==
    /\ ws # "down"
    /\ ws' = "down" /\ offers' = {} /\ backlog' = <<>> /\ channel' = <<>>
    /\ direct' = FALSE
    /\ UNCHANGED <<claudeVars, log, connects, raced>>

\* The connection breaks; onclose reconnects a second later.
Disconnect == HangUp /\ UNCHANGED <<pageVars, pillVars>>

\* The user loads the page anew.
Reload ==
    /\ HangUp
    /\ asking' = 0 /\ rootKnown' = FALSE /\ shown' = {}
    /\ label' = "idle" /\ activeTools' = 0 /\ timers' = 0 /\ armed' = FALSE
    /\ running' = TRUE

\* /api/info answers: the first answer of a page sets the root and starts
\* with an empty timeline; a later one finds the root unchanged.
InfoArrives ==
    /\ asking > 0
    /\ asking' = asking - 1
    /\ rootKnown' = TRUE
    /\ shown' = IF rootKnown THEN shown ELSE {}
    /\ UNCHANGED <<claudeVars, feedVars, pillVars>>

InfoFails ==
    /\ asking > 0
    /\ asking' = asking - 1
    /\ UNCHANGED <<claudeVars, feedVars, rootKnown, shown, pillVars>>

-----------------------------------------------------------------------------
(* The pill.                                                               *)

\* clearTimeout(state.claude.idleTimer), a no-op once that timer has fired.
ClearTimer == timers' = timers - (IF armed THEN 1 ELSE 0) /\ armed' = FALSE

\* armIdleTimer: clear the timer, set a new one.
ArmIdleTimer == timers' = timers + (IF armed THEN 0 ELSE 1) /\ armed' = TRUE

\* pingClaudeActive
PingActive == label' = "working" /\ ArmIdleTimer

\* setRunning(r) under state.autoPause, which /api/info has set.
AutoRun(r) == running' = IF AutoPause /\ rootKnown THEN r ELSE running

OnPrompt == PingActive /\ AutoRun(TRUE) /\ UNCHANGED activeTools

OnPre == activeTools' = activeTools + 1 /\ PingActive /\ AutoRun(TRUE)

\* Mutants of OnPost: the count goes below zero; the count is left alone.
OnPostUnclamped == activeTools' = activeTools - 1 /\ PingActive /\ UNCHANGED running
OnPostUncounted == PingActive /\ UNCHANGED <<activeTools, running>>

OnPost ==
    /\ activeTools' = IF activeTools > 0 THEN activeTools - 1 ELSE 0
    /\ PingActive
    /\ UNCHANGED running

OnSessionStart == activeTools' = 0 /\ label' = "idle" /\ ClearTimer /\ UNCHANGED running

\* Mutant of OnStop: the idle timer goes on running.
OnStopTimerLeft ==
    label' = "waiting" /\ AutoRun(FALSE) /\ UNCHANGED <<activeTools, timers, armed>>

OnStop == label' = "waiting" /\ ClearTimer /\ AutoRun(FALSE) /\ UNCHANGED activeTools

\* The switch of handleClaudeEvent.
HandlePhase(phase) ==
    \/ phase = "user_prompt" /\ OnPrompt
    \/ phase = "pre" /\ OnPre
    \/ phase = "post" /\ OnPost
    \/ phase = "session_start" /\ OnSessionStart
    \/ phase = "stop" /\ OnStop
    \/ phase \in LoggedOnly /\ UNCHANGED pillVars

\* ws.onmessage: file activity goes to the timeline.
Receive ==
    /\ channel # <<>>
    /\ channel' = Tail(channel)
    /\ LET i == Head(channel)
       IN  \/ log[i] = "file" /\ shown' = shown \cup {i} /\ UNCHANGED pillVars
           \/ HandlePhase(log[i]) /\ UNCHANGED shown
    /\ UNCHANGED <<claudeVars, log, connects, ws, offers, backlog, direct, raced, asking, rootKnown>>

\* Mutant of IdleTimerFires: the timer is set again when no tool is in flight.
IdleTimerFiresOffByOne ==
    /\ timers > 0
    /\ activeTools < 0
    /\ timers' = timers - 1 /\ armed' = FALSE
    /\ label' = "thinking"
    /\ UNCHANGED <<claudeVars, feedVars, pageVars, activeTools, running>>

\* checkIdleOrReschedule.  With tools in flight it sets a new timer for the
\* one that fired, which changes nothing here.
IdleTimerFires ==
    /\ timers > 0
    /\ activeTools = 0
    /\ timers' = timers - 1 /\ armed' = FALSE
    /\ label' = "thinking"
    /\ UNCHANGED <<claudeVars, feedVars, pageVars, activeTools, running>>

\* The Stop / Start button.
ToggleRunning ==
    /\ running' = ~running
    /\ UNCHANGED <<claudeVars, feedVars, pageVars, label, activeTools, timers, armed>>

-----------------------------------------------------------------------------
Claude ==
    \/ SessionStart \/ Prompt \/ ToolStarts \/ ToolEnds \/ ToolFails \/ Stop
    \/ OtherHook \/ FileActivity

Connection == Connect \/ Snapshot \/ ReplaySend \/ Offer \/ Disconnect

Browser == Reload \/ InfoArrives \/ InfoFails \/ Receive \/ IdleTimerFires \/ ToggleRunning

Next == Claude \/ Connection \/ Browser

Spec == Init /\ [][Next]_vars

\* Broadcasts go on, messages arrive and timers fire.
FairSpec ==
    /\ Spec
    /\ WF_vars(Offer) /\ WF_vars(Snapshot) /\ WF_vars(ReplaySend) /\ WF_vars(Receive)
    /\ WF_vars(IdleTimerFires)
-----------------------------------------------------------------------------
(* The phase of every stored event, the places sent and shown, the pill.   *)
TypeOK ==
    /\ busy \in BOOLEAN /\ inflight \in 0 .. MaxTools /\ failed \in 0 .. MaxTools
    /\ log \in Seq(Phase \cup {"file"}) /\ Len(log) <= MaxEvents
    /\ connects \in 0 .. MaxConnects
    /\ ws \in {"down", "up", "replaying"}
    /\ offers \subseteq DOMAIN log
    /\ backlog \in Seq(DOMAIN log) /\ channel \in Seq(DOMAIN log)
    /\ asking \in 0 .. MaxConnects
    /\ shown \subseteq DOMAIN log
    /\ label \in {"idle", "working", "thinking", "waiting"}
    /\ activeTools \in Nat /\ timers \in Nat
    /\ {rootKnown, armed, running, direct, raced} \subseteq BOOLEAN

\* Everything sent to the page has been received, and no broadcast is under way.
Settled == ws = "replaying" /\ offers = {} /\ backlog = <<>> /\ channel = <<>>

(***************************************************************************)
(* The idle timer and the label agree: there is one timer, the one that    *)
(* state.claude.idleTimer names, exactly while the pill says "working".    *)
(* A forgotten or doubled timer would later turn "waiting" or "idle" into  *)
(* "thinking" (armIdleTimer, checkIdleOrReschedule, handleClaudeEvent).    *)
(***************************************************************************)
TimerMatchesLabel ==
    /\ timers = (IF armed THEN 1 ELSE 0)
    /\ armed <=> label = "working"

(***************************************************************************)
(* A page that has received everything live knows what Claude does: the    *)
(* count of tools is exact, up to the calls whose end no hook reported     *)
(* (handleClaudeEvent), and the pill says working or thinking exactly      *)
(* while Claude is busy, thinking only with no tool in flight.             *)
(***************************************************************************)
PillIsTruthful ==
    direct /\ Settled =>
        /\ activeTools = inflight + failed
        /\ busy <=> label \in {"working", "thinking"}
        /\ label = "thinking" => inflight = 0

(***************************************************************************)
(* Whatever was replayed, doubled or missed before: when the last event    *)
(* to move the pill is a stop still in the ring, and no live frame fell    *)
(* between two events of the latest replay, the pill ends on "waiting"     *)
(* (wsHandler registers before it takes the snapshot, and replays in       *)
(* order), even if the stop was replayed before its live frame came.       *)
(***************************************************************************)
StopIsShown ==
    Settled /\ ~raced /\ ~Lossy =>
        \A i \in DOMAIN log :
            /\ i > Len(log) - Keep
            /\ log[i] = "stop"
            /\ \A j \in i .. Len(log) : log[j] \in LoggedOnly \cup {"stop", "file"}
            => label = "waiting"

(***************************************************************************)
(* The pill does not stay on "working" for good unless a tool is counted   *)
(* as in flight (checkIdleOrReschedule).                                   *)
(***************************************************************************)
WorkingEnds == <>[](label = "working" => activeTools > 0)

(***************************************************************************)
(* The ring is there for replay on new connections (hub.go:14-15): when a  *)
(* page has received everything and knows its root, its timeline shows     *)
(* all the file activity that is in the ring.                              *)
(***************************************************************************)
ReplayIsShown ==
    Settled /\ rootKnown /\ ~Lossy =>
        \A i \in DOMAIN log : i > Len(log) - Keep /\ log[i] = "file" => i \in shown
=============================================================================
