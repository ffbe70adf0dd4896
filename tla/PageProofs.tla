----------------------------- MODULE PageProofs -----------------------------
(***************************************************************************)
(* Theorems about the browser page and its pill, for every size of the     *)
(* ring, every bound and either setting of --auto-pause: types, the idle   *)
(* timer, and what the pill shows, after live events only and after any    *)
(* history of replays.                                                     *)
(***************************************************************************)
EXTENDS Page, SequenceTheorems, TLAPS

Kind == Phase \cup {"file"}

(***************************************************************************)
(* TypeOK and TimerMatchesLabel need each other: a timer is cleared or     *)
(* fires only if it is there.  A request to /api/info belongs to a         *)
(* connection.                                                             *)
(***************************************************************************)
TypeInv == TypeOK /\ TimerMatchesLabel /\ asking <= connects

\* What is stored is one event more, still to be offered; page and pill stay.
LEMMA StoreType ==
    ASSUME TypeInv, NEW kind \in Kind, Store(kind),
           busy' \in BOOLEAN, inflight' \in 0 .. MaxTools, failed' \in 0 .. MaxTools
    PROVE  TypeInv'
<1>0. TypeOK /\ TimerMatchesLabel /\ asking <= connects
  BY DEF TypeInv
<1>1. /\ log' = Append(log, kind) /\ log \in Seq(Kind) /\ Len(log) < MaxEvents
      /\ UNCHANGED <<connects, ws, backlog, channel, raced, pageVars, pillVars>>
  BY <1>0 DEF Store, TypeOK, Kind
<1>2. /\ log' \in Seq(Kind) /\ Len(log') = Len(log) + 1 /\ Len(log) \in Nat
      /\ DOMAIN log = 1 .. Len(log) /\ DOMAIN log' = 1 .. Len(log) + 1
  BY <1>1, AppendProperties, LenProperties
<1>3. Len(log') <= MaxEvents
  BY <1>1, <1>2, PageAssumption
<1>4. DOMAIN log \subseteq DOMAIN log' /\ Len(log) + 1 \in DOMAIN log'
  BY <1>2
<1>5. \A s \in Seq(DOMAIN log) : s \in Seq(DOMAIN log')
  BY <1>4
<1>6. backlog' \in Seq(DOMAIN log') /\ channel' \in Seq(DOMAIN log')
  BY <1>0, <1>1, <1>5 DEF TypeOK
<1>7. direct' \in BOOLEAN /\ raced' \in BOOLEAN /\ offers' \subseteq DOMAIN log'
  BY <1>0, <1>1, <1>4 DEF Store, TypeOK
<1>8. TypeOK'
  BY <1>0, <1>1, <1>2, <1>3, <1>4, <1>6, <1>7 DEF TypeOK, pageVars, pillVars, Kind
<1>9. TimerMatchesLabel'
  BY <1>0, <1>1 DEF TimerMatchesLabel, pillVars
<1> QED
  BY <1>0, <1>1, <1>8, <1>9 DEF TypeInv, pageVars

\* The page starts with an idle pill and no timer.
LEMMA InitTypeInv == Init => TypeInv
<1> SUFFICES ASSUME Init PROVE TypeInv
  OBVIOUS
<1>1. <<>> \in Seq(Phase \cup {"file"}) /\ <<>> \in Seq(DOMAIN log) /\ Len(<<>>) = 0
  BY EmptySeq
<1>2. {rootKnown, armed, running, direct, raced} \subseteq BOOLEAN
  BY DEF Init
<1>3. /\ 0 \in 0 .. MaxTools /\ 0 \in 0 .. MaxConnects /\ 0 <= MaxEvents
  BY PageAssumption
<1>4. TypeOK
  BY <1>1, <1>2, <1>3 DEF Init, TypeOK
<1>5. TimerMatchesLabel /\ asking <= connects
  BY DEF Init, TimerMatchesLabel
<1> QED
  BY <1>4, <1>5 DEF TypeInv

\* Claude's steps store an event, but for the failure of a tool call; a hook
\* event only when the one before has been offered.
LEMMA ClaudeStep ==
    ASSUME TypeInv, Claude
    PROVE  \/ UNCHANGED <<feedVars, pageVars, pillVars>> /\ ToolFails
           \/ \E kind \in Kind : Store(kind) /\ (kind # "file" => Telling = {})
<1> USE DEF Hook, MapPhase, Kind, Phase, Working, LoggedOnly
<1>1. CASE SessionStart
  BY <1>1 DEF SessionStart
<1>2. CASE Prompt
  BY <1>2 DEF Prompt
<1>3. CASE ToolStarts
  BY <1>3 DEF ToolStarts
<1>4. CASE ToolEnds
  BY <1>4 DEF ToolEnds
<1>5. CASE ToolFails
  BY <1>5 DEF ToolFails
<1>6. CASE Stop
  BY <1>6 DEF Stop
<1>7. CASE OtherHook
  BY <1>7 DEF OtherHook
<1>8. CASE FileActivity
  BY <1>8 DEF FileActivity
<1> QED
  BY <1>1, <1>2, <1>3, <1>4, <1>5, <1>6, <1>7, <1>8 DEF Claude

(***************************************************************************)
(* What Claude does keeps the types: its tool calls are counted within     *)
(* their bound.                                                            *)
(***************************************************************************)
LEMMA ClaudeType == ASSUME TypeInv, Claude PROVE TypeInv'
<1>0. TypeOK /\ TimerMatchesLabel /\ asking <= connects
  BY DEF TypeInv
<1>1. busy' \in BOOLEAN /\ inflight' \in 0 .. MaxTools /\ failed' \in 0 .. MaxTools
  <2>1. /\ busy \in BOOLEAN /\ MaxTools \in Nat
        /\ inflight \in 0 .. MaxTools /\ failed \in 0 .. MaxTools
    BY <1>0, PageAssumption DEF TypeOK
  <2>2. busy' \in BOOLEAN
    BY <2>1 DEF Claude, SessionStart, Prompt, ToolStarts, ToolEnds, ToolFails, Stop, OtherHook,
                FileActivity, claudeVars
  <2>3. \/ UNCHANGED inflight
        \/ inflight < MaxTools /\ inflight' = inflight + 1
        \/ inflight > 0 /\ inflight' = inflight - 1
    BY DEF Claude, SessionStart, Prompt, ToolStarts, ToolEnds, ToolFails, Stop, OtherHook,
           FileActivity, claudeVars
  <2>4. UNCHANGED failed \/ failed' = 0 \/ (failed < MaxTools /\ failed' = failed + 1)
    BY DEF Claude, SessionStart, Prompt, ToolStarts, ToolEnds, ToolFails, Stop, OtherHook,
           FileActivity, claudeVars
  <2> QED
    BY <2>1, <2>2, <2>3, <2>4
<1>2. CASE UNCHANGED <<feedVars, pageVars, pillVars>>
  <2>1. TypeOK'
    BY <1>0, <1>1, <1>2 DEF TypeOK, feedVars, pageVars, pillVars
  <2> QED
    BY <1>0, <1>2, <2>1 DEF TypeInv, TimerMatchesLabel, feedVars, pageVars, pillVars
<1>3. ASSUME NEW kind \in Kind, Store(kind) PROVE TypeInv'
  BY <1>1, <1>3, StoreType
<1> QED
  BY <1>2, <1>3, ClaudeStep

\* The places of the recent history, oldest first.
LEMMA RecentPlaces ==
    ASSUME TypeOK
    PROVE  \E n \in 0 .. Len(log) :
              /\ \A i \in 1 .. Len(log) : i > Len(log) - Keep => i > Len(log) - n
              /\ log = <<>> => n = 0
              /\ Recent \in Seq(DOMAIN log) /\ Len(Recent) = n
              /\ \A i \in 1 .. n : Recent[i] = Len(log) - n + i
<1> DEFINE n == IF Len(log) < Keep THEN Len(log) ELSE Keep
<1>1. Len(log) \in Nat /\ DOMAIN log = 1 .. Len(log)
  BY LenProperties DEF TypeOK
<1>2. n \in 0 .. Len(log)
  BY <1>1, PageAssumption
<1>3. Recent = [i \in 1 .. n |-> Len(log) - n + i]
  BY DEF Recent
<1>4. /\ \A i \in 1 .. Len(log) : i > Len(log) - Keep => i > Len(log) - n
      /\ log = <<>> => n = 0
  <2>1. log = <<>> => Len(log) = 0
    BY EmptySeq
  <2> QED
    BY <1>1, <2>1, PageAssumption
<1> HIDE DEF n
<1>5. \A i \in 1 .. n : Len(log) - n + i \in DOMAIN log
  BY <1>1, <1>2
<1>6. Recent \in [1 .. n -> DOMAIN log]
  BY <1>3, <1>5
<1>7. Recent \in Seq(DOMAIN log) /\ Len(Recent) = n
  BY <1>1, <1>2, <1>6
<1>8. \A i \in 1 .. n : Recent[i] = Len(log) - n + i
  BY <1>3
<1> QED
  BY <1>2, <1>4, <1>7, <1>8

\* A connection comes, replays and goes.
LEMMA ConnectionType == ASSUME TypeInv, Connection PROVE TypeInv'
<1>0. TypeOK /\ TimerMatchesLabel /\ asking <= connects
  BY DEF TypeInv
<1>1. UNCHANGED <<claudeVars, log, pillVars, rootKnown, shown>> /\ offers' \subseteq offers
  BY DEF Connection, Connect, Snapshot, ReplaySend, Offer, Disconnect, HangUp, pageVars
<1>2. TimerMatchesLabel'
  BY <1>0, <1>1 DEF TimerMatchesLabel, pillVars
<1>3. connects' \in 0 .. MaxConnects /\ asking' \in 0 .. MaxConnects /\ asking' <= connects'
  <2>1. CASE Connect
    <3>1. connects' = connects + 1 /\ asking' = asking + 1 /\ connects < MaxConnects
      BY <2>1 DEF Connect
    <3> QED
      BY <1>0, <3>1, PageAssumption DEF TypeOK
  <2>2. CASE Snapshot \/ ReplaySend \/ Offer \/ Disconnect
    BY <1>0, <2>2 DEF TypeOK, Snapshot, ReplaySend, Offer, Disconnect, HangUp, pageVars
  <2> QED
    BY <2>1, <2>2 DEF Connection
<1>4. direct' \in BOOLEAN /\ raced' \in BOOLEAN /\ ws' \in {"down", "up", "replaying"}
  BY <1>0 DEF TypeOK, Connection, Connect, Snapshot, ReplaySend, Offer, Disconnect, HangUp
<1>5. backlog' \in Seq(DOMAIN log) /\ channel' \in Seq(DOMAIN log)
  <2>1. CASE Connect
    BY <1>0, <2>1 DEF TypeOK, Connect
  <2>2. CASE Snapshot
    BY <1>0, <2>2, RecentPlaces DEF TypeOK, Snapshot
  <2>3. CASE ReplaySend
    BY <1>0, <2>3, HeadTailProperties, AppendProperties DEF TypeOK, ReplaySend
  <2>4. CASE Disconnect
    BY <2>4, EmptySeq DEF Disconnect, HangUp
  <2>5. CASE Offer
    <3>1. PICK i \in offers : channel' = channel \/ channel' = Append(channel, i)
      BY <2>5 DEF Offer
    <3>2. i \in DOMAIN log /\ channel \in Seq(DOMAIN log) /\ UNCHANGED backlog
      BY <1>0, <2>5 DEF TypeOK, Offer
    <3>3. Append(channel, i) \in Seq(DOMAIN log)
      BY <3>2, AppendProperties
    <3> QED
      BY <1>0, <3>1, <3>2, <3>3 DEF TypeOK
  <2> QED
    BY <2>1, <2>2, <2>3, <2>4, <2>5 DEF Connection
<1>6. TypeOK'
  BY <1>0, <1>1, <1>3, <1>4, <1>5 DEF TypeOK, claudeVars, pillVars
<1> QED
  BY <1>2, <1>3, <1>6 DEF TypeInv

(***************************************************************************)
(* The pill's own values keep their types, and the timer its label,        *)
(* whatever the phase.                                                     *)
(***************************************************************************)
LEMMA PhaseType ==
    ASSUME TypeInv, NEW phase, HandlePhase(phase)
    PROVE  /\ label' \in {"idle", "working", "thinking", "waiting"}
           /\ activeTools' \in Nat /\ timers' \in Nat
           /\ armed' \in BOOLEAN /\ running' \in BOOLEAN
           /\ TimerMatchesLabel'
<1>0. /\ label \in {"idle", "working", "thinking", "waiting"}
      /\ activeTools \in Nat /\ timers \in Nat /\ armed \in BOOLEAN /\ running \in BOOLEAN
      /\ timers = (IF armed THEN 1 ELSE 0) /\ (armed <=> label = "working")
  BY DEF TypeInv, TypeOK, TimerMatchesLabel
<1>1. PingActive => label' = "working" /\ timers' = 1 /\ armed' = TRUE
  BY <1>0 DEF PingActive, ArmIdleTimer
<1>2. ClearTimer => timers' = 0 /\ armed' = FALSE
  BY <1>0 DEF ClearTimer
<1>3. AutoRun(TRUE) \/ AutoRun(FALSE) => running' \in BOOLEAN
  BY <1>0 DEF AutoRun
<1>4. CASE OnPrompt \/ OnPre \/ OnPost
  <2>1. label' = "working" /\ timers' = 1 /\ armed' = TRUE
    BY <1>1, <1>4 DEF OnPrompt, OnPre, OnPost
  <2>2. activeTools' \in Nat
    <3>1. \/ activeTools' \in {0, activeTools, activeTools + 1}
          \/ activeTools > 0 /\ activeTools' = activeTools - 1
      BY <1>4 DEF OnPrompt, OnPre, OnPost
    <3> QED
      BY <1>0, <3>1
  <2>3. running' \in BOOLEAN
    BY <1>0, <1>3, <1>4 DEF OnPrompt, OnPre, OnPost
  <2> QED
    BY <2>1, <2>2, <2>3 DEF TimerMatchesLabel
<1>5. CASE OnSessionStart \/ OnStop
  <2>1. label' \in {"idle", "waiting"} /\ timers' = 0 /\ armed' = FALSE
    BY <1>2, <1>5 DEF OnSessionStart, OnStop
  <2>2. activeTools' \in Nat
    <3>1. activeTools' \in {0, activeTools}
      BY <1>5 DEF OnSessionStart, OnStop
    <3> QED
      BY <1>0, <3>1
  <2>3. running' \in BOOLEAN
    BY <1>0, <1>3, <1>5 DEF OnSessionStart, OnStop
  <2> QED
    BY <2>1, <2>2, <2>3 DEF TimerMatchesLabel
<1>6. CASE UNCHANGED pillVars
  BY <1>0, <1>6 DEF pillVars, TimerMatchesLabel
<1> QED
  BY <1>4, <1>5, <1>6 DEF HandlePhase

\* A message, an answer, the timer, a reload and the button.
LEMMA BrowserType == ASSUME TypeInv, Browser PROVE TypeInv'
<1>0. TypeOK /\ TimerMatchesLabel /\ asking <= connects
  BY DEF TypeInv
<1>1. UNCHANGED <<claudeVars, log, connects>>
  BY DEF Browser, Reload, HangUp, InfoArrives, InfoFails, Receive, IdleTimerFires, ToggleRunning,
         feedVars
<1>2. CASE Receive
  <2> DEFINE i == Head(channel)
  <2>1. /\ channel # <<>> /\ channel' = Tail(channel)
        /\ UNCHANGED <<ws, offers, backlog, direct, raced, asking, rootKnown>>
        /\ \/ shown' = shown \cup {i} /\ UNCHANGED pillVars
           \/ HandlePhase(log[i]) /\ UNCHANGED shown
    BY <1>2 DEF Receive
  <2>2. i \in DOMAIN log /\ channel' \in Seq(DOMAIN log)
    BY <1>0, <2>1, HeadTailProperties DEF TypeOK
  <2> HIDE DEF i
  <2>3. shown' \subseteq DOMAIN log
    BY <1>0, <2>1, <2>2 DEF TypeOK
  <2>4. /\ label' \in {"idle", "working", "thinking", "waiting"}
        /\ activeTools' \in Nat /\ timers' \in Nat
        /\ armed' \in BOOLEAN /\ running' \in BOOLEAN
        /\ TimerMatchesLabel'
    <3>1. CASE UNCHANGED pillVars
      BY <1>0, <3>1 DEF TypeOK, TimerMatchesLabel, pillVars
    <3>2. CASE HandlePhase(log[i])
      BY <3>2, PhaseType
    <3> QED
      BY <2>1, <3>1, <3>2
  <2>5. TypeOK'
    BY <1>0, <1>1, <2>1, <2>2, <2>3, <2>4 DEF TypeOK, claudeVars
  <2> QED
    BY <1>0, <1>1, <2>1, <2>4, <2>5 DEF TypeInv
<1>3. CASE IdleTimerFires
  <2>1. /\ label' = "thinking" /\ timers' = 0 /\ armed' = FALSE
        /\ UNCHANGED <<feedVars, pageVars, activeTools, running>>
    BY <1>0, <1>3 DEF IdleTimerFires, TypeOK, TimerMatchesLabel
  <2>2. TypeOK'
    BY <1>0, <1>1, <2>1 DEF TypeOK, claudeVars, feedVars, pageVars
  <2> QED
    BY <1>0, <1>1, <2>1, <2>2 DEF TypeInv, TimerMatchesLabel, pageVars
<1>4. CASE ToggleRunning
  <2>1. running' \in BOOLEAN /\ UNCHANGED <<feedVars, pageVars, label, activeTools, timers, armed>>
    BY <1>0, <1>4 DEF ToggleRunning, TypeOK
  <2>2. TypeOK'
    BY <1>0, <1>1, <2>1 DEF TypeOK, claudeVars, feedVars, pageVars
  <2> QED
    BY <1>0, <1>1, <2>1, <2>2 DEF TypeInv, TimerMatchesLabel, pageVars
<1>5. CASE InfoArrives \/ InfoFails
  <2>1. /\ asking > 0 /\ asking' = asking - 1 /\ shown' \subseteq shown /\ rootKnown' \in BOOLEAN
        /\ UNCHANGED <<feedVars, pillVars>>
    BY <1>0, <1>5 DEF InfoArrives, InfoFails, TypeOK
  <2>2. asking' \in 0 .. MaxConnects /\ asking' <= connects
    BY <1>0, <2>1, PageAssumption DEF TypeOK
  <2>3. TypeOK'
    BY <1>0, <1>1, <2>1, <2>2 DEF TypeOK, claudeVars, feedVars, pillVars
  <2> QED
    BY <1>0, <1>1, <2>1, <2>2, <2>3 DEF TypeInv, TimerMatchesLabel, pillVars
<1>6. CASE Reload
  <2>1. backlog' \in Seq(DOMAIN log') /\ channel' \in Seq(DOMAIN log')
    BY <1>6, EmptySeq DEF Reload, HangUp
  <2>2. {rootKnown', armed', running', direct', raced'} \subseteq BOOLEAN
    BY <1>0, <1>6 DEF Reload, HangUp, TypeOK
  <2>3. asking' \in 0 .. MaxConnects /\ asking' <= connects
    BY <1>0, <1>6, PageAssumption DEF Reload, TypeOK
  <2>4. TypeOK'
    BY <1>0, <1>1, <1>6, <2>1, <2>2, <2>3 DEF Reload, HangUp, TypeOK, claudeVars
  <2>5. TimerMatchesLabel'
    BY <1>6 DEF Reload, TimerMatchesLabel
  <2> QED
    BY <1>1, <2>3, <2>4, <2>5 DEF TypeInv
<1> QED
  BY <1>2, <1>3, <1>4, <1>5, <1>6 DEF Browser

\* Every step keeps the types.
LEMMA NextTypeInv == TypeInv /\ [Next]_vars => TypeInv'
<1> SUFFICES ASSUME TypeInv, [Next]_vars PROVE TypeInv'
  OBVIOUS
<1>1. CASE UNCHANGED vars
  <2>1. TypeOK'
    BY <1>1 DEF TypeInv, TypeOK, vars, claudeVars, feedVars, pageVars, pillVars
  <2> QED
    BY <1>1, <2>1 DEF TypeInv, TimerMatchesLabel, vars, claudeVars, feedVars, pageVars, pillVars
<1> QED
  BY <1>1, ClaudeType, ConnectionType, BrowserType DEF Next

(***************************************************************************)
(* Type correctness of the page, its stream and its pill.                  *)
(***************************************************************************)
THEOREM TypeCorrect == Spec => []TypeOK
<1>1. TypeInv => TypeOK
  BY DEF TypeInv
<1> QED
  BY <1>1, InitTypeInv, NextTypeInv, PTL DEF Spec

(***************************************************************************)
(* There is one idle timer, exactly while the pill says "working".         *)
(***************************************************************************)
THEOREM TimerCorrect == Spec => []TimerMatchesLabel
<1>1. TypeInv => TimerMatchesLabel
  BY DEF TypeInv
<1> QED
  BY <1>1, InitTypeInv, NextTypeInv, PTL DEF Spec
-----------------------------------------------------------------------------
(***************************************************************************)
(* Hook events are broadcast one after the other: while one is still to be *)
(* offered, only file activity has been stored after it.                   *)
(***************************************************************************)
OneHook ==
    \A h \in offers : log[h] # "file" => \A j \in h + 1 .. Len(log) : log[j] = "file"

LEMMA InitOneHook == Init => OneHook
BY DEF Init, OneHook

\* A hook event is stored when none is being offered; otherwise offers shrink.
LEMMA NextOneHook == TypeInv /\ OneHook /\ [Next]_vars => OneHook'
<1> SUFFICES ASSUME TypeInv, OneHook, [Next]_vars PROVE OneHook'
  OBVIOUS
<1>1. CASE UNCHANGED <<log, offers>>
  BY <1>1 DEF OneHook
<1>2. CASE log' = log /\ offers' \subseteq offers
  BY <1>2 DEF OneHook
<1>3. ASSUME NEW kind \in Kind, Store(kind), kind # "file" => Telling = {} PROVE OneHook'
  <2>1. /\ log' = Append(log, kind) /\ log \in Seq(Kind) /\ offers \subseteq DOMAIN log
        /\ offers' \subseteq offers \cup {Len(log) + 1}
    BY <1>3 DEF Store, TypeInv, TypeOK, Kind
  <2>2. /\ Len(log) \in Nat /\ DOMAIN log = 1 .. Len(log) /\ Len(log') = Len(log) + 1
        /\ log'[Len(log) + 1] = kind /\ \A j \in 1 .. Len(log) : log'[j] = log[j]
    BY <2>1, AppendProperties, LenProperties
  <2> SUFFICES ASSUME NEW h \in offers', log'[h] # "file", NEW j \in h + 1 .. Len(log')
               PROVE  log'[j] = "file"
    BY DEF OneHook
  <2>3. h \in offers /\ h \in 1 .. Len(log)
    BY <2>1, <2>2
  <2>4. log[h] # "file"
    BY <2>2, <2>3
  <2>5. kind = "file"
    BY <1>3, <2>3, <2>4 DEF Telling
  <2>6. CASE j = Len(log) + 1
    BY <2>2, <2>5, <2>6
  <2>7. CASE j # Len(log) + 1
    <3>1. j \in h + 1 .. Len(log) /\ j \in 1 .. Len(log)
      BY <2>2, <2>3, <2>7
    <3> QED
      BY <2>2, <2>3, <2>4, <3>1 DEF OneHook
  <2> QED
    BY <2>6, <2>7
<1>4. CASE Claude
  BY <1>1, <1>3, <1>4, ClaudeStep DEF feedVars
<1>5. CASE Connection
  <2>1. log' = log /\ offers' \subseteq offers
    BY <1>5 DEF Connection, Connect, Snapshot, ReplaySend, Offer, Disconnect, HangUp
  <2> QED
    BY <1>2, <2>1
<1>6. CASE Browser
  <2>1. log' = log /\ offers' \subseteq offers
    BY <1>6 DEF Browser, Reload, HangUp, InfoArrives, InfoFails, Receive, IdleTimerFires,
                ToggleRunning, feedVars
  <2> QED
    BY <1>2, <2>1
<1>7. CASE UNCHANGED vars
  BY <1>1, <1>7 DEF vars, feedVars
<1> QED
  BY <1>4, <1>5, <1>6, <1>7 DEF Next
-----------------------------------------------------------------------------
(***************************************************************************)
(* What the pill shows after live events only depends on what Claude did   *)
(* up to the last hook event received, not on what it does now.  So the    *)
(* invariant follows Claude along the log: a[i] tools were in flight or    *)
(* had failed after event i, and i is in B if a prompt was worked on then. *)
(* Tells(kind, m, v, n, w): the event leads from m tools to n, and from    *)
(* busy being v to its being w.  File activity, which may overtake hook    *)
(* events, tells nothing.                                                  *)
(***************************************************************************)
Tells(kind, m, v, n, w) ==
    /\ kind = "pre" => v /\ w /\ n = m + 1
    /\ kind = "post" => v /\ w /\ m > 0 /\ n = m - 1
    /\ kind = "user_prompt" => w /\ n = m
    /\ kind = "stop" => ~w /\ n = m
    /\ kind = "session_start" => ~v /\ ~w /\ n = 0
    /\ kind \in LoggedOnly \cup {"file"} => (w <=> v) /\ n = m

\* Only file activity from i, exclusive, to k.
FilesOnly(events, i, k) == \A j \in i + 1 .. k : events[j] = "file"

Course(a, B, n, v, events) ==
    /\ a \in [0 .. Len(events) -> Nat] /\ B \subseteq 0 .. Len(events)
    /\ a[Len(events)] = n /\ (Len(events) \in B <=> v)
    /\ \A i \in 1 .. Len(events) : Tells(events[i], a[i - 1], (i - 1) \in B, a[i], i \in B)
    /\ \A i, k \in 0 .. Len(events) :
          i <= k /\ FilesOnly(events, i, k) => a[k] = a[i] /\ (k \in B <=> i \in B)

(***************************************************************************)
(* The last hook event received is g: those after it are in the channel,   *)
(* in order, or, the latest, still to be offered.                          *)
(***************************************************************************)
HooksComing(g) ==
    /\ \A p \in 1 .. Len(channel) : log[channel[p]] # "file" =>
          /\ channel[p] > g
          /\ \A q \in p + 1 .. Len(channel) :
                log[channel[q]] # "file" => channel[p] < channel[q]
    /\ \A h \in g + 1 .. Len(log) : log[h] # "file" =>
          h \in offers \/ \E p \in 1 .. Len(channel) : channel[p] = h
    /\ \A h \in offers : log[h] # "file" =>
          /\ h > g
          /\ \A p \in 1 .. Len(channel) : log[channel[p]] # "file" => channel[p] < h

Knows(a, B, g) ==
    /\ ws = "down" => log = <<>>
    /\ backlog = <<>>
    /\ HooksComing(g)
    /\ activeTools = a[g]
    /\ g \in B <=> label \in {"working", "thinking"}
    /\ label = "thinking" => activeTools = 0

Tools == inflight + failed

PillInv ==
    /\ ~busy => inflight = 0
    /\ \E a, B :
          /\ Course(a, B, Tools, busy, log)
          /\ direct => \E g \in 0 .. Len(log) : Knows(a, B, g)

(***************************************************************************)
(* One more event: the course goes on from where it was.                   *)
(***************************************************************************)
LEMMA CourseGoesOn ==
    ASSUME NEW S, NEW events \in Seq(S), NEW kind \in S, NEW a, NEW B, NEW m, NEW v,
           Course(a, B, m, v, events),
           NEW n \in Nat, NEW w \in BOOLEAN, Tells(kind, m, v, n, w)
    PROVE  \E a2, B2 :
              /\ Course(a2, B2, n, w, Append(events, kind))
              /\ \A i \in 0 .. Len(events) : a2[i] = a[i] /\ (i \in B2 <=> i \in B)
<1> DEFINE k == Len(events)
           a2 == [i \in 0 .. k + 1 |-> IF i <= k THEN a[i] ELSE n]
           B2 == IF w THEN B \cup {k + 1} ELSE B
           longer == Append(events, kind)
<1>1. /\ k \in Nat /\ Len(longer) = k + 1 /\ longer[k + 1] = kind
      /\ \A i \in 1 .. k : longer[i] = events[i]
  BY AppendProperties, LenProperties
<1>2. /\ a \in [0 .. k -> Nat] /\ B \subseteq 0 .. k /\ a[k] = m /\ (k \in B <=> v)
      /\ \A i \in 1 .. k : Tells(events[i], a[i - 1], (i - 1) \in B, a[i], i \in B)
      /\ \A i, j \in 0 .. k :
            i <= j /\ FilesOnly(events, i, j) => a[j] = a[i] /\ (j \in B <=> i \in B)
  BY DEF Course
<1> HIDE DEF longer, k
<1>3. /\ a2 \in [0 .. k + 1 -> Nat] /\ a2[k + 1] = n
      /\ \A i \in 0 .. k : a2[i] = a[i]
  BY <1>1, <1>2
<1>4. /\ B2 \subseteq 0 .. k + 1 /\ (k + 1 \in B2 <=> w)
      /\ \A i \in 0 .. k : i \in B2 <=> i \in B
  BY <1>1, <1>2
<1> HIDE DEF a2, B2
<1>5. ASSUME NEW i \in 1 .. k + 1
      PROVE  Tells(longer[i], a2[i - 1], (i - 1) \in B2, a2[i], i \in B2)
  <2>1. CASE i <= k
    <3>1. i \in 1 .. k /\ i \in 0 .. k /\ i - 1 \in 0 .. k
      BY <1>1, <2>1
    <3>2. /\ longer[i] = events[i] /\ a2[i - 1] = a[i - 1] /\ a2[i] = a[i]
          /\ (i - 1) \in B2 <=> (i - 1) \in B
          /\ i \in B2 <=> i \in B
      BY <1>1, <1>3, <1>4, <3>1
    <3>3. Tells(events[i], a[i - 1], (i - 1) \in B, a[i], i \in B)
      BY <1>2, <3>1
    <3> QED
      BY <3>2, <3>3 DEF Tells
  <2>2. CASE i = k + 1
    <3>1. k \in 0 .. k /\ i - 1 = k
      BY <1>1, <2>2
    <3>2. a2[i - 1] = m /\ ((i - 1) \in B2 <=> v)
      BY <1>2, <1>3, <1>4, <3>1
    <3>3. longer[i] = kind /\ a2[i] = n /\ (i \in B2 <=> w)
      BY <1>1, <1>3, <1>4, <2>2
    <3> QED
      BY <3>2, <3>3 DEF Tells
  <2> QED
    BY <1>1, <2>1, <2>2
<1>6. ASSUME NEW i \in 0 .. k + 1, NEW j \in 0 .. k + 1, i <= j, FilesOnly(longer, i, j)
      PROVE  a2[j] = a2[i] /\ (j \in B2 <=> i \in B2)
  <2>1. CASE j <= k
    <3>1. i \in 0 .. k /\ j \in 0 .. k
      BY <1>1, <1>6, <2>1
    <3>2. FilesOnly(events, i, j)
      <4> SUFFICES ASSUME NEW x \in i + 1 .. j PROVE events[x] = "file"
        BY DEF FilesOnly
      <4>1. x \in 1 .. k
        BY <1>1, <3>1
      <4> QED
        BY <1>1, <1>6, <4>1 DEF FilesOnly
    <3>3. a[j] = a[i] /\ (j \in B <=> i \in B)
      BY <1>2, <1>6, <3>1, <3>2
    <3> QED
      BY <1>3, <1>4, <3>1, <3>3
  <2>2. CASE j = k + 1 /\ i <= k
    <3>1. i \in 0 .. k /\ k \in 0 .. k /\ i <= k /\ k + 1 \in i + 1 .. j
      BY <1>1, <1>6, <2>2
    <3>2. longer[k + 1] = "file"
      BY <1>6, <3>1 DEF FilesOnly
    <3>3. kind = "file"
      BY <1>1, <3>2
    <3>4. FilesOnly(events, i, k)
      <4> SUFFICES ASSUME NEW x \in i + 1 .. k PROVE events[x] = "file"
        BY DEF FilesOnly
      <4>1. x \in 1 .. k /\ x \in i + 1 .. j
        BY <1>1, <2>2, <3>1
      <4> QED
        BY <1>1, <1>6, <4>1 DEF FilesOnly
    <3>5. a[k] = a[i] /\ (k \in B <=> i \in B)
      BY <1>2, <3>1, <3>4
    <3>6. n = m /\ (w <=> v)
      BY <3>3 DEF Tells
    <3> QED
      BY <1>2, <1>3, <1>4, <2>2, <3>1, <3>5, <3>6
  <2>3. CASE i = k + 1
    <3>1. j = i
      BY <1>1, <1>6, <2>3
    <3> QED
      BY <3>1
  <2> QED
    BY <1>1, <1>6, <2>1, <2>2, <2>3
<1>7. Course(a2, B2, n, w, longer)
  BY <1>1, <1>3, <1>4, <1>5, <1>6 DEF Course
<1> QED
  BY <1>3, <1>4, <1>7 DEF longer, k

(***************************************************************************)
(* A stored event leaves what the page has received alone; if nobody is    *)
(* there to be offered it, the guarantee ends.                             *)
(***************************************************************************)
LEMMA StoreKnown ==
    ASSUME TypeInv, NEW kind \in Kind, Store(kind), busy' \in BOOLEAN,
           PillInv, NEW n \in Nat, Tools' = n, Tells(kind, Tools, busy, n, busy'),
           ~busy' => inflight' = 0
    PROVE  PillInv'
<1>1. PICK a, B : /\ Course(a, B, Tools, busy, log)
                  /\ direct => \E g \in 0 .. Len(log) : Knows(a, B, g)
  BY DEF PillInv
<1>2. /\ log \in Seq(Kind) /\ log' = Append(log, kind) /\ channel \in Seq(DOMAIN log)
      /\ offers \subseteq DOMAIN log
      /\ UNCHANGED <<ws, backlog, channel, label, activeTools>>
  BY DEF TypeInv, TypeOK, Kind, Store, pageVars, pillVars
<1>3. PICK a2, B2 :
          /\ Course(a2, B2, n, busy', Append(log, kind))
          /\ \A i \in 0 .. Len(log) : a2[i] = a[i] /\ (i \in B2 <=> i \in B)
  BY <1>1, <1>2, CourseGoesOn
<1>4. ASSUME direct' PROVE \E g \in 0 .. Len(log') : Knows(a2, B2, g)'
  <2>1. direct /\ ws # "down" /\ offers' = offers \cup {Len(log) + 1}
    BY <1>4 DEF Store
  <2>2. PICK g \in 0 .. Len(log) : Knows(a, B, g)
    BY <1>1, <2>1
  <2>3. /\ Len(log) \in Nat /\ Len(log') = Len(log) + 1 /\ Len(channel) \in Nat
        /\ DOMAIN log = 1 .. Len(log) /\ log'[Len(log) + 1] = kind
        /\ \A i \in 1 .. Len(log) : log'[i] = log[i]
    BY <1>2, AppendProperties, LenProperties
  <2>4. /\ \A p \in 1 .. Len(channel) : channel[p] \in 1 .. Len(log)
        /\ \A p \in 1 .. Len(channel) : log'[channel[p]] = log[channel[p]]
    <3>1. \A p \in 1 .. Len(channel) : channel[p] \in DOMAIN log
      BY <1>2, ElementOfSeq
    <3> QED
      BY <2>3, <3>1
  <2>5. HooksComing(g)
    BY <2>2 DEF Knows
  <2>6. HooksComing(g)'
    <3>1. ASSUME NEW p \in 1 .. Len(channel), log'[channel[p]] # "file"
          PROVE  /\ channel[p] > g
                 /\ \A q \in p + 1 .. Len(channel) :
                       log'[channel[q]] # "file" => channel[p] < channel[q]
      <4>1. \A q \in p + 1 .. Len(channel) : q \in 1 .. Len(channel)
        BY <2>3
      <4> QED
        BY <2>4, <2>5, <3>1, <4>1 DEF HooksComing
    <3>2. ASSUME NEW h \in g + 1 .. Len(log'), log'[h] # "file"
          PROVE  h \in offers' \/ \E p \in 1 .. Len(channel) : channel[p] = h
      <4>1. CASE h = Len(log) + 1
        BY <2>1, <4>1
      <4>2. CASE h # Len(log) + 1
        <5>1. h \in g + 1 .. Len(log) /\ h \in 1 .. Len(log)
          BY <2>3, <4>2
        <5> QED
          BY <2>1, <2>3, <2>5, <3>2, <5>1 DEF HooksComing
      <4> QED
        BY <4>1, <4>2
    <3>3. ASSUME NEW h \in offers', log'[h] # "file"
          PROVE  /\ h > g
                 /\ \A p \in 1 .. Len(channel) : log'[channel[p]] # "file" => channel[p] < h
      <4>1. CASE h = Len(log) + 1
        BY <2>3, <2>4, <4>1
      <4>2. CASE h \in offers
        <5>1. h \in 1 .. Len(log)
          BY <1>2, <2>3, <4>2
        <5>2. log[h] # "file"
          BY <2>3, <3>3, <5>1
        <5> QED
          BY <2>4, <2>5, <4>2, <5>2 DEF HooksComing
      <4> QED
        BY <2>1, <4>1, <4>2
    <3> QED
      BY <1>2, <3>1, <3>2, <3>3 DEF HooksComing
  <2>7. g \in 0 .. Len(log') /\ a2[g] = a[g] /\ (g \in B2 <=> g \in B)
    BY <1>3, <2>3
  <2> QED
    BY <1>2, <2>1, <2>2, <2>6, <2>7 DEF Knows
<1> QED
  BY <1>2, <1>3, <1>4 DEF PillInv

(***************************************************************************)
(* Every hook event tells what changed; a tool call that fails is counted  *)
(* on.                                                                     *)
(***************************************************************************)
LEMMA ClaudeKnown == ASSUME TypeInv, PillInv, Claude PROVE PillInv'
<1>0. /\ busy \in BOOLEAN /\ inflight \in Nat /\ failed \in Nat /\ Tools \in Nat
      /\ (~busy => inflight = 0) /\ TypeInv'
  <2>1. inflight \in Nat /\ failed \in Nat
    BY PageAssumption DEF TypeInv, TypeOK
  <2> QED
    BY SMTT(30), <2>1, ClaudeType DEF TypeInv, TypeOK, Tools, PillInv
<1>1. busy' \in BOOLEAN
  BY <1>0 DEF TypeInv, TypeOK
<1> USE DEF Hook, MapPhase, Kind, Phase, Working, LoggedOnly
<1>2. CASE SessionStart
  <2>1. /\ Store("session_start") /\ ~busy /\ ~busy'
        /\ inflight' = 0 /\ failed' = 0
    BY <1>0, <1>2 DEF SessionStart
  <2>2. Tools' = 0
    BY <2>1 DEF Tools
  <2>3. Tells("session_start", Tools, busy, 0, busy')
    BY <2>1 DEF Tells
  <2> QED
    BY <1>1, <2>1, <2>2, <2>3, StoreKnown
<1>3. CASE Prompt
  <2>1. Store("user_prompt") /\ busy' /\ inflight' = inflight /\ failed' = failed
    BY <1>3 DEF Prompt
  <2>2. Tools' = Tools
    BY <2>1 DEF Tools
  <2>3. Tells("user_prompt", Tools, busy, Tools, busy')
    BY <2>1 DEF Tells
  <2> QED
    BY <1>0, <1>1, <2>1, <2>2, <2>3, StoreKnown
<1>4. CASE ToolStarts
  <2>1. /\ Store("pre") /\ busy /\ busy' /\ inflight' = inflight + 1 /\ failed' = failed
    BY <1>4 DEF ToolStarts
  <2>2. Tools' = Tools + 1 /\ Tools + 1 \in Nat
    BY <1>0, <2>1 DEF Tools
  <2>3. Tells("pre", Tools, busy, Tools + 1, busy')
    BY <2>1 DEF Tells
  <2> QED
    BY <1>0, <1>1, <2>1, <2>2, <2>3, StoreKnown
<1>5. CASE ToolEnds
  <2>1. /\ Store("post") /\ inflight > 0 /\ busy' = busy
        /\ inflight' = inflight - 1 /\ failed' = failed
    BY <1>5 DEF ToolEnds
  <2>2. Tools' = Tools - 1 /\ Tools > 0 /\ Tools - 1 \in Nat
    BY <1>0, <2>1 DEF Tools
  <2>3. busy /\ busy'
    BY <1>0, <2>1
  <2>4. Tells("post", Tools, busy, Tools - 1, busy')
    BY <2>2, <2>3 DEF Tells
  <2> QED
    BY <1>1, <2>1, <2>2, <2>3, <2>4, StoreKnown
<1>6. CASE ToolFails
  <2>1. /\ inflight > 0 /\ inflight' = inflight - 1 /\ failed' = failed + 1 /\ busy' = busy
        /\ UNCHANGED <<feedVars, pageVars, pillVars>>
    BY <1>6 DEF ToolFails
  <2>2. Tools' = Tools
    BY <1>0, <2>1 DEF Tools
  <2>3. ~busy' => inflight' = 0
    BY <1>0, <2>1
  <2>4. ASSUME NEW a, NEW B, NEW g, Knows(a, B, g) PROVE Knows(a, B, g)'
    BY <2>1, <2>4 DEF Knows, HooksComing, feedVars, pageVars, pillVars
  <2> QED
    BY <2>1, <2>2, <2>3, <2>4 DEF PillInv, feedVars
<1>7. CASE Stop
  <2>1. Store("stop") /\ ~busy' /\ inflight' = 0 /\ inflight' = inflight /\ failed' = failed
    BY <1>7 DEF Stop
  <2>2. Tools' = Tools
    BY <2>1 DEF Tools
  <2>3. Tells("stop", Tools, busy, Tools, busy')
    BY <2>1 DEF Tells
  <2> QED
    BY <1>0, <1>1, <2>1, <2>2, <2>3, StoreKnown
<1>8. CASE OtherHook \/ FileActivity
  <2>1. /\ \E kind \in LoggedOnly \cup {"file"} : Store(kind)
        /\ busy' = busy /\ inflight' = inflight /\ failed' = failed
    BY <1>8 DEF OtherHook, FileActivity, claudeVars
  <2>2. Tools' = Tools
    BY <2>1 DEF Tools
  <2>3. PICK kind \in LoggedOnly \cup {"file"} : Store(kind)
    BY <2>1
  <2>4. kind \in Kind /\ Tells(kind, Tools, busy, Tools, busy')
    BY <2>1 DEF Tells
  <2> QED
    BY <1>0, <1>1, <2>1, <2>2, <2>3, <2>4, StoreKnown
<1> QED
  BY <1>2, <1>3, <1>4, <1>5, <1>6, <1>7, <1>8 DEF Claude

\* The event offered is the first or last hook event of those to come.
LEMMA OfferKnown ==
    ASSUME TypeInv, OneHook, NEW a, NEW B, NEW g \in 0 .. Len(log), Knows(a, B, g),
           Offer, direct'
    PROVE  Knows(a, B, g)'
<1>1. PICK k \in offers : offers' = offers \ {k} /\ channel' = Append(channel, k)
  BY DEF Offer
<1>2. /\ channel \in Seq(DOMAIN log) /\ offers \subseteq DOMAIN log
      /\ UNCHANGED <<log, ws, backlog, label, activeTools>>
  BY DEF TypeInv, TypeOK, Offer, pillVars
<1>3. Len(log) \in Nat /\ DOMAIN log = 1 .. Len(log) /\ k \in DOMAIN log
  BY <1>1, <1>2, LenProperties DEF TypeInv, TypeOK
<1>4. /\ Len(channel) \in Nat /\ Len(channel') = Len(channel) + 1
      /\ channel'[Len(channel) + 1] = k
      /\ \A p \in 1 .. Len(channel) : channel'[p] = channel[p]
  BY <1>1, <1>2, <1>3, AppendProperties, LenProperties
<1>5. HooksComing(g)
  BY DEF Knows
<1>6. ASSUME NEW p \in 1 .. Len(channel'), log[channel'[p]] # "file"
      PROVE  /\ channel'[p] > g
             /\ \A q \in p + 1 .. Len(channel') :
                   log[channel'[q]] # "file" => channel'[p] < channel'[q]
  <2>1. CASE p = Len(channel) + 1
    <3>1. \A q \in p + 1 .. Len(channel') : FALSE
      BY <1>4, <2>1
    <3> QED
      BY <1>1, <1>4, <1>5, <1>6, <2>1, <3>1 DEF HooksComing
  <2>2. CASE p # Len(channel) + 1
    <3>1. p \in 1 .. Len(channel) /\ channel'[p] = channel[p]
      BY <1>4, <2>2
    <3>2. ASSUME NEW q \in p + 1 .. Len(channel'), log[channel'[q]] # "file"
          PROVE  channel[p] < channel'[q]
      <4>1. CASE q = Len(channel) + 1
        BY <1>1, <1>4, <1>5, <1>6, <3>1, <3>2, <4>1 DEF HooksComing
      <4>2. CASE q # Len(channel) + 1
        <5>1. q \in p + 1 .. Len(channel) /\ q \in 1 .. Len(channel)
          BY <1>4, <4>2
        <5> QED
          BY <1>4, <1>5, <1>6, <3>1, <3>2, <5>1 DEF HooksComing
      <4> QED
        BY <4>1, <4>2
    <3> QED
      BY <1>5, <1>6, <3>1, <3>2 DEF HooksComing
  <2> QED
    BY <2>1, <2>2
<1>7. ASSUME NEW h \in g + 1 .. Len(log), log[h] # "file"
      PROVE  h \in offers' \/ \E p \in 1 .. Len(channel') : channel'[p] = h
  <2>1. CASE h \in offers
    <3>1. CASE h = k
      <4>1. Len(channel) + 1 \in 1 .. Len(channel')
        BY <1>4
      <4> QED
        BY <1>4, <3>1, <4>1
    <3>2. CASE h # k
      BY <1>1, <2>1, <3>2
    <3> QED
      BY <3>1, <3>2
  <2>2. CASE \E p \in 1 .. Len(channel) : channel[p] = h
    <3>1. PICK p \in 1 .. Len(channel) : channel[p] = h
      BY <2>2
    <3>2. p \in 1 .. Len(channel') /\ channel'[p] = h
      BY <1>4, <3>1
    <3> QED
      BY <3>2
  <2> QED
    BY <1>5, <1>7, <2>1, <2>2 DEF HooksComing
<1>8. ASSUME NEW h \in offers', log[h] # "file"
      PROVE  /\ h > g
             /\ \A p \in 1 .. Len(channel') : log[channel'[p]] # "file" => channel'[p] < h
  <2>1. h \in offers /\ h # k /\ h \in 1 .. Len(log) /\ k \in 1 .. Len(log)
    BY <1>1, <1>2, <1>3, <1>8
  <2>2. log[k] = "file"
    <3> SUFFICES ASSUME log[k] # "file" PROVE FALSE
      OBVIOUS
    <3>1. CASE h < k
      <4>1. k \in h + 1 .. Len(log)
        BY <1>3, <2>1, <3>1
      <4> QED
        BY <1>8, <2>1, <4>1 DEF OneHook
    <3>2. CASE k < h
      <4>1. h \in k + 1 .. Len(log)
        BY <1>3, <2>1, <3>2
      <4> QED
        BY <1>1, <1>8, <4>1 DEF OneHook
    <3> QED
      BY <2>1, <3>1, <3>2
  <2>3. ASSUME NEW p \in 1 .. Len(channel'), log[channel'[p]] # "file" PROVE channel'[p] < h
    <3>1. p # Len(channel) + 1
      BY <1>4, <2>2, <2>3
    <3>2. p \in 1 .. Len(channel) /\ channel'[p] = channel[p]
      BY <1>4, <3>1
    <3> QED
      BY <1>5, <1>8, <2>1, <2>3, <3>2 DEF HooksComing
  <2> QED
    BY <1>5, <1>8, <2>1, <2>3 DEF HooksComing
<1>9. HooksComing(g)'
  BY <1>2, <1>6, <1>7, <1>8 DEF HooksComing
<1> QED
  BY <1>2, <1>9 DEF Knows

\* A replay brings nothing when all events come live.
LEMMA ConnectionKnown == ASSUME TypeInv, OneHook, PillInv, Connection PROVE PillInv'
<1>1. PICK a, B : /\ Course(a, B, Tools, busy, log)
                  /\ direct => \E g \in 0 .. Len(log) : Knows(a, B, g)
  BY DEF PillInv
<1>2. UNCHANGED <<busy, inflight, failed, log, label, activeTools>>
  BY DEF Connection, Connect, Snapshot, ReplaySend, Offer, Disconnect, HangUp, claudeVars, pillVars
<1>3. ASSUME direct' PROVE \E g \in 0 .. Len(log) : Knows(a, B, g)'
  <2>1. direct /\ ~Disconnect
    BY <1>3 DEF Connection, Connect, Snapshot, ReplaySend, Offer, Disconnect, HangUp
  <2>2. PICK g \in 0 .. Len(log) : Knows(a, B, g)
    BY <1>1, <2>1
  <2>3. CASE Offer
    BY <1>3, <2>2, <2>3, OfferKnown
  <2>4. CASE Connect
    <3>1. UNCHANGED <<log, offers, channel, backlog>> /\ log = <<>> /\ ws' # "down"
      BY <2>2, <2>4 DEF Connect, Knows
    <3> QED
      BY <1>2, <2>2, <3>1 DEF Knows, HooksComing
  <2>5. CASE Snapshot
    <3>1. log = <<>> /\ ws' = "replaying" /\ backlog' = Recent /\ UNCHANGED <<offers, channel>>
      BY <1>3, <2>5 DEF Snapshot
    <3>2. Len(Recent) = 0 /\ Recent \in Seq(DOMAIN log)
      BY <3>1, RecentPlaces DEF TypeInv
    <3>3. backlog' = <<>>
      BY <3>1, <3>2, EmptySeq
    <3> QED
      BY <1>2, <2>2, <3>1, <3>3 DEF Knows, HooksComing
  <2>6. ~ReplaySend
    BY <2>2 DEF ReplaySend, Knows
  <2> QED
    BY <2>1, <2>3, <2>4, <2>5, <2>6 DEF Connection
<1>4. Tools' = Tools
  BY <1>2 DEF Tools
<1> QED
  BY <1>1, <1>2, <1>3, <1>4 DEF PillInv

(***************************************************************************)
(* A hook event received is the first after g: what lies between is file   *)
(* activity, on which Claude's course stands still.                        *)
(***************************************************************************)
LEMMA NextHook ==
    ASSUME TypeInv, NEW a, NEW B, NEW g \in 0 .. Len(log), Course(a, B, Tools, busy, log),
           HooksComing(g), NEW k, channel # <<>>, k = Head(channel), log[k] # "file"
    PROVE  /\ k \in 1 .. Len(log)
           /\ a[g] \in Nat /\ a[k] \in Nat
           /\ Tells(log[k], a[g], g \in B, a[k], k \in B)
<1>1. channel \in Seq(DOMAIN log) /\ offers \subseteq DOMAIN log
  BY DEF TypeInv, TypeOK
<1>2. /\ Len(log) \in Nat /\ DOMAIN log = 1 .. Len(log)
      /\ Len(channel) \in Nat /\ Len(channel) > 0 /\ k = channel[1]
      /\ \A p \in 1 .. Len(channel) : channel[p] \in 1 .. Len(log)
  BY SMTT(30), <1>1, HeadTailProperties, LenProperties, EmptySeq, ElementOfSeq DEF TypeInv, TypeOK
<1>3. 1 \in 1 .. Len(channel) /\ k \in 1 .. Len(log)
  BY <1>2
<1>4. k > g
  BY <1>2, <1>3 DEF HooksComing
<1>5. FilesOnly(log, g, k - 1)
  <2> SUFFICES ASSUME NEW j \in g + 1 .. k - 1, log[j] # "file" PROVE FALSE
    BY DEF FilesOnly
  <2>1. j \in g + 1 .. Len(log) /\ j < k
    BY <1>2, <1>3
  <2>2. j \notin offers
    BY <1>2, <1>3, <2>1 DEF HooksComing
  <2>3. PICK p \in 1 .. Len(channel) : channel[p] = j
    BY <2>1, <2>2 DEF HooksComing
  <2>4. p # 1
    BY <1>2, <1>3, <2>1, <2>3
  <2>5. p \in 1 + 1 .. Len(channel)
    BY <1>2, <2>4
  <2>6. k < j
    BY <1>2, <1>3, <2>3, <2>5 DEF HooksComing
  <2> QED
    BY <1>2, <1>3, <2>1, <2>6
<1>6. k - 1 \in 0 .. Len(log) /\ g <= k - 1 /\ k \in 0 .. Len(log)
  BY <1>2, <1>3, <1>4
<1>7. a[k - 1] = a[g] /\ ((k - 1) \in B <=> g \in B)
  BY <1>5, <1>6 DEF Course
<1>8. Tells(log[k], a[k - 1], (k - 1) \in B, a[k], k \in B)
  BY <1>3 DEF Course
<1>9. a[g] \in Nat /\ a[k] \in Nat
  BY <1>6 DEF Course
<1> QED
  BY <1>3, <1>7, <1>8, <1>9 DEF Tells

\* The hook events behind the one received are still to come, in order.
LEMMA HooksComeOn ==
    ASSUME TypeInv, NEW g \in 0 .. Len(log), HooksComing(g), channel # <<>>,
           channel' = Tail(channel), UNCHANGED <<log, offers>>,
           NEW g2, IF log[Head(channel)] = "file" THEN g2 = g ELSE g2 = Head(channel)
    PROVE  g2 \in 0 .. Len(log) /\ HooksComing(g2)'
<1> DEFINE k == Head(channel)
<1>1. channel \in Seq(DOMAIN log) /\ offers \subseteq DOMAIN log
  BY DEF TypeInv, TypeOK
<1>2. /\ Len(log) \in Nat /\ DOMAIN log = 1 .. Len(log)
      /\ Len(channel) \in Nat /\ Len(channel) > 0 /\ k = channel[1]
      /\ Len(channel') = Len(channel) - 1
      /\ \A p \in 1 .. Len(channel) - 1 : channel'[p] = channel[p + 1]
  BY <1>1, HeadTailProperties, LenProperties, EmptySeq DEF TypeInv, TypeOK
<1>3. 1 \in 1 .. Len(channel) /\ \A p \in 1 .. Len(channel) : channel[p] \in 1 .. Len(log)
  BY <1>1, <1>2, ElementOfSeq
<1> HIDE DEF k
<1>4. /\ g2 \in 0 .. Len(log)
      /\ log[k] = "file" => g2 = g
      /\ log[k] # "file" => g2 = k /\ k > g
  BY <1>2, <1>3 DEF k, HooksComing
<1>5. g2 >= g
  BY <1>2, <1>3, <1>4
<1>6. ASSUME NEW p \in 1 .. Len(channel'), log[channel'[p]] # "file"
      PROVE  /\ channel'[p] > g2
             /\ \A q \in p + 1 .. Len(channel') :
                   log[channel'[q]] # "file" => channel'[p] < channel'[q]
  <2>1. p + 1 \in 1 .. Len(channel) /\ p + 1 \in 1 + 1 .. Len(channel) /\ channel'[p] = channel[p + 1]
    BY <1>2
  <2>2. channel[p + 1] > g2
    BY <1>2, <1>3, <1>4, <1>6, <2>1 DEF HooksComing
  <2>3. ASSUME NEW q \in p + 1 .. Len(channel'), log[channel'[q]] # "file"
        PROVE  channel'[p] < channel'[q]
    <3>1. q + 1 \in (p + 1) + 1 .. Len(channel) /\ channel'[q] = channel[q + 1]
      BY <1>2
    <3> QED
      BY <1>6, <2>1, <2>3, <3>1 DEF HooksComing
  <2> QED
    BY <2>1, <2>2, <2>3
<1>7. ASSUME NEW h \in g2 + 1 .. Len(log), log[h] # "file"
      PROVE  h \in offers \/ \E p \in 1 .. Len(channel') : channel'[p] = h
  <2>1. h \in g + 1 .. Len(log)
    BY <1>2, <1>4, <1>5
  <2> SUFFICES ASSUME h \notin offers PROVE \E p \in 1 .. Len(channel') : channel'[p] = h
    OBVIOUS
  <2>2. PICK p \in 1 .. Len(channel) : channel[p] = h
    BY <1>7, <2>1 DEF HooksComing
  <2>3. p # 1
    <3> SUFFICES ASSUME p = 1 PROVE FALSE
      OBVIOUS
    <3>1. h = k
      BY <1>2, <2>2
    <3>2. g2 = k
      BY <1>4, <1>7, <3>1
    <3> QED
      BY <1>4, <1>7, <3>1, <3>2
  <2>4. p - 1 \in 1 .. Len(channel') /\ (p - 1) + 1 = p /\ p - 1 \in 1 .. Len(channel) - 1
    BY <1>2, <2>3
  <2>5. channel'[p - 1] = h
    BY <1>2, <2>2, <2>4
  <2> QED
    BY <2>4, <2>5
<1>8. ASSUME NEW h \in offers, log[h] # "file"
      PROVE  /\ h > g2
             /\ \A p \in 1 .. Len(channel') : log[channel'[p]] # "file" => channel'[p] < h
  <2>1. /\ h > g
        /\ \A p \in 1 .. Len(channel) : log[channel[p]] # "file" => channel[p] < h
    BY <1>8 DEF HooksComing
  <2>2. h > g2
    <3>1. CASE log[k] = "file"
      BY <1>4, <2>1, <3>1
    <3>2. CASE log[k] # "file"
      <4>1. channel[1] < h
        BY <1>2, <1>3, <2>1, <3>2
      <4>2. h \in 1 .. Len(log) /\ k \in 1 .. Len(log) /\ g2 = k
        BY <1>1, <1>2, <1>3, <1>4, <1>8, <3>2
      <4> QED
        BY <1>2, <4>1, <4>2
    <3> QED
      BY <3>1, <3>2
  <2>3. \A p \in 1 .. Len(channel') : p + 1 \in 1 .. Len(channel) /\ channel'[p] = channel[p + 1]
    BY <1>2
  <2> QED
    BY <2>1, <2>2, <2>3
<1>9. HooksComing(g2)'
  BY <1>6, <1>7, <1>8 DEF HooksComing
<1> QED
  BY <1>4, <1>9

(***************************************************************************)
(* One more event received: the pill keeps up with the course.             *)
(***************************************************************************)
LEMMA ReceiveKnown ==
    ASSUME TypeInv, NEW a, NEW B, NEW g \in 0 .. Len(log), Course(a, B, Tools, busy, log),
           Knows(a, B, g), Receive
    PROVE  \E g2 \in 0 .. Len(log) : Knows(a, B, g2)'
<1>0. PICK k, g2 : k = Head(channel) /\ g2 = IF log[k] = "file" THEN g ELSE k
  OBVIOUS
<1>1. /\ channel # <<>> /\ channel' = Tail(channel)
      /\ UNCHANGED <<log, offers, ws, backlog>>
      /\ \/ log[k] = "file" /\ UNCHANGED pillVars
         \/ HandlePhase(log[k])
  BY <1>0 DEF Receive
<1>2. HooksComing(g)
  BY DEF Knows
<1>3. g2 \in 0 .. Len(log) /\ HooksComing(g2)'
  <2>1. IF log[Head(channel)] = "file" THEN g2 = g ELSE g2 = Head(channel)
    BY <1>0
  <2> QED
    BY <1>1, <1>2, <2>1, HooksComeOn
<1>4. /\ activeTools = a[g]
      /\ (g \in B <=> label \in {"working", "thinking"})
      /\ (label = "thinking" => activeTools = 0)
  BY DEF Knows
<1>5. ~HandlePhase("file")
  BY DEF HandlePhase, LoggedOnly
<1>6. /\ activeTools' = a[g2]
      /\ (g2 \in B <=> label' \in {"working", "thinking"})
      /\ (label' = "thinking" => activeTools' = 0)
  <2>1. CASE log[k] = "file"
    BY <1>0, <1>1, <1>4, <1>5, <2>1 DEF pillVars
  <2>2. CASE log[k] # "file"
    <3>1. /\ a[g] \in Nat /\ a[k] \in Nat /\ Tells(log[k], a[g], g \in B, a[k], k \in B)
          /\ g2 = k
      BY <1>0, <1>1, <1>2, <2>2, NextHook
    <3>2. CASE UNCHANGED pillVars /\ log[k] \in LoggedOnly
      BY <1>4, <3>1, <3>2 DEF Tells, pillVars
    <3>3. CASE log[k] = "user_prompt" /\ OnPrompt
      BY <1>4, <3>1, <3>3 DEF Tells, OnPrompt, PingActive
    <3>4. CASE log[k] = "pre" /\ OnPre
      BY <1>4, <3>1, <3>4 DEF Tells, OnPre, PingActive
    <3>5. CASE log[k] = "post" /\ OnPost
      BY <1>4, <3>1, <3>5 DEF Tells, OnPost, PingActive
    <3>6. CASE log[k] = "session_start" /\ OnSessionStart
      BY <1>4, <3>1, <3>6 DEF Tells, OnSessionStart
    <3>7. CASE log[k] = "stop" /\ OnStop
      BY <1>4, <3>1, <3>7 DEF Tells, OnStop
    <3> QED
      BY <1>1, <2>2, <3>2, <3>3, <3>4, <3>5, <3>6, <3>7 DEF HandlePhase
  <2> QED
    BY <2>1, <2>2
<1>7. backlog' = <<>> /\ (ws' = "down" => log' = <<>>)
  BY <1>1 DEF Knows
<1> QED
  BY <1>3, <1>6, <1>7 DEF Knows

\* The timer fires on "working" with no tool in flight; a reload starts anew.
LEMMA BrowserKnown == ASSUME TypeInv, PillInv, Browser PROVE PillInv'
<1>1. PICK a, B : /\ Course(a, B, Tools, busy, log)
                  /\ direct => \E g \in 0 .. Len(log) : Knows(a, B, g)
  BY DEF PillInv
<1>2. UNCHANGED <<busy, inflight, failed, log>>
  BY DEF Browser, Reload, HangUp, InfoArrives, InfoFails, Receive, IdleTimerFires, ToggleRunning,
         claudeVars, feedVars
<1>3. ASSUME direct' PROVE \E g \in 0 .. Len(log) : Knows(a, B, g)'
  <2>1. direct /\ ~Reload
    BY <1>3 DEF Browser, Reload, HangUp, InfoArrives, InfoFails, Receive, IdleTimerFires,
                ToggleRunning, feedVars
  <2>2. PICK g \in 0 .. Len(log) : Knows(a, B, g)
    BY <1>1, <2>1
  <2>3. CASE Receive
    BY <1>1, <2>2, <2>3, ReceiveKnown
  <2>4. CASE IdleTimerFires
    <3>1. label = "working" /\ label' = "thinking" /\ activeTools = 0
      BY <2>4 DEF IdleTimerFires, TypeInv, TypeOK, TimerMatchesLabel
    <3>2. UNCHANGED <<ws, offers, backlog, channel, activeTools>>
      BY <2>4 DEF IdleTimerFires, feedVars
    <3> QED
      BY <1>2, <2>2, <3>1, <3>2 DEF Knows, HooksComing
  <2>5. CASE InfoArrives \/ InfoFails \/ ToggleRunning
    <3>1. UNCHANGED <<ws, offers, backlog, channel, activeTools, label>>
      BY <2>5 DEF InfoArrives, InfoFails, ToggleRunning, feedVars, pillVars
    <3> QED
      BY <1>2, <2>2, <3>1 DEF Knows, HooksComing
  <2> QED
    BY <2>1, <2>3, <2>4, <2>5 DEF Browser
<1>4. Tools' = Tools
  BY <1>2 DEF Tools
<1> QED
  BY <1>1, <1>2, <1>3, <1>4 DEF PillInv

\* Before the first event Claude rests, and the page shows that.
LEMMA InitPillInv == Init => PillInv
<1> SUFFICES ASSUME Init PROVE PillInv
  OBVIOUS
<1> DEFINE a == [i \in 0 .. 0 |-> 0]
           B == {}
<1>1. Len(log) = 0 /\ Len(channel) = 0 /\ Tools = 0 /\ offers = {}
  BY EmptySeq DEF Init, Tools
<1>2. Course(a, B, Tools, busy, log)
  BY <1>1 DEF Init, Course
<1>3. Knows(a, B, 0)
  BY <1>1 DEF Init, Knows, HooksComing
<1>4. 0 \in 0 .. Len(log)
  BY <1>1
<1> HIDE DEF a, B
<1> QED
  BY <1>2, <1>3, <1>4 DEF Init, PillInv

\* Every step keeps the pill on Claude's course.
LEMMA NextPillInv == TypeInv /\ OneHook /\ PillInv /\ [Next]_vars => PillInv'
<1> SUFFICES ASSUME TypeInv, OneHook, PillInv, [Next]_vars PROVE PillInv'
  OBVIOUS
<1>1. CASE UNCHANGED vars
  <2>1. /\ \A a, B, g : Knows(a, B, g) <=> Knows(a, B, g)'
        /\ Tools' = Tools
    BY <1>1 DEF Knows, HooksComing, Tools, vars, claudeVars, feedVars, pageVars, pillVars
  <2> QED
    BY <1>1, <2>1 DEF PillInv, vars, claudeVars, feedVars
<1> QED
  BY <1>1, ClaudeKnown, ConnectionKnown, BrowserKnown DEF Next

(***************************************************************************)
(* Once everything has been received, and it all came live, the pill says  *)
(* what Claude does, with the exact number of tools: although file events  *)
(* overtake hook events and are overtaken, no hook event overtakes another.*)
(***************************************************************************)
THEOREM PillCorrect == Spec => []PillIsTruthful
<1>1. TypeInv /\ PillInv => PillIsTruthful
  <2> SUFFICES ASSUME TypeInv, PillInv, direct, Settled
               PROVE  /\ activeTools = inflight + failed
                      /\ busy <=> label \in {"working", "thinking"}
                      /\ label = "thinking" => inflight = 0
    BY DEF PillIsTruthful
  <2>1. PICK a, B : /\ Course(a, B, Tools, busy, log)
                    /\ \E g \in 0 .. Len(log) : Knows(a, B, g)
    BY DEF PillInv
  <2>2. PICK g \in 0 .. Len(log) : Knows(a, B, g)
    BY <2>1
  <2>3. Len(log) \in Nat /\ Len(channel) = 0 /\ offers = {}
    BY LenProperties DEF Settled, TypeInv, TypeOK
  <2>4. FilesOnly(log, g, Len(log))
    BY <2>2, <2>3 DEF Knows, HooksComing, FilesOnly
  <2>5. Len(log) \in 0 .. Len(log) /\ g <= Len(log)
    BY <2>3
  <2>6. a[Len(log)] = a[g] /\ (Len(log) \in B <=> g \in B)
    BY <2>1, <2>4, <2>5 DEF Course
  <2>7. activeTools = Tools /\ (busy <=> label \in {"working", "thinking"})
    BY <2>1, <2>2, <2>6 DEF Course, Knows
  <2>8. inflight \in Nat /\ failed \in Nat
    BY PageAssumption DEF TypeInv, TypeOK
  <2>9. label = "thinking" => Tools = 0
    BY <2>2, <2>7 DEF Knows
  <2> QED
    BY <2>7, <2>8, <2>9 DEF Tools
<1> QED
  BY <1>1, InitTypeInv, NextTypeInv, InitOneHook, NextOneHook, InitPillInv, NextPillInv,
     PTL DEF Spec
-----------------------------------------------------------------------------
(***************************************************************************)
(* Whatever the page has made of its stream so far: the stop is still to   *)
(* be offered, or what the page is due ends in it, or nothing of it moves  *)
(* the pill from "waiting".  A snapshot contains the stop, and an event    *)
(* offered other than between the events of a replay comes after it.       *)
(***************************************************************************)
Quiet == LoggedOnly \cup {"stop", "file"}

StopLast(i) == i > Len(log) - Keep /\ log[i] = "stop" /\ \A j \in i .. Len(log) : log[j] \in Quiet

Due == channel \o backlog

EndsInStop(s) ==
    \E p \in 1 .. Len(s) : log[s[p]] = "stop" /\ \A q \in p .. Len(s) : log[s[q]] \in Quiet

AllQuiet(s) == \A q \in 1 .. Len(s) : log[s[q]] \in Quiet

StopInv ==
    ws = "replaying" /\ ~raced /\ ~Lossy /\ (\E i \in DOMAIN log : StopLast(i)) =>
        \/ \E h \in offers : log[h] = "stop"
        \/ EndsInStop(Due)
        \/ label = "waiting" /\ AllQuiet(Due)

\* It is about the stream and the label alone.
LEMMA KeepStop ==
    ASSUME StopInv, UNCHANGED <<log, ws, offers, raced, label, channel, backlog>>
    PROVE  StopInv'
<1>1. Due' = Due
  BY DEF Due
<1>2. \A i : StopLast(i) <=> StopLast(i)'
  BY DEF StopLast, Quiet
<1>3. EndsInStop(Due)' <=> EndsInStop(Due)
  BY <1>1 DEF EndsInStop, Quiet
<1>4. AllQuiet(Due)' <=> AllQuiet(Due)
  BY <1>1 DEF AllQuiet, Quiet
<1> QED
  BY <1>2, <1>3, <1>4 DEF StopInv

\* What is due is in the channel, then in the replay.
LEMMA DueIs ==
    ASSUME TypeOK
    PROVE  /\ Len(channel) \in Nat /\ Len(backlog) \in Nat /\ Len(log) \in Nat
           /\ DOMAIN log = 1 .. Len(log)
           /\ channel \in Seq(DOMAIN log) /\ backlog \in Seq(DOMAIN log) /\ Due \in Seq(DOMAIN log)
           /\ Len(Due) = Len(channel) + Len(backlog)
           /\ \A i \in 1 .. Len(channel) + Len(backlog) :
                  Due[i] = IF i <= Len(channel) THEN channel[i] ELSE backlog[i - Len(channel)]
BY ConcatProperties, LenProperties DEF TypeOK, Due

(***************************************************************************)
(* A stop that is stored is to be offered; another event leaves the stop   *)
(* where it was.                                                           *)
(***************************************************************************)
LEMMA StoreStop ==
    ASSUME TypeInv, StopInv, NEW kind \in Kind, Store(kind)
    PROVE  StopInv'
<1> SUFFICES ASSUME ws' = "replaying", ~raced', ~Lossy, NEW i \in DOMAIN log', StopLast(i)'
             PROVE  \/ \E h \in offers' : log'[h] = "stop"
                    \/ EndsInStop(Due)'
                    \/ label' = "waiting" /\ AllQuiet(Due)'
  BY DEF StopInv
<1> DEFINE n == Len(log) + 1
<1>1. /\ ws = "replaying" /\ ~raced /\ offers' = offers \cup {n} /\ log' = Append(log, kind)
      /\ UNCHANGED <<channel, backlog, label>> /\ log \in Seq(Kind) /\ offers \subseteq DOMAIN log
  BY DEF Store, pillVars, TypeInv, TypeOK, Kind
<1>2. /\ Len(log) \in Nat /\ DOMAIN log = 1 .. Len(log) /\ DOMAIN log' = 1 .. n
      /\ Len(log') = n /\ log'[n] = kind /\ \A j \in 1 .. Len(log) : log'[j] = log[j]
  BY <1>1, AppendProperties, LenProperties
<1>3. /\ Due' = Due /\ Len(Due) \in Nat
      /\ \A q \in 1 .. Len(Due) : log'[Due[q]] = log[Due[q]]
  <2>1. Due \in Seq(DOMAIN log)
    BY DueIs DEF TypeInv
  <2>2. \A q \in 1 .. Len(Due) : Due[q] \in 1 .. Len(log)
    BY <1>2, <2>1, ElementOfSeq
  <2> QED
    BY <1>1, <1>2, <2>1, <2>2, LenProperties DEF Due
<1> HIDE DEF n
<1>4. CASE kind = "stop"
  BY <1>1, <1>2, <1>4
<1>5. CASE kind # "stop"
  <2>1. i # n /\ i \in DOMAIN log
    BY <1>2, <1>5 DEF StopLast, n
  <2>2. StopLast(i)
    BY <1>2, <2>1, PageAssumption DEF StopLast, n
  <2>3. \/ \E h \in offers : log[h] = "stop"
        \/ EndsInStop(Due)
        \/ label = "waiting" /\ AllQuiet(Due)
    BY <1>1, <2>1, <2>2 DEF StopInv
  <2>4. CASE \E h \in offers : log[h] = "stop"
    BY <1>1, <1>2, <2>4
  <2>5. CASE EndsInStop(Due)
    <3>1. PICK p \in 1 .. Len(Due) :
              log[Due[p]] = "stop" /\ \A q \in p .. Len(Due) : log[Due[q]] \in Quiet
      BY <2>5 DEF EndsInStop
    <3>2. \A q \in p .. Len(Due) : q \in 1 .. Len(Due)
      BY <1>3
    <3>3. log'[Due[p]] = "stop" /\ \A q \in p .. Len(Due) : log'[Due[q]] \in Quiet
      BY <1>3, <3>1, <3>2
    <3> QED
      BY <1>3, <3>3 DEF EndsInStop, Quiet
  <2>6. CASE label = "waiting" /\ AllQuiet(Due)
    BY <1>1, <1>3, <2>6 DEF AllQuiet, Quiet
  <2> QED
    BY <2>3, <2>4, <2>5, <2>6
<1> QED
  BY <1>4, <1>5

(***************************************************************************)
(* An event offered goes behind what is due.  What can be offered when a   *)
(* stop is the last to move the pill does not move it either: no hook      *)
(* event was stored after one still to be offered.                         *)
(***************************************************************************)
LEMMA OfferStop ==
    ASSUME TypeInv, OneHook, StopInv, Offer
    PROVE  StopInv'
<1> SUFFICES ASSUME ws' = "replaying", ~raced', ~Lossy, NEW i \in DOMAIN log', StopLast(i)'
             PROVE  \/ \E h \in offers' : log'[h] = "stop"
                    \/ EndsInStop(Due)'
                    \/ label' = "waiting" /\ AllQuiet(Due)'
  BY DEF StopInv
<1>1. PICK k \in offers : offers' = offers \ {k} /\ channel' = Append(channel, k)
  BY DEF Offer
<1>2. /\ UNCHANGED <<log, ws, label, backlog>> /\ ~raced /\ backlog = <<>>
      /\ log \in Seq(Kind) /\ channel \in Seq(DOMAIN log) /\ offers \subseteq DOMAIN log
  BY DEF Offer, pillVars, TypeInv, TypeOK, Kind
<1>3. Len(log) \in Nat /\ DOMAIN log = 1 .. Len(log) /\ k \in 1 .. Len(log)
  BY <1>1, <1>2, LenProperties
<1>4. /\ Len(Due) \in Nat /\ Len(Due') = Len(Due) + 1 /\ Due'[Len(Due) + 1] = k
      /\ \A q \in 1 .. Len(Due) : Due'[q] = Due[q]
  <2>1. \A s \in Seq(DOMAIN log) : s \o <<>> = s
    BY ConcatEmptySeq
  <2>2. channel' \in Seq(DOMAIN log)
    BY <1>1, <1>2, <1>3, AppendProperties
  <2>3. Due = channel /\ Due' = Append(channel, k)
    BY <1>1, <1>2, <2>1, <2>2 DEF Due
  <2> QED
    BY <1>2, <1>3, <2>3, AppendProperties, LenProperties
<1>5. i \in DOMAIN log /\ StopLast(i)
  BY <1>2 DEF StopLast, Quiet
<1>6. log[k] \in Quiet
  <2>1. CASE log[k] = "file"
    BY <2>1 DEF Quiet
  <2>2. CASE log[k] # "file"
    <3>1. i <= k
      <4> SUFFICES ASSUME i > k PROVE FALSE
        BY <1>3, <1>5
      <4>1. i \in k + 1 .. Len(log)
        BY <1>3, <1>5
      <4>2. log[i] = "file"
        BY <1>1, <2>2, <4>1 DEF OneHook
      <4> QED
        BY <1>5, <4>2 DEF StopLast
    <3> QED
      BY <1>3, <1>5, <3>1 DEF StopLast
  <2> QED
    BY <2>1, <2>2
<1>7. \/ \E h \in offers : log[h] = "stop"
      \/ EndsInStop(Due)
      \/ label = "waiting" /\ AllQuiet(Due)
  BY <1>2, <1>5 DEF StopInv
<1>8. CASE log[k] = "stop"
  <2>1. Len(Due) + 1 \in 1 .. Len(Due')
    BY <1>4
  <2>2. \A q \in Len(Due) + 1 .. Len(Due') : log'[Due'[q]] \in Quiet
    BY <1>2, <1>4, <1>6
  <2>3. log'[Due'[Len(Due) + 1]] = "stop"
    BY <1>2, <1>4, <1>8
  <2> QED
    BY <2>1, <2>2, <2>3 DEF EndsInStop, Quiet
<1>9. CASE log[k] # "stop" /\ \E h \in offers : log[h] = "stop"
  BY <1>1, <1>2, <1>9
<1>10. CASE EndsInStop(Due)
  <2>1. PICK p \in 1 .. Len(Due) :
            log[Due[p]] = "stop" /\ \A q \in p .. Len(Due) : log[Due[q]] \in Quiet
    BY <1>10 DEF EndsInStop
  <2>2. p \in 1 .. Len(Due') /\ log'[Due'[p]] = "stop"
    BY <1>2, <1>4, <2>1
  <2>3. ASSUME NEW q \in p .. Len(Due') PROVE log'[Due'[q]] \in Quiet
    <3>1. CASE q = Len(Due) + 1
      BY <1>2, <1>4, <1>6, <3>1
    <3>2. CASE q # Len(Due) + 1
      <4>1. q \in p .. Len(Due) /\ q \in 1 .. Len(Due)
        BY <1>4, <3>2
      <4> QED
        BY <1>2, <1>4, <2>1, <4>1
    <3> QED
      BY <3>1, <3>2
  <2> QED
    BY <2>2, <2>3 DEF EndsInStop, Quiet
<1>11. CASE label = "waiting" /\ AllQuiet(Due)
  <2>1. ASSUME NEW q \in 1 .. Len(Due') PROVE log'[Due'[q]] \in Quiet
    <3>1. CASE q = Len(Due) + 1
      BY <1>2, <1>4, <1>6, <3>1
    <3>2. CASE q # Len(Due) + 1
      <4>1. q \in 1 .. Len(Due)
        BY <1>4, <3>2
      <4> QED
        BY <1>2, <1>4, <1>11, <4>1 DEF AllQuiet
    <3> QED
      BY <3>1, <3>2
  <2> QED
    BY <1>2, <1>11, <2>1 DEF AllQuiet, Quiet
<1> QED
  BY <1>7, <1>8, <1>9, <1>10, <1>11

\* Claude's steps: a failure of a tool call shows nowhere.
LEMMA ClaudeStop == ASSUME TypeInv, StopInv, Claude PROVE StopInv'
<1>1. CASE UNCHANGED <<feedVars, pageVars, pillVars>>
  BY <1>1, KeepStop DEF feedVars, pillVars
<1>2. ASSUME NEW kind \in Kind, Store(kind) PROVE StopInv'
  BY <1>2, StoreStop
<1> QED
  BY <1>1, <1>2, ClaudeStep

\* The snapshot has the stop in it; sending it changes nothing of what is due.
LEMMA ConnectionStop == ASSUME TypeInv, OneHook, StopInv, Connection PROVE StopInv'
<1>0. TypeOK /\ TypeOK'
  BY ConnectionType DEF TypeInv
<1>1. UNCHANGED <<log, label>>
  BY DEF Connection, Connect, Snapshot, ReplaySend, Offer, Disconnect, HangUp, pillVars
<1>2. CASE Connect \/ Disconnect
  BY <1>2 DEF Connect, Disconnect, HangUp, StopInv
<1>3. CASE ReplaySend
  <2>1. /\ backlog # <<>> /\ channel' = Append(channel, Head(backlog)) /\ backlog' = Tail(backlog)
        /\ UNCHANGED <<ws, offers, raced>>
    BY <1>3 DEF ReplaySend
  <2>2. /\ Due \in Seq(DOMAIN log) /\ Due' \in Seq(DOMAIN log) /\ Len(Due') = Len(Due)
        /\ \A i \in 1 .. Len(Due) : Due'[i] = Due[i]
    <3>1. /\ channel \in Seq(DOMAIN log) /\ backlog \in Seq(DOMAIN log)
          /\ Len(channel) \in Nat /\ Len(backlog) \in Nat
      BY <1>0, DueIs
    <3>2. /\ Head(backlog) \in DOMAIN log /\ Head(backlog) = backlog[1]
          /\ Len(backlog') = Len(backlog) - 1 /\ Len(backlog) > 0
          /\ \A j \in 1 .. Len(backlog) - 1 : backlog'[j] = backlog[j + 1]
      BY <2>1, <3>1, HeadTailProperties, EmptySeq, LenProperties
    <3>3. /\ Len(channel') = Len(channel) + 1
          /\ \A j \in 1 .. Len(channel) : channel'[j] = channel[j]
          /\ channel'[Len(channel) + 1] = backlog[1]
      BY <2>1, <3>1, <3>2, AppendProperties
    <3>4. /\ Due' \in Seq(DOMAIN log') /\ Len(Due') = Len(channel') + Len(backlog')
          /\ \A i \in 1 .. Len(channel') + Len(backlog') :
                 Due'[i] = IF i <= Len(channel') THEN channel'[i] ELSE backlog'[i - Len(channel')]
      <4>1. /\ channel' \in Seq(DOMAIN log') /\ backlog' \in Seq(DOMAIN log')
            /\ Due' = channel' \o backlog'
        BY <1>0 DEF TypeOK, Due
      <4> QED
        BY <4>1, ConcatProperties
    <3>5. Len(Due') = Len(Due)
      <4>1. Len(Due) = Len(channel) + Len(backlog)
        BY <1>0, DueIs
      <4>2. Len(Due') = (Len(channel) + 1) + (Len(backlog) - 1)
        BY <3>2, <3>3, <3>4
      <4> QED
        BY <3>1, <4>1, <4>2
    <3>6. ASSUME NEW i \in 1 .. Len(Due) PROVE Due'[i] = Due[i]
      <4>1. i \in 1 .. Len(channel) + Len(backlog)
        BY <1>0, DueIs
      <4>2. Due[i] = IF i <= Len(channel) THEN channel[i] ELSE backlog[i - Len(channel)]
        BY <1>0, <4>1, DueIs
      <4>3. Due'[i] = IF i <= Len(channel') THEN channel'[i] ELSE backlog'[i - Len(channel')]
        <5>1. Len(channel') + Len(backlog') = Len(channel) + Len(backlog)
          <6> DEFINE x == Len(channel')
                     y == Len(backlog')
          <6>1. x = Len(channel) + 1 /\ y = Len(backlog) - 1
            BY <3>2, <3>3
          <6> HIDE DEF x, y
          <6>2. x + y = Len(channel) + Len(backlog)
            BY <3>1, <6>1
          <6> QED
            BY <6>2 DEF x, y
        <5> QED
          BY <3>4, <4>1, <5>1
      <4>4. CASE i <= Len(channel)
        BY <3>1, <3>3, <4>1, <4>2, <4>3, <4>4
      <4>5. CASE i = Len(channel) + 1
        BY <3>1, <3>3, <4>1, <4>2, <4>3, <4>5
      <4>6. CASE i > Len(channel) + 1
        <5>1. i - Len(channel') \in 1 .. Len(backlog) - 1 /\ (i - Len(channel')) + 1 = i - Len(channel)
          BY <3>1, <3>3, <4>1, <4>6
        <5> QED
          BY SMTT(30), <3>1, <3>2, <3>3, <4>1, <4>2, <4>3, <4>6, <5>1
      <4> QED
        BY <3>1, <4>1, <4>4, <4>5, <4>6
    <3> QED
      BY <1>0, <1>1, <3>4, <3>5, <3>6, DueIs
  <2>3. EndsInStop(Due)' <=> EndsInStop(Due)
    BY <1>1, <2>2, LenProperties DEF EndsInStop, Quiet
  <2>4. AllQuiet(Due)' <=> AllQuiet(Due)
    BY <1>1, <2>2 DEF AllQuiet, Quiet
  <2> QED
    BY <1>1, <2>1, <2>3, <2>4 DEF StopInv, StopLast, Quiet
<1>4. CASE Snapshot
  <2>1. channel' = channel /\ backlog' = Recent
    BY <1>4 DEF Snapshot
  <2>2. PICK n \in 0 .. Len(log) :
            /\ \A i \in 1 .. Len(log) : i > Len(log) - Keep => i > Len(log) - n
            /\ Recent \in Seq(DOMAIN log) /\ Len(Recent) = n
            /\ \A i \in 1 .. n : Recent[i] = Len(log) - n + i
    BY <1>0, RecentPlaces
  <2>3. /\ Len(channel) \in Nat /\ Len(log) \in Nat /\ DOMAIN log = 1 .. Len(log)
        /\ channel \in Seq(DOMAIN log)
    BY <1>0, DueIs
  <2>4. /\ Len(Due') = Len(channel) + n
        /\ \A q \in 1 .. n : Due'[Len(channel) + q] = Len(log) - n + q
    <3>1. Due' = channel \o Recent
      BY <2>1 DEF Due
    <3>2. Recent \in Seq(DOMAIN log) /\ Len(Recent) = n /\ n \in Nat
      <4>1. n \in Nat
        BY <2>3
      <4> QED
        BY <2>2, <4>1, Zenon
    <3>3. /\ Len(channel \o Recent) = Len(channel) + n
          /\ \A q \in 1 .. Len(channel) + n :
                 (channel \o Recent)[q]
                     = IF q <= Len(channel) THEN channel[q] ELSE Recent[q - Len(channel)]
      BY <2>3, <3>2, ConcatProperties
    <3>4. ASSUME NEW q \in 1 .. n PROVE (channel \o Recent)[Len(channel) + q] = Len(log) - n + q
      <4>1. /\ Len(channel) + q \in 1 .. Len(channel) + n /\ ~(Len(channel) + q <= Len(channel))
            /\ (Len(channel) + q) - Len(channel) = q
        BY <2>3, <3>2
      <4>2. Recent[q] = Len(log) - n + q
        BY <2>2
      <4> QED
        BY <3>3, <4>1, <4>2
    <3> QED
      BY <3>1, <3>3, <3>4
  <2>5. ASSUME NEW i \in DOMAIN log, StopLast(i) PROVE EndsInStop(Due)'
    <3> DEFINE p == Len(channel) + (i - (Len(log) - n))
    <3>1. n \in Nat /\ n <= Len(log) /\ i \in 1 .. Len(log)
      BY <2>3
    <3>2. i > Len(log) - n
      BY <2>2, <2>5, <3>1 DEF StopLast
    <3>3. i - (Len(log) - n) \in 1 .. n
      BY <2>3, <3>1, <3>2
    <3>4. p \in 1 .. Len(Due') /\ Due'[p] = i
      <4>1. Due'[Len(channel) + (i - (Len(log) - n))] = Len(log) - n + (i - (Len(log) - n))
        BY <2>4, <3>3
      <4> QED
        BY <2>3, <2>4, <3>1, <3>3, <4>1
    <3>5. ASSUME NEW q \in p .. Len(Due') PROVE log[Due'[q]] \in Quiet
      <4>1. q - Len(channel) \in 1 .. n /\ Len(channel) + (q - Len(channel)) = q
            /\ Len(log) - n + (q - Len(channel)) \in i .. Len(log)
        BY <2>3, <2>4, <3>1, <3>3
      <4>2. Due'[q] = Len(log) - n + (q - Len(channel))
        BY <2>4, <4>1
      <4> QED
        BY <2>5, <4>1, <4>2 DEF StopLast
    <3> HIDE DEF p
    <3> QED
      BY <1>1, <2>5, <3>4, <3>5 DEF EndsInStop, StopLast, Quiet
  <2>6. ASSUME NEW i \in DOMAIN log', StopLast(i)' PROVE i \in DOMAIN log /\ StopLast(i)
    BY <1>1, <2>6 DEF StopLast, Quiet
  <2> QED
    BY <2>5, <2>6 DEF StopInv
<1>5. CASE Offer
  BY <1>5, OfferStop
<1> QED
  BY <1>2, <1>3, <1>4, <1>5 DEF Connection

\* The place received next is the first that is due.
LEMMA ReceiveDue ==
    ASSUME TypeOK, TypeOK', channel # <<>>, channel' = Tail(channel), backlog' = backlog
    PROVE  /\ Head(channel) = Due[1] /\ Len(Due) \in Nat /\ Len(Due) > 0
           /\ Len(Due') = Len(Due) - 1
           /\ \A q \in 1 .. Len(Due) - 1 : Due'[q] = Due[q + 1]
<1>1. /\ channel \in Seq(DOMAIN log) /\ backlog \in Seq(DOMAIN log)
      /\ Len(channel) \in Nat /\ Len(backlog) \in Nat
      /\ Len(Due) = Len(channel) + Len(backlog)
      /\ \A i \in 1 .. Len(channel) + Len(backlog) :
             Due[i] = IF i <= Len(channel) THEN channel[i] ELSE backlog[i - Len(channel)]
  BY DueIs
<1>2. /\ Len(channel) > 0 /\ Head(channel) = channel[1]
      /\ Tail(channel) \in Seq(DOMAIN log) /\ Len(Tail(channel)) = Len(channel) - 1
      /\ \A i \in 1 .. Len(channel) - 1 : Tail(channel)[i] = channel[i + 1]
  BY <1>1, HeadTailProperties, EmptySeq, LenProperties
<1>3. Due' = Tail(channel) \o backlog
  BY DEF Due
<1>4. /\ Len(Due') = (Len(channel) - 1) + Len(backlog)
      /\ \A i \in 1 .. (Len(channel) - 1) + Len(backlog) :
             Due'[i] = IF i <= Len(channel) - 1 THEN Tail(channel)[i]
                       ELSE backlog[i - (Len(channel) - 1)]
  BY <1>1, <1>2, <1>3, ConcatProperties
<1>5. ASSUME NEW q \in 1 .. Len(Due) - 1 PROVE Due'[q] = Due[q + 1]
  <2>1. q \in 1 .. (Len(channel) - 1) + Len(backlog) /\ q + 1 \in 1 .. Len(channel) + Len(backlog)
    BY <1>1, <1>2
  <2>2. CASE q <= Len(channel) - 1
    <3>1. q + 1 <= Len(channel) /\ q \in 1 .. Len(channel) - 1
      BY <1>1, <2>1, <2>2
    <3>2. Due'[q] = Tail(channel)[q] /\ Due[q + 1] = channel[q + 1]
      BY <1>1, <1>4, <2>1, <2>2, <3>1
    <3> QED
      BY <1>2, <3>1, <3>2
  <2>3. CASE ~(q <= Len(channel) - 1)
    <3>1. ~(q + 1 <= Len(channel)) /\ (q + 1) - Len(channel) = q - (Len(channel) - 1)
      BY <1>1, <2>1, <2>3
    <3> QED
      BY <1>1, <1>4, <2>1, <2>3, <3>1
  <2> QED
    BY <2>2, <2>3
<1> QED
  BY <1>1, <1>2, <1>4, <1>5

\* What is received is off what is due; a stop is shown as "waiting".
LEMMA BrowserStop == ASSUME TypeInv, StopInv, Browser PROVE StopInv'
<1>0. TypeOK /\ TypeOK' /\ TimerMatchesLabel
  BY BrowserType DEF TypeInv
<1>1. log' = log
  BY DEF Browser, Reload, HangUp, InfoArrives, InfoFails, Receive, IdleTimerFires, ToggleRunning,
         feedVars
<1>2. CASE Reload
  BY <1>2 DEF Reload, HangUp, StopInv
<1>3. CASE InfoArrives \/ InfoFails \/ ToggleRunning
  <2>1. UNCHANGED <<log, ws, offers, raced, label, channel, backlog>>
    BY <1>3 DEF InfoArrives, InfoFails, ToggleRunning, feedVars, pillVars
  <2> QED
    BY <2>1, KeepStop
<1>4. CASE IdleTimerFires
  <2>1. UNCHANGED <<log, ws, offers, raced, channel, backlog>> /\ label = "working"
    BY <1>0, <1>4 DEF IdleTimerFires, feedVars, TimerMatchesLabel, TypeOK
  <2>2. EndsInStop(Due)' <=> EndsInStop(Due)
    BY <2>1 DEF EndsInStop, Due, Quiet
  <2> QED
    BY <2>1, <2>2 DEF StopInv, StopLast, Quiet
<1>5. CASE Receive
  <2> SUFFICES ASSUME ws' = "replaying", ~raced', ~Lossy, NEW i \in DOMAIN log', StopLast(i)'
               PROVE  \/ \E h \in offers' : log'[h] = "stop"
                      \/ EndsInStop(Due)'
                      \/ label' = "waiting" /\ AllQuiet(Due)'
    BY DEF StopInv
  <2> DEFINE d == log[Head(channel)]
  <2>1. /\ channel # <<>> /\ channel' = Tail(channel)
        /\ UNCHANGED <<log, ws, offers, raced, backlog>>
        /\ (d = "file" /\ UNCHANGED pillVars) \/ HandlePhase(d)
    BY <1>5 DEF Receive
  <2>2. /\ d = log[Due[1]] /\ Len(Due) \in Nat /\ Len(Due) > 0
        /\ Len(Due') = Len(Due) - 1
        /\ \A q \in 1 .. Len(Due) - 1 : Due'[q] = Due[q + 1]
    BY <1>0, <2>1, ReceiveDue
  <2>3. \/ \E h \in offers : log[h] = "stop"
        \/ EndsInStop(Due)
        \/ label = "waiting" /\ AllQuiet(Due)
    BY <2>1 DEF StopInv, StopLast, Quiet
  <2>4. /\ d = "stop" => label' = "waiting"
        /\ d \in LoggedOnly \cup {"file"} => label' = label
    BY <2>1 DEF HandlePhase, OnStop, LoggedOnly, pillVars
  <2> HIDE DEF d
  <2>5. ASSUME \A q \in 2 .. Len(Due) : log[Due[q]] \in Quiet PROVE AllQuiet(Due)'
    <3>1. ASSUME NEW q \in 1 .. Len(Due') PROVE log[Due'[q]] \in Quiet
      <4>1. q \in 1 .. Len(Due) - 1 /\ q + 1 \in 2 .. Len(Due)
        BY <2>2
      <4> QED
        BY <2>2, <2>5, <4>1
    <3> QED
      BY <2>1, <3>1 DEF AllQuiet, Quiet
  <2>6. CASE EndsInStop(Due)
    <3>1. PICK p \in 1 .. Len(Due) :
              log[Due[p]] = "stop" /\ \A q \in p .. Len(Due) : log[Due[q]] \in Quiet
      BY <2>6 DEF EndsInStop
    <3>2. CASE p = 1
      <4>1. label' = "waiting"
        BY <2>2, <2>4, <3>1, <3>2
      <4>2. \A q \in 2 .. Len(Due) : log[Due[q]] \in Quiet
        BY <2>2, <3>1, <3>2
      <4> QED
        BY <2>5, <4>1, <4>2
    <3>3. CASE p > 1
      <4>1. p - 1 \in 1 .. Len(Due') /\ p - 1 \in 1 .. Len(Due) - 1 /\ (p - 1) + 1 = p
        BY <2>2, <3>1, <3>3
      <4>2. log[Due'[p - 1]] = "stop"
        BY <2>2, <3>1, <4>1
      <4>3. ASSUME NEW q \in p - 1 .. Len(Due') PROVE log[Due'[q]] \in Quiet
        <5>1. q \in 1 .. Len(Due) - 1 /\ q + 1 \in p .. Len(Due)
          BY <2>2, <3>1, <3>3
        <5> QED
          BY <2>2, <3>1, <5>1
      <4>4. EndsInStop(Due)'
        BY <2>1, <4>1, <4>2, <4>3 DEF EndsInStop, Quiet
      <4> QED
        BY <4>4
    <3> QED
      BY <2>2, <3>1, <3>2, <3>3
  <2>7. CASE label = "waiting" /\ AllQuiet(Due)
    <3>1. d \in Quiet /\ \A q \in 2 .. Len(Due) : log[Due[q]] \in Quiet
      BY <2>2, <2>7 DEF AllQuiet
    <3>2. label' = "waiting"
      BY <2>4, <2>7, <3>1 DEF Quiet
    <3> QED
      BY <2>5, <3>1, <3>2
  <2>8. CASE \E h \in offers : log[h] = "stop"
    BY <2>1, <2>8
  <2> QED
    BY <2>3, <2>6, <2>7, <2>8
<1> QED
  BY <1>2, <1>3, <1>4, <1>5 DEF Browser

\* Every step keeps the stop due or shown.
LEMMA NextStopInv == TypeInv /\ OneHook /\ StopInv /\ [Next]_vars => StopInv'
<1> SUFFICES ASSUME TypeInv, OneHook, StopInv, [Next]_vars PROVE StopInv'
  OBVIOUS
<1>1. CASE UNCHANGED vars
  BY <1>1, KeepStop DEF vars, feedVars, pillVars
<1> QED
  BY <1>1, ClaudeStop, ConnectionStop, BrowserStop DEF Next

(***************************************************************************)
(* A stop that is the last to move the pill, and still in the ring, is     *)
(* shown once everything has been received, whatever was replayed, doubled *)
(* or missed before.                                                       *)
(***************************************************************************)
THEOREM StopCorrect == Spec => []StopIsShown
<1>1. Init => StopInv
  BY DEF Init, StopInv
<1>2. TypeInv /\ StopInv => StopIsShown
  <2> SUFFICES ASSUME TypeInv, StopInv, Settled, ~raced, ~Lossy, NEW i \in DOMAIN log, StopLast(i)
               PROVE  label = "waiting"
    BY DEF StopIsShown, StopLast, Quiet
  <2>1. Len(channel) = 0 /\ Len(backlog) = 0
    BY EmptySeq DEF Settled
  <2>2. Len(Due) = 0
    BY <2>1, DueIs DEF TypeInv
  <2>3. ~EndsInStop(Due)
    BY <2>2 DEF EndsInStop
  <2> QED
    BY <2>3 DEF StopInv, Settled
<1> QED
  BY <1>1, <1>2, InitTypeInv, NextTypeInv, InitOneHook, NextOneHook, NextStopInv, PTL DEF Spec
=============================================================================
