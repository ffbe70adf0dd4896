------------------------------- MODULE Session ------------------------------
(***************************************************************************)
(* The processes of a session and how they end: the server (main.go runUI, *)
(* ui.Run), sudo (SpawnTap), the tap behind it (main.go runTap, tap.Run)   *)
(* and, on macOS, the fs_usage the tap reads from; and the pipe from the   *)
(* tap to hub.Ingest.  What the tap reports is in TapLinux; here a report  *)
(* is a line in the pipe.                                                  *)
(*                                                                         *)
(* sudo can be killed by the user who started it only while it asks for    *)
(* the password: to run the command it becomes root for good.  The write   *)
(* end of the pipe is held by sudo and by the tap, so that Ingest sees its *)
(* end when both are gone.                                                 *)
(***************************************************************************)
EXTENDS Naturals

CONSTANT PipeCap    \* lines the pipe holds

ASSUME PipeAssumption == PipeCap \in Nat \ {0}

VARIABLES
    mac,            \* does the tap read from fs_usage?
    root,           \* was agentflash started by root?
    ui,             \* "starting", "serving", "returned" (Run's defers), "waiting", "exited"
    ctx,            \* is the context canceled?
    sudo,           \* "asking", "running", "dead"
    tap, usage,     \* "none", "up", "dead"
    pipe,           \* number of lines in the pipe
    reader,         \* the server has its end open
    ingest,         \* "reading", "failed" (at a line), "ended" (with the pipe)
    interrupted     \* history: Ctrl-C was pressed

conf == <<mac, root>>
server == <<ui, ctx, reader, ingest, interrupted>>
vars == <<conf, server, sudo, tap, usage, pipe>>

\* ui.Run has spawned sudo, which asks for a password or need not.
Init ==
    /\ mac \in BOOLEAN /\ root \in BOOLEAN
    /\ ui = "starting" /\ ctx = FALSE /\ interrupted = FALSE
    /\ sudo = "asking" /\ tap = "none" /\ usage = "none"
    /\ pipe = 0 /\ reader = TRUE /\ ingest = "reading"
-----------------------------------------------------------------------------
(* sudo, the tap and fs_usage.                                             *)

SudoStarts ==
    /\ sudo = "asking"
    /\ sudo' = "running" /\ tap' = "up"
    /\ usage' = IF mac THEN "up" ELSE "none"
    /\ UNCHANGED <<conf, server, pipe>>

\* Wrong password, or sudo ends after the command it has run.
SudoEnds ==
    /\ sudo = "asking" \/ (sudo = "running" /\ tap = "dead")
    /\ sudo' = "dead"
    /\ UNCHANGED <<conf, server, tap, usage, pipe>>

\* Mutant of AfterBrokenPipe: a failed write is taken for a filtered event.
AfterBrokenPipeGoOn == "up"

\* A write to a pipe without a reader ends the tap: SIGPIPE, as it is stdout.
AfterBrokenPipe == "dead"

\* Writer.Write blocks without it.
Room == pipe < PipeCap

\* A report, which something that happens in the files brings about.
Report ==
    /\ tap = "up"
    /\ IF reader
       THEN Room /\ pipe' = pipe + 1 /\ UNCHANGED tap
       ELSE tap' = AfterBrokenPipe /\ UNCHANGED pipe
    /\ UNCHANGED <<conf, server, sudo, usage>>

\* tap.Run fails: no fanotify, no fs_usage, a read or a scan error.  fs_usage
\* is killed then.
TapFails ==
    /\ tap = "up"
    /\ tap' = "dead"
    /\ usage' = IF usage = "up" THEN "dead" ELSE usage
    /\ UNCHANGED <<conf, server, sudo, pipe>>

\* fs_usage ends, or writes to a tap that is gone.
UsageEnds ==
    /\ usage = "up"
    /\ usage' = "dead"
    /\ UNCHANGED <<conf, server, sudo, tap, pipe>>

\* Mutant of UsageSeen: the tap does not end with fs_usage.
UsageUnseen == FALSE

UsageSeen == tap = "up" /\ usage = "dead"

\* The scanner has reached the end: the tap reaps fs_usage and returns.
TapEnds ==
    /\ UsageSeen
    /\ tap' = "dead"
    /\ UNCHANGED <<conf, server, sudo, usage, pipe>>
-----------------------------------------------------------------------------
(* The server.                                                             *)

Listen ==
    /\ ui = "starting" /\ ~ctx
    /\ ui' = "serving"
    /\ UNCHANGED <<conf, ctx, reader, ingest, interrupted, sudo, tap, usage, pipe>>

\* ListenAndServe returns: the port is taken, or Shutdown after a signal.
Returns ==
    /\ ui = "starting" \/ (ui = "serving" /\ ctx)
    /\ ui' = "returned"
    /\ UNCHANGED <<conf, ctx, reader, ingest, interrupted, sudo, tap, usage, pipe>>

\* Mutant of Killable: stop interrupts sudo, which ignores that once it runs the tap.
KillableAsking == sudo = "asking"

Killable == sudo = "asking" \/ root

\* The deferred stop, first half: Process.Kill, whose error is ignored.
Stop ==
    /\ ui = "returned"
    /\ ui' = "waiting"
    /\ sudo' = IF Killable THEN "dead" ELSE sudo
    /\ UNCHANGED <<conf, ctx, reader, ingest, interrupted, tap, usage, pipe>>

\* The second half: Wait returns when sudo is gone and closes the pipe; main
\* returns or exits with the error.
Exit ==
    /\ ui = "waiting" /\ sudo = "dead"
    /\ ui' = "exited" /\ reader' = FALSE /\ ingest' = "ended" /\ pipe' = 0
    /\ UNCHANGED <<conf, ctx, interrupted, sudo, tap, usage>>

\* The server is killed or panics: no deferred stop.
Crash ==
    /\ ui # "exited"
    /\ ui' = "exited" /\ reader' = FALSE /\ ingest' = "ended" /\ pipe' = 0
    /\ UNCHANGED <<conf, ctx, interrupted, sudo, tap, usage>>

Ingest ==
    /\ ingest = "reading" /\ pipe > 0
    /\ pipe' = pipe - 1
    /\ UNCHANGED <<conf, server, sudo, tap, usage>>

\* A line over 1 MB or that is not JSON: logged, and nobody reads on.
IngestFails ==
    /\ ingest = "reading" /\ pipe > 0
    /\ pipe' = pipe - 1 /\ ingest' = "failed"
    /\ UNCHANGED <<conf, ui, ctx, reader, interrupted, sudo, tap, usage>>

\* Mutant of IngestEnds: sudo is reaped when it ends, with lines in the pipe.
IngestEndsUnread ==
    /\ ingest = "reading" /\ sudo = "dead"
    /\ ingest' = "ended"
    /\ UNCHANGED <<conf, ui, ctx, reader, interrupted, sudo, tap, usage, pipe>>

\* End of file: Run is not told.
IngestEnds ==
    /\ ingest = "reading" /\ pipe = 0 /\ sudo = "dead" /\ tap # "up"
    /\ ingest' = "ended"
    /\ UNCHANGED <<conf, ui, ctx, reader, interrupted, sudo, tap, usage, pipe>>
-----------------------------------------------------------------------------
(* Signals.                                                                *)

\* SIGTERM to the server alone; further ones have no effect.
Terminate ==
    /\ ui # "exited" /\ ~ctx
    /\ ctx' = TRUE
    /\ UNCHANGED <<conf, ui, reader, ingest, interrupted, sudo, tap, usage, pipe>>

\* Ctrl-C reaches every process of the terminal: the server cancels its
\* context, sudo leaves the prompt, the tap and fs_usage end.
CtrlC ==
    /\ ~interrupted
    /\ interrupted' = TRUE
    /\ ctx' = (ctx \/ ui # "exited")
    /\ sudo' = IF sudo = "asking" THEN "dead" ELSE sudo
    /\ tap' = IF tap = "up" THEN "dead" ELSE tap
    /\ usage' = IF usage = "up" THEN "dead" ELSE usage
    /\ UNCHANGED <<conf, ui, reader, ingest, pipe>>

Next ==
    \/ SudoStarts \/ SudoEnds \/ Report \/ TapFails \/ UsageEnds \/ TapEnds
    \/ Listen \/ Returns \/ Stop \/ Exit \/ Crash
    \/ Ingest \/ IngestFails \/ IngestEnds
    \/ Terminate \/ CtrlC

\* The pipe is full and nobody reads it: the tap waits with its next report.
Stuck == reader /\ ingest = "failed" /\ ~Room

\* What runs gets on, and sudo ends after its command.  Nobody need answer
\* the prompt, and nothing need happen in the files.
Fairness ==
    /\ WF_vars(Listen \/ Returns) /\ WF_vars(Stop) /\ WF_vars(Exit)
    /\ WF_vars(sudo = "running" /\ SudoEnds)
    /\ WF_vars(~Stuck /\ TapEnds)
    /\ WF_vars(Ingest \/ IngestFails) /\ WF_vars(IngestEnds)

Spec == Init /\ [][Next]_vars /\ Fairness
-----------------------------------------------------------------------------
TypeOK ==
    /\ mac \in BOOLEAN /\ root \in BOOLEAN /\ ctx \in BOOLEAN /\ interrupted \in BOOLEAN
    /\ ui \in {"starting", "serving", "returned", "waiting", "exited"}
    /\ sudo \in {"asking", "running", "dead"}
    /\ tap \in {"none", "up", "dead"} /\ usage \in {"none", "up", "dead"}
    /\ sudo = "asking" => tap = "none"
    /\ sudo = "running" => tap # "none"
    /\ usage # "none" => mac /\ tap # "none"
    /\ pipe \in 0 .. PipeCap /\ (pipe > 0 => reader /\ ingest # "ended")
    /\ reader = (ui # "exited")
    /\ ingest \in {"reading", "failed", "ended"}

(***************************************************************************)
(* Ctrl-C ends every process, at the password prompt and at any other      *)
(* moment; and a server that stops for another reason (SIGTERM, or its     *)
(* port is taken) exits if it could kill sudo or the tap has ended.        *)
(* Otherwise it waits for ever: sudo runs as root, perhaps since the       *)
(* moment before, Kill is refused, its error is ignored and Wait waits for *)
(* a tap that nobody told to end (spawn.go:46-53).                         *)
(***************************************************************************)
ServerEnds ==
    /\ interrupted ~> (ui = "exited" /\ sudo = "dead" /\ tap # "up" /\ usage # "up")
    /\ (ui = "waiting" /\ (sudo # "running" \/ root \/ tap = "dead")) ~> ui = "exited"

(***************************************************************************)
(* A tap that outlives the server (it crashed, or it killed sudo, which    *)
(* cannot pass SIGKILL on) ends, and fs_usage with it, provided that       *)
(* something goes on happening in the files: only the next write shows it  *)
(* that nobody reads.                                                      *)
(***************************************************************************)
OrphansEnd ==
    WF_vars(Report) /\ WF_vars(UsageEnds) =>
        (ui = "exited" ~> (tap # "up" /\ usage # "up"))

(***************************************************************************)
(* The end of fs_usage ends the tap, the end of the tap ends sudo, and     *)
(* that ends Ingest, whatever is left in the pipe, unless Ingest has given *)
(* up before, at a line it could not use (tap_darwin.go:154-161,           *)
(* hub.go:71-78).                                                          *)
(***************************************************************************)
TapEndIsSeen == (tap = "dead" \/ usage = "dead") ~> ingest # "reading"

(***************************************************************************)
(* server.go:33: Run "Blocks until the tap exits or ctx is canceled".      *)
(* Read: once the tap has exited, the server ends.                         *)
(***************************************************************************)
TapExitEnds == tap = "dead" ~> ui = "exited"
=============================================================================
