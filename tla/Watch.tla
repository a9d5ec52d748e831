-------------------------------- MODULE Watch --------------------------------
(***************************************************************************)
(* One `direnv-instant watch` (commands/watch.rs): the process a           *)
(* multiplexer pane runs to show a load.  It follows the daemon's log,     *)
(* forwards its terminal's input and size to the daemon's PTY, and asks    *)
(* the daemon to stop when it is interrupted.                              *)
(*                                                                         *)
(* It runs beside the daemon, whose log path, socket and process go away   *)
(* in that order at any moment, and beside the user, who resizes the pane  *)
(* and presses keys.  Signals arrive between any two steps.                *)
(***************************************************************************)
EXTENDS Naturals

CONSTANTS
  Terminal,    \* is standard input a terminal?
  MaxChunks,   \* chunks of output the load writes to its log: a bound
  MaxResizes,  \* times the pane is resized: a bound
  Faults       \* what may fail: tcgetattr or tcsetattr, TIOCGWINSZ, select

ASSUME TerminalAssumption == Terminal \in BOOLEAN
ASSUME BoundsAssumption == MaxChunks \in Nat /\ MaxResizes \in Nat
ASSUME FaultsAssumption == Faults \subseteq {"tcattr", "winsize", "select"}

VARIABLES
  pc,        \* where the watch process is
  running,   \* WATCH_RUNNING
  winch,     \* SIGWINCH_RECEIVED
  handler,   \* is sigwinch_handler installed?
  pty,       \* pty_master: did it get the descriptor?
  guard,     \* _raw_mode_guard: is there a guard?
  raw,       \* is the pane's terminal in raw mode?
  conn,      \* the long-lived connection: "none", "backlog", "accepted", "lost"
  shown,     \* chunks of the log copied to the pane
  daemon,    \* "loading", "published" (no log), "unlinked" (no socket), "gone"
  written,   \* chunks in the log
  pane,      \* size of the pane, as the number of times it was resized
  size,      \* size of the PTY; 0 is the daemon's PTY_WINSIZE
  told,      \* the daemon got STOP from here
  missed,    \* history: a resize came before there was a handler, or the size
             \* could not be read, and no later resize has made up for it
  ended      \* history: how the loop ended: "no", "eof", "reset", "other"

progVars == <<pc, running, winch, handler, pty, guard, conn, shown, ended>>
termVars == <<raw, pane, size>>
daemonVars == <<daemon, written, told>>
vars == <<progVars, termVars, daemonVars, missed>>

Phases == {"open", "connect", "await", "propagate", "handler", "raw", "monitor",
           "loop", "swapped", "select", "socket", "poll", "left", "drop", "exited"}

TypeOK ==
  /\ pc \in Phases
  /\ running \in BOOLEAN /\ winch \in BOOLEAN /\ handler \in BOOLEAN
  /\ pty \in BOOLEAN /\ guard \in BOOLEAN /\ raw \in BOOLEAN
  /\ conn \in {"none", "backlog", "accepted", "lost"}
  /\ daemon \in {"loading", "published", "unlinked", "gone"}
  /\ written \in 0 .. MaxChunks /\ shown \in 0 .. written
  /\ pane \in 1 .. MaxResizes + 1 /\ size \in 0 .. pane
  /\ told \in BOOLEAN /\ missed \in BOOLEAN
  /\ ended \in {"no", "eof", "reset", "other"}

\* The pane was opened because there was output.
Init ==
  /\ pc = "open" /\ running = TRUE /\ winch = FALSE /\ handler = FALSE
  /\ pty = FALSE /\ guard = FALSE /\ raw = FALSE /\ conn = "none" /\ shown = 0
  /\ daemon = "loading" /\ written \in 0 .. MaxChunks /\ pane = 1 /\ size = 0
  /\ told = FALSE /\ missed = FALSE /\ ended = "no"

-----------------------------------------------------------------------------
(* The daemon and the user.                                                *)

LogExists == daemon = "loading"
Reachable == daemon \in {"loading", "published"}

DaemonWrites ==
  /\ daemon = "loading" /\ written < MaxChunks
  /\ written' = written + 1
  /\ UNCHANGED <<progVars, termVars, daemon, told, missed>>

\* Its acceptor thread takes the connection out of the backlog.
DaemonAccepts ==
  /\ daemon # "gone" /\ conn = "backlog"
  /\ conn' = "accepted"
  /\ UNCHANGED <<pc, running, winch, handler, pty, guard, shown, ended,
                 termVars, daemonVars, missed>>

\* The log is renamed or removed, the socket removed, the process ends.
DaemonEnds ==
  /\ \/ daemon = "loading" /\ daemon' = "published"
     \/ daemon = "published" /\ daemon' = "unlinked"
     \/ daemon = "unlinked" /\ daemon' = "gone"
  /\ UNCHANGED <<progVars, termVars, written, told, missed>>

\* Ctrl-C, or anybody's SIGINT.
Interrupt ==
  /\ pc # "exited" /\ running
  /\ running' = FALSE
  /\ UNCHANGED <<pc, winch, handler, pty, guard, conn, shown, ended, termVars,
                 daemonVars, missed>>

\* SIGWINCH is ignored as long as there is no handler.
Resize ==
  /\ pc # "exited" /\ pane <= MaxResizes
  /\ pane' = pane + 1
  /\ winch' = (winch \/ handler)
  /\ missed' = (missed \/ pc = "handler")
  /\ UNCHANGED <<pc, running, handler, pty, guard, conn, shown, ended, raw, size,
                 daemonVars>>

Outside == DaemonWrites \/ DaemonAccepts \/ DaemonEnds \/ Interrupt \/ Resize

-----------------------------------------------------------------------------
(* Up to the loop.                                                         *)

\* std::process::exit(1): nothing is dropped.
Abort == pc' = "exited"

Open ==
  /\ pc = "open"
  /\ \/ LogExists /\ pc' = IF Terminal THEN "connect" ELSE "monitor"
     \/ ~LogExists /\ Abort  \* after 5 seconds
  /\ UNCHANGED <<running, winch, handler, pty, guard, conn, shown, ended,
                 termVars, daemonVars, missed>>

Connect ==
  /\ pc = "connect"
  /\ pc' = IF Reachable THEN "await" ELSE "monitor"
  /\ UNCHANGED <<running, winch, handler, pty, guard, conn, shown, ended,
                 termVars, daemonVars, missed>>

\* OK with the descriptor; or ERR, 5 seconds without an answer, the end of the
\* daemon, a signal during select: then it does without.
Await ==
  /\ pc = "await"
  /\ \/ daemon # "gone" /\ pty' = TRUE /\ pc' = "propagate"
     \/ pc' = "monitor" /\ UNCHANGED pty
  /\ UNCHANGED <<running, winch, handler, guard, conn, shown, ended, termVars,
                 daemonVars, missed>>

\* Bug: the size is only propagated when it changes.
BugPropagateFirst ==
  /\ pc = "propagate" /\ pc' = "handler"
  /\ UNCHANGED <<running, winch, handler, pty, guard, conn, shown, ended, termVars,
                 daemonVars, missed>>

\* propagate_winsize: without a size of its own it leaves the PTY's alone.
PropagateWinsize ==
  \/ size' = pane /\ missed' = FALSE
  \/ "winsize" \in Faults /\ missed' = TRUE /\ UNCHANGED size

PropagateFirst ==
  /\ pc = "propagate" /\ pc' = "handler"
  /\ PropagateWinsize
  /\ UNCHANGED <<running, winch, handler, pty, guard, conn, shown, ended, raw,
                 pane, daemonVars>>

InstallHandler ==
  /\ pc = "handler"
  /\ handler' = TRUE /\ pc' = "raw"
  /\ UNCHANGED <<running, winch, pty, guard, conn, shown, ended, termVars,
                 daemonVars, missed>>

\* Bug: the terminal is put in raw mode and the guard thrown away.
BugEnterRaw ==
  /\ pc = "raw"
  /\ raw' = TRUE /\ pc' = "monitor"
  /\ UNCHANGED <<running, winch, handler, pty, guard, conn, shown, ended, pane,
                 size, daemonVars, missed>>

EnterRaw ==
  /\ pc = "raw"
  /\ \/ raw' = TRUE /\ guard' = TRUE
     \/ "tcattr" \in Faults /\ UNCHANGED <<raw, guard>>
  /\ pc' = "monitor"
  /\ UNCHANGED <<running, winch, handler, pty, conn, shown, ended, pane, size,
                 daemonVars, missed>>

Monitor ==
  /\ pc = "monitor"
  /\ IF Reachable
     THEN conn' = "backlog" /\ pc' = "loop"
     ELSE conn' = "lost" /\ Abort
  /\ UNCHANGED <<running, winch, handler, pty, guard, shown, ended, termVars,
                 daemonVars, missed>>

Setup ==
  Open \/ Connect \/ Await \/ PropagateFirst \/ InstallHandler \/ EnterRaw \/ Monitor

-----------------------------------------------------------------------------
(* The loop.                                                               *)

\* SIGWINCH_RECEIVED.swap(false) ...
Loop ==
  /\ pc = "loop"
  /\ IF ~running THEN pc' = "left" /\ ended' = "other" /\ UNCHANGED winch
     ELSE /\ pc' = IF winch THEN "swapped" ELSE "select"
          /\ winch' = FALSE /\ UNCHANGED ended
  /\ UNCHANGED <<running, handler, pty, guard, conn, shown, termVars, daemonVars,
                 missed>>

\* ... and only then the size is read.
Propagate ==
  /\ pc = "swapped" /\ pc' = "select"
  /\ IF pty THEN PropagateWinsize ELSE UNCHANGED <<size, missed>>
  /\ UNCHANGED <<running, winch, handler, pty, guard, conn, shown, ended, raw,
                 pane, daemonVars>>

\* Input is forwarded, and so is nothing at all, for 100 ms; a signal starts the
\* loop over, end of input or another error ends it.
Select ==
  /\ pc = "select"
  /\ \/ pc' = "socket" /\ UNCHANGED ended
     \/ (winch \/ ~running) /\ pc' = "loop" /\ UNCHANGED ended
     \/ (pty \/ "select" \in Faults) /\ pc' = "left" /\ ended' = "other"
  /\ UNCHANGED <<running, winch, handler, pty, guard, conn, shown, termVars,
                 daemonVars, missed>>

\* Bug: what is left in the log is not shown.
BugRest == shown

\* The log is read to its end.
Rest == written

\* Bug: a closed connection is taken for one without data.
BugSocket ==
  /\ pc = "socket" /\ pc' = "poll"
  /\ UNCHANGED <<running, winch, handler, pty, guard, conn, shown, ended, termVars,
                 daemonVars, missed>>

\* A closed connection reads as end of file, or as an error if the daemon never
\* accepted it.
Socket ==
  /\ pc = "socket"
  /\ IF daemon # "gone" THEN pc' = "poll" /\ UNCHANGED <<conn, shown, ended>>
     ELSE /\ pc' = "left" /\ conn' = "lost"
          /\ IF conn = "accepted"
             THEN shown' = Rest /\ ended' = "eof"
             ELSE ended' = "reset" /\ UNCHANGED shown
  /\ UNCHANGED <<running, winch, handler, pty, guard, termVars, daemonVars, missed>>

\* Bug: the buffer is shown again when there was nothing to read.
BugPoll ==
  /\ pc = "poll" /\ pc' = "loop"
  /\ shown' = shown + 1
  /\ UNCHANGED <<running, winch, handler, pty, guard, conn, ended, termVars,
                 daemonVars, missed>>

\* As much of the log as a buffer holds.
Poll ==
  /\ pc = "poll"
  /\ shown' = IF shown < written THEN shown + 1 ELSE shown
  /\ pc' = "loop"
  /\ UNCHANGED <<running, winch, handler, pty, guard, conn, ended, termVars,
                 daemonVars, missed>>

\* Bug: an interrupted watch goes without a word.
BugFinish ==
  /\ pc = "left" /\ pc' = "drop"
  /\ UNCHANGED <<running, winch, handler, pty, guard, conn, shown, ended, termVars,
                 daemonVars, missed>>

\* stop_daemon, if the watch was interrupted.
Finish ==
  /\ pc = "left"
  /\ told' = (told \/ (~running /\ Reachable))
  /\ pc' = "drop"
  /\ UNCHANGED <<running, winch, handler, pty, guard, conn, shown, ended, termVars,
                 daemon, written, missed>>

\* The guard restores the terminal.
Drop ==
  /\ pc = "drop"
  /\ raw' = (raw /\ ~guard)
  /\ guard' = FALSE /\ pc' = "exited"
  /\ UNCHANGED <<running, winch, handler, pty, conn, shown, ended, pane, size,
                 daemonVars, missed>>

Looping == Loop \/ Propagate \/ Select \/ Socket \/ Poll \/ Finish \/ Drop

Over == pc = "exited" /\ UNCHANGED vars

Next == Outside \/ Setup \/ Looping \/ Over

Spec == Init /\ [][Next]_vars

\* The process is scheduled; a daemon that accepted its fate comes to its end.
FairSpec ==
  /\ Spec /\ WF_vars(Setup \/ Looping) /\ WF_vars(DaemonAccepts)
  /\ WF_vars(DaemonEnds /\ daemon # "loading")

-----------------------------------------------------------------------------
(* Safety.                                                                 *)

\* A watch that sees its daemon end has shown all the load printed.
OutputComplete == ended = "eof" => shown = written

\* A watch that comes to the end of run leaves the terminal as it found it.
TerminalRestored == pc = "exited" /\ ended # "no" => ~raw

\* A resize that came when there was a handler has reached the PTY or is going
\* to: the flag is still up, or the loop is between reading it and acting on it.
\* What was missed, before the handler or because the size could not be read, is
\* made up for by the next resize.
SizeTracked ==
  pty /\ ~missed /\ pc \notin {"propagate", "exited"} =>
    winch \/ size = pane \/ pc = "swapped"

-----------------------------------------------------------------------------
(* Liveness.                                                               *)

\* The pane closes when the daemon is gone.
WatchEnds == daemon = "gone" ~> pc = "exited"

\* An interrupted watch stops the load, if that has not come to its end.
InterruptStops ==
  ~running /\ pc \notin {"drop", "exited"} ~> told \/ daemon # "loading"

-----------------------------------------------------------------------------
(* What the comments say and the code does not do.                         *)

\* watch.rs: "RAII guard that restores terminal settings on drop".
AlwaysRestored == pc = "exited" => ~raw
=============================================================================
