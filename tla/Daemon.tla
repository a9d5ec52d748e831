------------------------------- MODULE Daemon -------------------------------
(***************************************************************************)
(* One direnv-instant daemon, from the moment its socket is bound (the     *)
(* line after UnixListener::bind in run_direnv) to the end of its process, *)
(* with the runtime directory it publishes to, the direnv process it runs  *)
(* on a pseudo terminal, and the clients that connect to its socket: shell *)
(* hooks (NOTIFY, STOP <pid>), watch processes (WATCH) and whoever forces  *)
(* it to stop (STOP).                                                      *)
(*                                                                         *)
(* A request is in flight from the client's write to the moment a handler  *)
(* thread acts on it.  Every connection has a thread of its own, so        *)
(* requests are handled in any order, whatever the order they were sent    *)
(* in, and those still in flight when the process ends are lost.           *)
(*                                                                         *)
(* Not here: how the daemon comes to own its socket path (module Launch).  *)
(***************************************************************************)
EXTENDS Naturals

CONSTANTS
  Shells,       \* pids of the shells that talk to this daemon
  Parent,       \* DaemonContext.parent_pid, the shell that started it
  Watchers,     \* watch processes that may ask for the PTY
  Pane,         \* the one this daemon's multiplexer pane runs
  PtyCapacity,  \* chunks of output the kernel buffers on the PTY: a bound
  Multiplexers, \* DaemonContext.multiplexer: "none", "herdr", "nvim", or "pane"
                \* for tmux, zellij, wezterm and kitty
  Faults,       \* what may fail: forkpty, the dup of the PTY master, File::create
                \* of the log, a write to it, a read or select on the PTY, a rename
                \* or the removal of env, and direnv itself (it is killed)
  Messages,     \* what the clients of this instance send
  Earlier,      \* what an earlier load may have left of env and env.stderr
  Slow,         \* may direnv outlast mux_delay?
  Background    \* may an .envrc leave a process behind on the terminal?

ASSUME ParentAssumption == Parent \in Shells
ASSUME PaneAssumption == Pane \in Watchers
ASSUME CapacityAssumption == PtyCapacity \in Nat \ {0}
ASSUME MultiplexersAssumption == Multiplexers \subseteq {"none", "pane", "herdr", "nvim"}
ASSUME FaultsAssumption ==
  Faults \subseteq {"forkpty", "dup", "log", "write", "pty", "rename", "direnv"}
ASSUME MessagesAssumption == Messages \subseteq {"NOTIFY", "STOP_PID", "STOP", "WATCH"}
ASSUME EarlierAssumption == Earlier \subseteq {"absent", "old"}
ASSUME EnvironmentAssumption == {Slow, Background} \subseteq BOOLEAN

VARIABLES
  \* The daemon's main thread.
  pc,         \* where it is, see Phases
  outcome,    \* LoadOutcome: "none", "ok" (exit 0), "failed", "cancelled"
  show,       \* which of has_stderr and has_env hold
  spawned,    \* mux_spawned: the multiplexer was asked for a pane
  \* What it shares with the handler threads.
  pids,       \* notify_pids: how often each pid is in the vector
  stop,       \* should_stop
  ptyMaster,  \* pty_master: not set yet ("none"), "shared", or never set ("failed")
  \* The forked child, which runs direnv, and its terminal.
  child,      \* "none", "running", "exit0", "exitN", "killed"
  lingering,  \* a process it left behind still holds the terminal
  pending,    \* chunks written to the PTY and not read yet
  late,       \* has mux_delay passed?
  \* The multiplexer, if there is one.
  multiplexer,
  answered,   \* has the command the main thread waits for returned?
  \* The runtime directory.
  sock,       \* does daemon.sock exist?
  temp, log,  \* the temporary files env.XXXXXX and env_stderr.XXXXXX
  env, stderr,\* the published files env and env.stderr
  \* Requests in flight, and what the clients saw.
  notifyQ, stopQ, forceQ,
  watch,      \* per watcher: "none", "asking", "granted", "refused"
  signals,    \* SIGUSR1s sent to each shell
  \* History, for the properties only.
  forced,     \* an unscoped STOP was handled
  joined,     \* pids that were registered before the daemon was told to stop
  left        \* pids that have ever sent STOP <pid>

mainVars    == <<pc, outcome, show, spawned>>
sharedVars  == <<pids, stop, ptyMaster>>
muxVars     == <<multiplexer, answered>>
childVars   == <<child, lingering, pending, late, muxVars>>
dirVars     == <<sock, temp, log, env, stderr>>
clientVars  == <<notifyQ, stopQ, forceQ, watch, signals>>
historyVars == <<forced, joined, left>>
vars == <<mainVars, sharedVars, childVars, dirVars, clientVars, historyVars>>

Phases == {"forkpty", "attach", "check", "select", "spawn", "reap", "report", "finish",
           "stderr", "env", "notify", "cleanup", "leaving", "exited"}

\* A file is absent, left by an earlier load, or written by this one: not at
\* all, in part ("torn"), or completely.  The log is "lost" when it is empty
\* because the writes failed.
Content == {"absent", "old", "empty", "lost", "torn", "new"}

MainType ==
  /\ pc \in Phases /\ outcome \in {"none", "ok", "failed", "cancelled"}
  /\ show \subseteq {"stderr", "env"} /\ spawned \in BOOLEAN
SharedType ==
  /\ pids \in [Shells -> Nat] /\ stop \in BOOLEAN
  /\ ptyMaster \in {"none", "shared", "failed"}
ChildType ==
  /\ child \in {"none", "running", "exit0", "exitN", "killed"}
  /\ lingering \in BOOLEAN /\ pending \in 0 .. PtyCapacity /\ late \in BOOLEAN
  /\ multiplexer \in Multiplexers /\ answered \in BOOLEAN
DirType ==
  /\ sock \in BOOLEAN
  /\ temp \in Content /\ log \in Content /\ env \in Content /\ stderr \in Content
ClientType ==
  /\ notifyQ \subseteq Shells /\ stopQ \subseteq Shells /\ forceQ \in BOOLEAN
  /\ watch \in [Watchers -> {"none", "asking", "granted", "refused"}]
  /\ signals \in [Shells -> Nat]
HistoryType == forced \in BOOLEAN /\ joined \subseteq Shells /\ left \subseteq Shells

TypeOK ==
  MainType /\ SharedType /\ ChildType /\ DirType /\ ClientType /\ HistoryType

-----------------------------------------------------------------------------
(* Start: the socket is bound, the temporary files exist and are empty.    *)

\* Nushell cannot take SIGUSR1, so its pid is not registered.
InitialPids ==
  {[p \in Shells |-> 0], [p \in Shells |-> IF p = Parent THEN 1 ELSE 0]}

Init ==
  /\ pc = "forkpty" /\ outcome = "none" /\ show = {} /\ spawned = FALSE
  /\ pids \in InitialPids /\ stop = FALSE /\ ptyMaster = "none"
  /\ child = "none" /\ lingering = FALSE /\ pending = 0 /\ late = FALSE
  /\ multiplexer \in Multiplexers /\ answered = FALSE
  /\ sock = TRUE /\ temp = "empty" /\ log = "empty"
  /\ env \in Earlier /\ stderr \in Earlier
  /\ notifyQ = {} /\ stopQ = {} /\ forceQ = FALSE
  /\ watch = [w \in Watchers |-> "none"]
  /\ signals = [p \in Shells |-> 0]
  /\ forced = FALSE /\ left = {}
  /\ joined = {p \in Shells : pids[p] > 0}

Alive == pc # "exited"

-----------------------------------------------------------------------------
(* Clients.                                                                *)

\* The path resolves and the listener behind it accepts.
Reachable == sock /\ Alive

\* start: the daemon is already running, ask it to notify shell p too.
NotifyDaemon(p) ==
  /\ "NOTIFY" \in Messages /\ Reachable /\ p \notin notifyQ
  /\ notifyQ' = notifyQ \cup {p}
  /\ UNCHANGED <<mainVars, sharedVars, childVars, dirVars, stopQ, forceQ, watch,
                 signals, forced, joined, left>>

\* stop, or start after a change of directory: shell p leaves.  A process
\* that inherited the hook's variables sends this without ever joining.
DetachDaemon(p) ==
  /\ "STOP_PID" \in Messages /\ Reachable /\ p \notin stopQ
  /\ stopQ' = stopQ \cup {p}
  /\ left' = left \cup {p}
  /\ UNCHANGED <<mainVars, sharedVars, childVars, dirVars, notifyQ, forceQ, watch,
                 signals, forced, joined>>

\* An interrupted watch, or a nushell that changes directory.
StopDaemon ==
  /\ "STOP" \in Messages /\ Reachable /\ ~forceQ
  /\ forceQ' = TRUE
  /\ UNCHANGED <<mainVars, sharedVars, childVars, dirVars, notifyQ, stopQ, watch,
                 signals, historyVars>>

\* A watch process asks for the PTY master: one that was opened by hand whenever
\* it likes, the pane's own some time after the multiplexer was asked, or never.
RequestPty(w) ==
  /\ "WATCH" \in Messages /\ Reachable /\ watch[w] = "none"
  /\ w = Pane => spawned
  /\ watch' = [watch EXCEPT ![w] = "asking"]
  /\ UNCHANGED <<mainVars, sharedVars, childVars, dirVars, notifyQ, stopQ, forceQ,
                 signals, historyVars>>

Clients ==
  \/ \E p \in Shells : NotifyDaemon(p) \/ DetachDaemon(p)
  \/ StopDaemon
  \/ \E w \in Watchers : RequestPty(w)

-----------------------------------------------------------------------------
(* Handler threads (handle_socket_commands).                               *)

\* Bug: the pid is pushed without looking for it.
BugWithPid(p) == [pids EXCEPT ![p] = @ + 1]

\* A pid already in the vector is not pushed again.
WithPid(p) == IF pids[p] > 0 THEN pids ELSE [pids EXCEPT ![p] = @ + 1]

HandleNotify(p) ==
  /\ Alive /\ p \in notifyQ
  /\ notifyQ' = notifyQ \ {p}
  /\ pids' = WithPid(p)
  /\ joined' = IF stop THEN joined ELSE joined \cup {p}
  /\ UNCHANGED <<mainVars, stop, ptyMaster, childVars, dirVars, stopQ, forceQ,
                 watch, signals, forced, left>>

\* Only the pid's first entry goes.
WithoutPid(p) == [pids EXCEPT ![p] = @ - 1]

NoneLeft(reg) == \A p \in Shells : reg[p] = 0

\* Bug (issue #130): STOP <pid> taken for a plain STOP.
BugDetachPid(p) == stop' = TRUE /\ UNCHANGED pids

\* Bug: the shell is removed without looking whether it is there.
BugDetachBlind(p) ==
  pids' = WithoutPid(p) /\ stop' = (stop \/ NoneLeft(WithoutPid(p)))

\* Bug: the last shell leaves and nothing happens.
BugNeverStops(p) == pids' = (IF pids[p] > 0 THEN WithoutPid(p) ELSE pids) /\ UNCHANGED stop

\* A pid that never registered is ignored; the last one out stops the load.
DetachPid(p) ==
  IF pids[p] > 0
  THEN /\ pids' = WithoutPid(p)
       /\ stop' = (stop \/ NoneLeft(WithoutPid(p)))
  ELSE UNCHANGED <<pids, stop>>

HandleStopPid(p) ==
  /\ Alive /\ p \in stopQ
  /\ stopQ' = stopQ \ {p}
  /\ DetachPid(p)
  /\ UNCHANGED <<mainVars, ptyMaster, childVars, dirVars, notifyQ, forceQ, watch,
                 signals, historyVars>>

HandleStop ==
  /\ Alive /\ forceQ
  /\ forceQ' = FALSE /\ stop' = TRUE /\ forced' = TRUE
  /\ UNCHANGED <<mainVars, pids, ptyMaster, childVars, dirVars, notifyQ, stopQ,
                 watch, signals, joined, left>>

\* OK with the descriptor (SCM_RIGHTS), or ERR without one.
HandleWatch(w) ==
  /\ Alive /\ watch[w] = "asking"
  /\ watch' = [watch EXCEPT ![w] = IF ptyMaster = "shared" THEN "granted" ELSE "refused"]
  /\ UNCHANGED <<mainVars, sharedVars, childVars, dirVars, notifyQ, stopQ, forceQ,
                 signals, historyVars>>

Handlers ==
  \/ \E p \in Shells : HandleNotify(p) \/ HandleStopPid(p)
  \/ HandleStop
  \/ \E w \in Watchers : HandleWatch(w)

-----------------------------------------------------------------------------
(* The child (child_process), direnv under it, the clock, the multiplexer. *)

SlaveOpen == child = "running" \/ lingering

\* direnv, or a process it started, prints on the terminal; a full buffer
\* blocks it.
ChildPrints ==
  /\ Alive /\ SlaveOpen /\ pending < PtyCapacity
  /\ pending' = pending + 1
  /\ UNCHANGED <<mainVars, sharedVars, child, lingering, late, muxVars, dirVars,
                 clientVars, historyVars>>

\* direnv writes its export to the temporary file, in more than one piece.
ChildExports ==
  /\ Alive /\ child = "running" /\ temp \in {"empty", "torn"}
  /\ temp' = IF temp = "empty" THEN "torn" ELSE "new"
  /\ UNCHANGED <<mainVars, sharedVars, childVars, sock, log, env, stderr,
                 clientVars, historyVars>>

\* direnv ends, with its export written or with nothing to export, and the
\* child passes its exit code on; a direnv that was killed counts as exit 1.
ChildExits ==
  /\ Alive /\ child = "running"
  /\ \/ child' \in {"exit0", "exitN"} /\ temp # "torn"
     \/ child' = "exitN" /\ "direnv" \in Faults
  /\ lingering' \in {FALSE, Background}
  /\ UNCHANGED <<mainVars, sharedVars, pending, late, muxVars, dirVars, clientVars,
                 historyVars>>

\* A process left behind lets go of the terminal.
LingererExits ==
  /\ Alive /\ child # "running" /\ lingering
  /\ lingering' = FALSE
  /\ UNCHANGED <<mainVars, sharedVars, child, pending, late, muxVars, dirVars,
                 clientVars, historyVars>>

DelayElapses ==
  /\ Slow /\ Alive /\ ~late
  /\ late' = TRUE
  /\ UNCHANGED <<mainVars, sharedVars, child, lingering, pending, muxVars, dirVars,
                 clientVars, historyVars>>

\* The main thread has run a command of its multiplexer and waits for the answer:
\* herdr's, without a limit of its own, when it opens the pane, and Neovim's, for
\* 5 s at most (module Nvim), when the load is over.  No load waits twice.
Awaits == pc \in {"spawn", "finish"} /\ ~answered

CommandReturns ==
  /\ Awaits
  /\ answered' = TRUE
  /\ UNCHANGED <<mainVars, sharedVars, child, lingering, pending, late, multiplexer,
                 dirVars, clientVars, historyVars>>

Environment ==
  \/ ChildPrints \/ ChildExports \/ ChildExits \/ LingererExits \/ DelayElapses
  \/ CommandReturns

-----------------------------------------------------------------------------
(* The main thread (run_direnv, parent_process, copy_pty_to_logfile).      *)

\* process::exit runs no destructor: the directory stays as it is.
ExitNow == pc' = "exited" /\ UNCHANGED <<outcome, show, spawned, dirVars>>

ForkPty ==
  /\ pc = "forkpty"
  /\ \/ child' = "running" /\ pc' = "attach" /\ UNCHANGED <<outcome, show, spawned, dirVars>>
     \/ "forkpty" \in Faults /\ ExitNow /\ UNCHANGED child
  /\ UNCHANGED <<sharedVars, lingering, pending, late, muxVars, clientVars, historyVars>>

\* Bug: the master is never shared.
BugStoreMaster == UNCHANGED ptyMaster

\* The handler threads get a duplicate of the master, if there can be one: the
\* load goes on without.
StoreMaster == ptyMaster' \in {"shared"} \cup (IF "dup" \in Faults THEN {"failed"} ELSE {})

Attach ==
  /\ pc = "attach"
  /\ StoreMaster
  /\ \/ pc' = "check" /\ UNCHANGED <<outcome, show, spawned, dirVars, child>>
     \/ "log" \in Faults /\ ExitNow /\ child' = "killed"
  /\ UNCHANGED <<pids, stop, lingering, pending, late, muxVars, clientVars, historyVars>>

\* Bug: the copy loop does not look at should_stop.
BugCheckStop ==
  /\ pc = "check" /\ pc' = "select"
  /\ UNCHANGED <<outcome, show, spawned, sharedVars, childVars, dirVars, clientVars,
                 historyVars>>

\* Top of the copy loop: a stop request ends the load, SIGTERM to the child.
CheckStop ==
  /\ pc = "check"
  /\ IF stop
     THEN /\ outcome' = "cancelled" /\ pc' = "report"
          /\ child' = IF child = "running" THEN "killed" ELSE child
     ELSE pc' = "select" /\ UNCHANGED <<outcome, child>>
  /\ UNCHANGED <<show, spawned, sharedVars, lingering, pending, late, muxVars, dirVars,
                 clientVars, historyVars>>

\* What a write to the log makes of it, and one that fails, perhaps half way.
Written(content) == IF content \in {"empty", "new"} THEN "new" ELSE "torn"
Spoilt(content) == IF content \in {"empty", "lost"} THEN {"lost", "torn"} ELSE {"torn"}

\* The loop does not look at what became of the write.
CopyChunk ==
  /\ pc = "select" /\ pending > 0
  /\ pending' = pending - 1
  /\ log' = Written(log) \/ ("write" \in Faults /\ log' \in Spoilt(log))
  /\ pc' = "check"
  /\ UNCHANGED <<outcome, show, spawned, sharedVars, child, lingering, late, muxVars,
                 sock, temp, env, stderr, clientVars, historyVars>>

\* Bug: the copy ends with direnv, whatever the terminal still holds.
BugEndOfOutput == ~SlaveOpen

\* EIO: nothing left to read and nobody has the slave open.
EndOfOutput == pending = 0 /\ ~SlaveOpen

PtyCloses ==
  /\ pc = "select"
  /\ EndOfOutput \/ "pty" \in Faults
  /\ pc' = "reap"
  /\ UNCHANGED <<outcome, show, spawned, sharedVars, childVars, dirVars, clientVars,
                 historyVars>>

\* Bug: with the pane open select waits without a timeout.
BugSilence == pc = "select" /\ pending = 0 /\ SlaveOpen /\ ~spawned

\* 100 ms without output.
Silence == pc = "select" /\ pending = 0 /\ SlaveOpen

\* Bug: the delay is only looked at before it has passed.
BugPaneDue == multiplexer # "none" /\ ~spawned /\ ~late /\ log # "empty"

\* total_bytes counts what was read, whether or not it could be written.
PaneDue == multiplexer # "none" /\ ~spawned /\ late /\ log # "empty"

\* The multiplexer is asked now or never: it may fail, it is not asked again.  Its
\* command is left to itself, except for herdr's.
SelectTimeout ==
  /\ Silence
  /\ pc' = IF PaneDue /\ multiplexer = "herdr" THEN "spawn" ELSE "check"
  /\ spawned' = (spawned \/ (PaneDue /\ multiplexer # "herdr"))
  /\ UNCHANGED <<outcome, show, sharedVars, childVars, dirVars, clientVars, historyVars>>

\* herdr has said which pane the watch is to run in, or that there is none.
SpawnReturns ==
  /\ pc = "spawn" /\ answered
  /\ pc' = "check" /\ spawned' = TRUE
  /\ UNCHANGED <<outcome, show, sharedVars, childVars, dirVars, clientVars, historyVars>>

\* Bug: the outcome is taken from the end of the output, nobody waits.
BugReap ==
  /\ pc = "reap"
  /\ outcome' = IF child = "exitN" THEN "failed" ELSE "ok"
  /\ pc' = "report"
  /\ UNCHANGED <<show, spawned, sharedVars, childVars, dirVars, clientVars, historyVars>>

\* waitpid
Reap ==
  /\ pc = "reap" /\ child \in {"exit0", "exitN"}
  /\ outcome' = IF child = "exit0" THEN "ok" ELSE "failed"
  /\ pc' = "report"
  /\ UNCHANGED <<show, spawned, sharedVars, childVars, dirVars, clientVars, historyVars>>

\* Bug: a cancelled load goes on to publish.
BugReport ==
  /\ pc = "report" /\ pc' = "stderr"
  /\ UNCHANGED <<outcome, show, spawned, sharedVars, childVars, dirVars, clientVars,
                 historyVars>>

\* Bug: the shells are told before the files are in place.
BugReportFirst ==
  /\ pc = "report"
  /\ pc' = IF outcome = "cancelled" THEN "cleanup" ELSE "stderr"
  /\ signals' = IF outcome = "cancelled" THEN signals
                ELSE [p \in Shells |-> signals[p] + pids[p]]
  /\ UNCHANGED <<outcome, show, spawned, sharedVars, childVars, dirVars, notifyQ,
                 stopQ, forceQ, watch, historyVars>>

\* The early return of a cancelled load.
Reported == IF outcome = "cancelled" THEN "cleanup" ELSE "stderr"

\* Multiplexer::finish, which only Neovim has.
Report ==
  /\ pc = "report"
  /\ pc' = IF multiplexer = "nvim" THEN "finish" ELSE Reported
  /\ UNCHANGED <<outcome, show, spawned, sharedVars, childVars, dirVars, clientVars,
                 historyVars>>

FinishReturns ==
  /\ pc = "finish" /\ answered
  /\ pc' = Reported
  /\ UNCHANGED <<outcome, show, spawned, sharedVars, childVars, dirVars, clientVars,
                 historyVars>>

HasStderr == log \in {"torn", "new"}

\* What is announced does not depend on whether the rename succeeds.
PublishStderr ==
  /\ pc = "stderr"
  /\ \/ HasStderr /\ show' = show \cup {"stderr"} /\ stderr' = log /\ log' = "absent"
     \/ HasStderr /\ show' = show \cup {"stderr"} /\ "rename" \in Faults /\ UNCHANGED <<stderr, log>>
     \/ ~HasStderr /\ UNCHANGED <<stderr, log, show>>
  /\ pc' = "env"
  /\ UNCHANGED <<outcome, spawned, sharedVars, childVars, sock, temp, env,
                 clientVars, historyVars>>

HasEnv == temp \in {"torn", "new"}

\* Bug: any load without an export drops the cached one.
BugDropsCache == ~HasEnv

\* A load that failed without a rollback to publish drops the cached export.
DropsCache == ~HasEnv /\ outcome = "failed"

PublishEnv ==
  /\ pc = "env"
  /\ show' = IF HasEnv THEN show \cup {"env"} ELSE show
  /\ \/ HasEnv /\ env' = temp /\ temp' = "absent"
     \/ DropsCache /\ env' = "absent" /\ UNCHANGED temp
     \/ (HasEnv \/ DropsCache => "rename" \in Faults) /\ UNCHANGED <<env, temp>>
  /\ pc' = "notify"
  /\ UNCHANGED <<outcome, spawned, sharedVars, childVars, sock, log, stderr,
                 clientVars, historyVars>>

\* Bug: error output alone is not worth a signal.
BugSomethingToShow == "env" \in show

SomethingToShow == show # {}

\* Bug: the signals go to a list that shells were never taken out of.
BugNotifyShells ==
  /\ pc = "notify"
  /\ signals' = [p \in Shells |-> IF show # {} /\ p \in joined THEN 1 ELSE 0]
  /\ pc' = "cleanup"
  /\ UNCHANGED <<outcome, show, spawned, sharedVars, childVars, dirVars, notifyQ,
                 stopQ, forceQ, watch, historyVars>>

\* Under the lock, so the vector does not change between two signals.
NotifyShells ==
  /\ pc = "notify"
  /\ signals' = IF SomethingToShow
                THEN [p \in Shells |-> signals[p] + pids[p]]
                ELSE signals
  /\ pc' = "cleanup"
  /\ UNCHANGED <<outcome, show, spawned, sharedVars, childVars, dirVars, notifyQ,
                 stopQ, forceQ, watch, historyVars>>

\* Bug: the log is not cleaned up.
BugRemoveFiles == sock' = FALSE /\ temp' = "absent" /\ UNCHANGED log

RemoveFiles == sock' = FALSE /\ temp' = "absent" /\ log' = "absent"

\* Drop of Cleanup.
CleanUp ==
  /\ pc = "cleanup"
  /\ RemoveFiles
  /\ pc' = "leaving"
  /\ UNCHANGED <<outcome, show, spawned, sharedVars, childVars, env, stderr,
                 clientVars, historyVars>>

\* main returns: the handler threads end with the process.
Exit ==
  /\ pc = "leaving"
  /\ pc' = "exited"
  /\ UNCHANGED <<outcome, show, spawned, sharedVars, childVars, dirVars, clientVars,
                 historyVars>>

Main ==
  \/ ForkPty \/ Attach
  \/ CheckStop \/ CopyChunk \/ PtyCloses \/ SelectTimeout \/ SpawnReturns
  \/ Reap \/ Report \/ FinishReturns \/ PublishStderr \/ PublishEnv \/ NotifyShells
  \/ CleanUp \/ Exit

Terminated == ~Alive /\ UNCHANGED vars

Next == Clients \/ Handlers \/ Environment \/ Main \/ Terminated

Spec == Init /\ [][Next]_vars

-----------------------------------------------------------------------------
(* Safety.                                                                 *)

\* The environment a shell evaluates is the whole export of one direnv run,
\* never the beginning of one that is still being written: env is only replaced
\* by rename, after waitpid, and never by a cancelled load.  The exception is a
\* direnv killed half way, which is published as a failed load.
NoTornCache == env = "torn" => outcome = "failed" /\ "direnv" \in Faults

\* A shell that gets SIGUSR1 finds everything this load will ever publish:
\* the files `show` announces are in place and nothing is still to be renamed.
\* (The code does not look whether a rename succeeds: with a failed one this is false.)
SignalAfterPublication ==
  (\E p \in Shells : signals[p] > 0) =>
    /\ show # {}
    /\ "env" \in show => env \notin {"absent", "old"}
    /\ "stderr" \in show => stderr \notin {"absent", "old"}
    /\ {temp, log} \cap {"torn", "new"} = {}

\* One load, at most one SIGUSR1 per shell, however often it asked to be told.
OncePerShell == \A p \in Shells : signals[p] <= 1

\* Unless somebody forces it, a load is stopped by the shells that wait for it
\* and by nobody else: there were some, and each has asked to leave.
OnlyOwnersCancel == stop /\ ~forced => joined # {} /\ joined \subseteq left

\* A cancelled load leaves no trace: nothing published, nobody signalled.
CancelledLeavesNoTrace ==
  outcome = "cancelled" =>
    /\ {env, stderr} \cap {"torn", "new"} = {}
    /\ \A p \in Shells : signals[p] = 0

\* What direnv printed before it ended has been read when the log gets published:
\* a load that ran to its end has read the terminal dry.  (A write to the log that
\* fails loses what was read; the code does not look.)
LogComplete == outcome \in {"ok", "failed"} => pending = 0

\* The watch process of the daemon's own pane is told ERR for one reason only:
\* the PTY master could not be duplicated.  By the time a pane is opened the
\* handlers can hand it out, so that nobody asks too early.
OwnPaneServed == watch[Pane] = "refused" => ptyMaster = "failed"

\* A daemon that is gone leaves neither its socket nor its temporary files.
CleanExit ==
  ~Alive => ~sock /\ temp = "absent" /\ log = "absent"

\* A step of the main thread that does not take an error on the PTY.
MainGoesOn == Main /\ (pc = "select" /\ pc' = "reap" => EndOfOutput)

\* There are three places where the main thread waits for somebody and hears no stop
\* request: after an error on the PTY, for a direnv that may be blocked on the
\* terminal nobody reads any more; in a silence, for herdr to open the pane; and at
\* the end, for Neovim to take note of it.  Otherwise it waits for output, for
\* 100 ms at a time.
WaitsForDirenv == pc = "reap" /\ child = "running" /\ "pty" \in Faults
WaitsForHerdr == pc = "spawn" /\ ~answered /\ multiplexer = "herdr" /\ late /\ ~spawned
WaitsForNeovim == pc = "finish" /\ ~answered /\ multiplexer = "nvim" /\ outcome # "none"
OnlyKnownWaits ==
  Alive /\ ~ENABLED <<MainGoesOn>>_vars => WaitsForDirenv \/ WaitsForHerdr \/ WaitsForNeovim

\* The cached export is replaced by the complete export of this load; only a
\* load that failed drops it, and one with an empty export keeps it.
CacheStep == env' # env => env' = "new" \/ outcome = "failed"
EmptyExportPreservesCache == [][CacheStep]_vars

-----------------------------------------------------------------------------
(* What all of this amounts to for a shell (module LoadService).           *)

ServicePhase ==
  IF outcome = "cancelled" THEN "cancelled"
  ELSE IF pc = "notify" THEN "published"
  ELSE IF pc \in {"cleanup", "leaving", "exited"} THEN "over" ELSE "loading"

Service == INSTANCE LoadService WITH
  Exports <- IF "direnv" \in Faults THEN {"torn", "new"} ELSE {"new"},
  phase   <- ServicePhase,
  waiting <- {p \in Shells : pids[p] > 0},
  doomed  <- stop,
  cache   <- env,
  news    <- show # {} /\ pc \notin {"stderr", "env"},
  told    <- {p \in Shells : signals[p] > 0}

\* Two renames, a vector behind a lock and a loop of kill(2) look to the shells
\* like one publication followed by one announcement to exactly those who wait,
\* or like a cancellation that never happened: whoever left is not signalled,
\* even if he was registered when the load ended.
ImplementsService == Service!Spec

-----------------------------------------------------------------------------
(* Liveness.  The kernel schedules every thread of the daemon, and owes it *)
(* no error on the PTY.  A multiplexer's command returns: Neovim's because *)
(* the daemon gives it 5 s, herdr's because we trust herdr.  direnv is     *)
(* under no obligation to print, to export or to end, nor is anybody to    *)
(* talk to the daemon.                                                     *)

HandlerFairness ==
  /\ \A p \in Shells : WF_vars(HandleNotify(p)) /\ WF_vars(HandleStopPid(p))
  /\ WF_vars(HandleStop)
  /\ \A w \in Watchers : WF_vars(HandleWatch(w))

FairSpec == Spec /\ WF_vars(MainGoesOn) /\ WF_vars(CommandReturns) /\ HandlerFairness

\* A daemon that was told to stop does, whatever direnv is doing: silent, printing
\* without pause, blocked on a full terminal; and even if the daemon is just having
\* a pane opened.
StopEnds == stop ~> ~Alive

\* direnv has printed something, is silent and still at it, and mux_delay is over.
Overdue ==
  /\ multiplexer # "none" /\ late /\ log # "empty"
  /\ child = "running" /\ pending = 0 /\ pc \in {"check", "select", "spawn"}

\* For a slow direnv a pane is asked for, even if it printed all along up to the
\* delay, provided that it pauses: output without pause starves the timeout that
\* looks at the clock.
QuietPaneOpens == <>[]Overdue => <>(spawned \/ stop)

Finished == child \in {"exit0", "exitN"} /\ ~lingering

\* Once direnv has ended and let go of the terminal, a shell that is
\* registered before the signals go out gets its signal, unless it leaves, the
\* load is stopped, or the load turns out to have nothing to show.
Told ==
  \A p \in Shells :
    Finished /\ pids[p] > 0 /\ pc \notin {"cleanup", "leaving", "exited"} ~>
      signals[p] > 0 \/ p \in left \/ stop \/ (~Alive /\ show = {})

\* If every shell that ever registered leaves while direnv still runs, the load
\* is stopped: nobody has to wait for it, and it does not run for nobody.
Abandoned == joined # {} /\ \A p \in Shells : pids[p] = 0
AbandonedEnds == Abandoned ~> ~Alive

-----------------------------------------------------------------------------
(* What the documentation says and the code does not do.                   *)

\* The shells that asked to be told and never asked to leave.
Waiting == {p \in Shells : p \notin left /\ (p \in notifyQ \/ pids[p] > 0)}

\* daemon.rs: "one shell exiting doesn't kill an evaluation other shells still
\* wait on (issue #130)".
ScopedStopSparesWaiters == outcome = "cancelled" /\ ~forced => Waiting = {}
=============================================================================
