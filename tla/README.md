# direnv-instant in TLA+

direnv-instant runs direnv in a background daemon so that a prompt never waits
for `.envrc`. What makes it hard is not direnv: several shells of a session share
one daemon per directory, join and leave it at every prompt over a Unix socket,
get their environment through files that are replaced under them, and may be
watched from a multiplexer pane while any of these processes ends. This
directory models those protocols, checks them with TLC on small instances, and
proves with TLAPS, for instances of any size, all but one of the properties that it
checks.

## Inventory

| Component | Source | State | Operations | Talks to |
|---|---|---|---|---|
| daemon | `src/daemon.rs` 209-478 | `notify_pids`, `should_stop`, `pty_master`, the phase of the main thread, two temporary files, `env`, `env.stderr`, the direnv child and its PTY | NOTIFY, STOP pid, STOP, WATCH; copy loop, publication, signals, cleanup | shells (SIGUSR1, files), watch (SCM_RIGHTS), multiplexer, direnv |
| rendezvous | `src/daemon.rs` 97-207, 287-294, `src/commands/start.rs` 59-82 | `daemon.sock`, one daemon process per successful fork | look for a daemon, tell it, remove a stale socket, double fork, bind, listen | starts and daemons of one directory, through the file system |
| watch | `src/commands/watch.rs` | interrupt and resize flags, raw mode, two connections, position in the log | follow the log, forward input and size, stop the daemon | daemon, user, terminal |
| stop | `src/commands/stop.rs` | none | STOP pid | daemon |
| start | `src/commands/start.rs` | none; it prints the hook's variables | choose directory, detach from the old one, synchronous run | daemon, hook |
| nushell entry | `src/nushell.rs` | a JSON record, per-pid files | forced STOP, synchronous capture | daemon, nushell hook |
| hooks | `hooks/*` | the hook's variables, the shell's environment | prompt, SIGUSR1 handler, exit | start, stop, published files |
| Neovim reporting | `src/mux/nvim.rs` | an RPC client process per event | watch, finish, 5 s timeout, kill and reap | daemon, Neovim |
| multiplexers | `src/mux.rs` | none | choose, open a pane, delay arithmetic | daemon |
| quoting | `src/shell.rs`, `json_escape`, `escape_lua_string` | none | pure functions | |

Hard behaviour, by component, and what correctness means there:

- **daemon.** One handler thread per connection, so requests are handled in any
  order and concurrently with the main thread; a load ends by success, failure or
  cancellation at any point, and each must leave the published files in its own
  way. Correct: no half-written export is ever published; a signal comes after
  everything it announces and at most once; only the shells that wait for a load
  cancel it; a cancelled load leaves no trace; a stop request ends it; a finished
  load is reported to those who registered.
- **rendezvous.** No lock: checking the path and acting on it are separate calls,
  and so are bind and listen. Correct: one daemon, found at the path; every shell
  registered or served by its own load; only dead sockets removed; nothing leaked
  per prompt.
- **watch.** Signals between any two steps, a daemon that goes away in three
  steps (log, socket, process). Correct: all output shown, terminal restored,
  size followed, it ends, and its interrupt reaches the daemon.
- **hooks, start, nushell.** Files and variables of one directory used after a
  change to another; files shared by shells. Correct: a shell ends up with the
  environment of the directory it is in.
- **Neovim reporting.** A timeout racing the reply, two requests under way at
  once. Correct: every client is reaped, publication is delayed by a bounded
  time, an end is never reported as a success it was not.

`PROJECT.json` lists these hazards one by one at the line where they bite.

## Modules

| Module | Models | Runs | Proofs |
|---|---|---|---|
| `LoadService` | what one load promises to the shells: the abstract specification | (`DaemonSafety`) | `ServiceProofs` |
| `Rendezvous` | how the starts of a directory meet, in one step: the abstract specification | (`LaunchSpaced`) | `LaunchProofs` |
| `Daemon` | one daemon from its bound socket to the end of its process; it implements `LoadService` | `DaemonSafety`, `DaemonFaults`, `DaemonLive`, `DaemonScopedStop` | `DaemonProofs`, `DaemonLiveProofs`, `ServiceProofs` |
| `Launch` | starts and daemons of one directory meeting at `daemon.sock`; it implements `Rendezvous` if starts keep apart | `LaunchRaces`, `LaunchSpaced` | `LaunchProofs` |
| `Watch` | one watch process beside an ending daemon | `Watch`, `WatchRaw` | `WatchProofs` |
| `Nvim` | a daemon's two reports to Neovim, their clients and their timeouts | `Nvim` | `NvimProofs` |
| `Direnv` | what `direnv export` prints and what evaluating it does | (through the next two) | |
| `Shell` | shells with the bash, zsh or fish hook, moving between directories, and the loads of these | `Shell`, `ShellMixed` | `ShellProofs` |
| `Nushell` | nushells with theirs, and the loads they share with other shells | `Nushell` | `NushellProofs` |

`MCDaemon`, `MCLaunch`, `MCWatch`, `MCNvim`, `MCShell` and `MCNushell` give the
constants their values. The operators named `Bug...`, each next to the definition it
would replace, are plausible mistakes; `PROJECT.json` "mutants" says which property
each one breaks.

### Daemon

The main thread is the variable `pc`; each of its phases is a stretch of
`run_direnv` and `parent_process` between two points where another thread or
process can make a difference: `forkpty`, `attach` (share the PTY, open the log),
`check` and `select` (the copy loop), `spawn` (herdr opens the pane), `reap`
(waitpid), `report` (`Multiplexer::finish`), `finish` (Neovim answers), `stderr`,
`env`, `notify`, `cleanup`, `leaving`.
`pids` is the vector `notify_pids` as a bag, so that a pid pushed twice would
show. Handler threads are one action per message (`HandleNotify`,
`HandleStopPid`, `HandleStop`, `HandleWatch`), atomic because each does its work
under one lock or as one atomic store. Requests in flight are sets: no order is
kept, as none is kept between connections, and what is in flight when the
process ends is lost.

Data is abstracted to what the properties tell apart. Files hold a member of
`Content` (absent, left by an earlier load, empty, part of this load's output,
all of it). Output is counted in chunks up to `PtyCapacity`. A nushell parent is
the initial choice of an empty vector. direnv prints, exports in two pieces, ends
with or without an export and with either status, and may leave a process behind
that holds the terminal (`Background`); `Slow` says whether it can outlast the pane
delay.

`multiplexer` is the one the daemon has, out of `Multiplexers`. Asking it for a pane
is one step with tmux, zellij, wezterm, kitty and Neovim, whose command is left to
itself. herdr's is waited for, for as long as it takes (`spawn`), and so is Neovim's
answer at the end of the load (`finish`), 5 s at most; how that wait ends is `Nvim`.
Meanwhile the main thread looks at nothing else, and `answered` says that the command
has returned. Whether a pane opens is up to the multiplexer: its watch asks for the
PTY some time after `spawned`, or never.

`Faults` selects what fails: `forkpty`, duplicating the PTY master, creating the log,
a write to it, a read or select on the PTY, a rename or the removal of env, and direnv
being killed half way. What `Cleanup` removes is removed. `Messages` selects what the
clients send, to keep instances small.

History variables `forced`, `joined` and `left` record who asked for what;
nothing but properties reads them.

`LoadService` is the same load as its shells see it: they join and leave, the load
is cancelled or publishes in one step, and tells everybody who waits in another.
`Service` in `Daemon` is the refinement mapping: `loading` lasts until the env file
is in place, `doomed` is `should_stop`, `waiting` the vector without its order, and
`told` who got SIGUSR1.

### Launch

Each starter runs the calls of `start` and `start_daemon` one at a time
(`exists`, `notify`, `recheck`, `connect`, `remove`, `fork`) and its daemon, of
the same name, those of `run_direnv` (`mkstemp`, `bind`, `listen`, `serving`,
`cleanup`). `sock` is whose socket the path names, and connect succeeds only on
one that listens. `bind` fails if the path exists; the panic unwinds through
`Cleanup` (phase `losing`), which removes the path whatever it names. `Overlap`
says whether a start may begin while another one or its daemon is on its way.
Daemons may be killed anywhere, and those that serve may leave by `process::exit`
(`Abort`: no terminal, or no log); either way no destructor runs and socket and files
stay.

`Rendezvous` is what a shell may think a start does: join the daemon that serves or,
where none does, serve itself, in one step. `Meeting` in `Launch` is the refinement
mapping: a start is `asking` until its request is delivered or its own daemon
listens or has failed; `joined` has those whose NOTIFY was accepted; `serving` is the
daemon that listens. So the step `Join` is `notify`, `Serve` is `listen`, and
`End` is the end, the exit or the death of a daemon that listened. A daemon that cleans up
still answers until its process ends, and is still `serving`: `Told` says whom it
signals.

### Watch

`pc` follows `run` from opening the log to the drop of the raw mode guard; the
two connections, the first propagation of the size, the installation of the
SIGWINCH handler and raw mode are separate steps, and so are swapping the resize
flag and reading the size. If the terminal does not tell its size nothing is
propagated (`PropagateWinsize`), and `missed` holds until the next resize. The daemon
is the order in which its log path, socket and process disappear.

### Nvim

Each report is a client process `nvim --remote-expr` and a wait for it, of the
thread that `spawn` starts for `watch` and of the main thread for `finish`.
`TryWait`, `Clock`, `Kill` and `Reap` are the four calls of `wait_for_reply`; the
deadline may pass between any two of them. Neovim is external: it has an inbox,
evaluates requests in any order, also those of clients that have been killed,
refuses or fails, answers late or never, or quits. Exit status and text of the
reply are one of `"1"`, `"0"` and `"error"`. `Finish`, `Publish` and `CleanUp` are
the end of `parent_process`, reduced to what becomes of the log, whose path is in
the reports. `known` is a history variable.

### Shell

`hook` follows a shell through its prompt: `idle`, `start` (the cache was
evaluated), `eval` (what `start` printed is to be evaluated), `gone`. `Prompt`,
`Start` and `EvalOutput` are `_direnv_hook` with the whole of `start`, which
detaches from the old directory and either runs direnv on the spot (`RunSync`)
or announces the env file and turns to a daemon (`RunDaemon`); `Handler` is
`_direnv_handler`, between any two of them; `Leave` is `stop`. `current` and
`envFile` are the hook's variables, named by the directory they belong to.

An environment is the set of directories whose variables are in it (`present`)
and the one direnv keeps in DIRENV_DIFF (`loaded`). What direnv exports is a
change from the one loaded when it ran to the directory it ran for, or back
outside if the `.envrc` is broken; evaluating it takes the first out, puts the
second in, and records it. `env` is the published file of a directory. The load
of a directory is reduced to what a shell can see of it: it runs, has waiters,
and publishes or is cancelled when the last waiter detaches; a shell that detaches
while it publishes is not signalled. What happens inside is `Daemon`, and that a
shell joins the load of its directory or begins it in one step is `Rendezvous`.

### Nushell

Nushell has no traps, so its hook reads the env file before start (`seen`), runs
start (`printed` is the record on its standard output), reads the file again, and
applies all three in that order (`Merge`). `Start` is `nushell::run`: outside
(`StartOutside`) the way back goes into a file of its own, `own`; inside, the old
directory's daemon is forced to stop (`StopOld`), and direnv runs on the spot
without a multiplexer (`Capture`) or in a daemon that has nobody registered
(`Background`). Other shells of the session are reduced to what they do to the
loads: they start one, in which case its file is not JSON (`json`, `asJson`), wait,
and cancel it when the last of them leaves. A nushell that names such a file fails
in `from json` and does nothing (`Readable`).

## What the runs show

Passing runs:

- `DaemonSafety` (two shells, NOTIFY and STOP pid at any time, a multiplexer whose
  command is not waited for, no faults, 1.0 million
  states): `SignalAfterPublication`, `OncePerShell`, `OnlyOwnersCancel`,
  `CancelledLeavesNoTrace`, `LogComplete`, `CleanExit`, the action property
  `EmptyExportPreservesCache`, and `ImplementsService`, the refinement. Two shells
  are the least with which one can leave while another waits.
- `DaemonFaults` (one shell, two watches and what they send, all faults, every
  multiplexer, 1.2 million states): `NoTornCache`; `OwnPaneServed`, with two watches
  because one is opened by hand at any time and only the pane's own has a promise: it
  is told ERR only if the PTY master could not be duplicated; and `OnlyKnownWaits`: the
  main thread can always go on, except while it waits for direnv, herdr or Neovim.
- `DaemonLive` (two shells, herdr, fair): `StopEnds`, `Told`, `AbandonedEnds`,
  `QuietPaneOpens`. herdr, because it is the one that can hold up the copy loop.
- `LaunchRaces` (four overlapping starts, every fault, `process::exit` and death
  included): `LoadHappens`,
  `NoTempLeak`, `NoStaleSocket`. Four, because a start that loses a race can
  remove the path of the one that won it and let a third in, and a fourth then
  meets the result. The starts are interchangeable and the properties are
  invariants, so symmetry is sound.
- `LaunchSpaced` (three starts, no overlap, every fault, fair):
  `ImplementsRendezvous`, the refinement, `OnlyStaleRemoved`, `EveryStartServed`.
  Three generations are enough for a killed daemon, its successor and a shell that
  joins the successor.
- `Watch` (fair, two chunks of output, two resizes, faults): `OutputComplete`,
  `TerminalRestored`, `SizeTracked`, `WatchEnds`, `InterruptStops`.
- `Shell` (one shell in a multiplexer, two directories and outside, one `.envrc`
  that breaks and is repaired, fair; 492,000 states): `OwnPlaceOnly`,
  `Converges`. Two directories, because what goes wrong goes wrong on the way
  from one to another. With two shells in one directory that never breaks
  (`Shells <- Both`, `Dirs <- OneDir`, `Multiplexed <- Both`, `Fragile <- NoDir`)
  both hold as well.

- `Nvim` (one load, both reports, exit codes 0, 1, 130 and 143, clients that cannot
  be started, a Neovim that quits, fair; 119,000 states): `ClientsReaped`,
  `AcknowledgedEnd`, `ToldApart`, `ReportsEnd`. A load makes two reports, so nothing
  is cut off; the codes are success, a failure, and the two that a signal makes look
  like a cancellation.
- `Nushell` (one nushell inside or outside a multiplexer, two directories and
  outside, an `.envrc` that breaks and is repaired, a runtime directory that fails,
  with or without other shells that come from outside to the first directory, fair;
  1.5 million states): `SyncWhole`, `Converges`. The visitors' directory is the one
  whose `.envrc` breaks, so that every way in which a cached file can be out of date
  occurs there.

The buffer is one chunk: enough for direnv to block on a full terminal, for
output to be left when it ends, and for the log to be empty or not.

Runs that end in a counterexample, each against a sentence of the documentation
or a comment:

- `DaemonScopedStop`: "one shell exiting doesn't kill an evaluation other shells
  still wait on (issue #130)". Shell 1, the only one registered, writes STOP, and
  shell 2 writes NOTIFY, which the accepting listener takes. STOP is handled first,
  whichever was written first; the vector is empty, the load is cancelled, and shell
  2, which never asked to leave, waits for it.
- `WatchRaw`: "RAII guard that restores terminal settings on drop".
  `process::exit` in the second connection skips the drop.
- `ShellMixed`: the trap "loads the new environment". What it loads are changes
  to the environment of the `start` that forked the daemon. A shell that comes
  from one directory into another whose cache was computed outside gets the
  variables of both, and direnv, which only knows the last, never unloads the
  first. `Converges` is therefore about `loaded`: the right directory is loaded
  in the end, but it may not be alone.

More limits of the code appear as premises of checked properties:

- `QuietPaneOpens` is about a load that falls silent. The delay is only looked at
  when select times out, so that a direnv which prints at least every 100 ms never
  gets a pane, however long it takes, although the README of the program promises
  one after 4 seconds.
- `ImplementsRendezvous`, `OnlyStaleRemoved` and `EveryStartServed` need starts that
  do not overlap. Otherwise the "stale socket" that is removed may be bound and not
  listening yet, or belong to a daemon that came up since the failed connect; and a
  start that finds no socket at its first look and a daemon at its second, or loses
  `bind`, leaves its shell registered nowhere: nobody signals it when the load is
  done. `OneDaemon` proves that this (`NoBystander`) takes an overlap.
- `Told` is about shells whose NOTIFY is handled before the signals go out: a later
  one is accepted and dropped. It also needs every process on the terminal to be
  gone, not only direnv: a background process of an `.envrc` delays publication for
  as long as it lives.
- `OnlyKnownWaits` lists where the main thread waits for somebody and notices no stop:
  waitpid, after an error on the PTY, for a direnv that may be blocked on a terminal
  nobody reads; herdr, whose `output()` has no time limit, while it opens a pane; and
  Neovim, for up to 5 s.
- `SignalAfterPublication` needs renames that succeed. The code does not look: a file
  whose rename failed is announced, and removed by `Cleanup`. A write to the log that
  fails goes unnoticed as well: what is published of direnv's output is then less than
  was read.
- `OwnPaneServed` excepts a daemon that could not duplicate the PTY master: it goes on
  without one and opens a pane whose watch is refused.
- `SizeTracked` excepts a resize between the first propagation and the installation
  of the handler, and a size that could not be read.
- `Converges` of `Shell` is about a shell that is alone in its directory: if another
  one keeps starting the loads, they are computed for that one. Once it has the
  environment direnv prints nothing, nobody is signalled, and if a failed load has
  removed the cache meanwhile, a shell that always finds a load under way is never
  served (`Shells <- Both` with a `Fragile` directory and `StaysAlone` without its
  last conjunct shows it).
- `Converges` of `Nushell` needs a hook that keeps getting as far as start. The
  comment of `nushell.rs` says that direnv's export goes to the env file as JSON, "so
  the hook can parse it directly"; but the file belongs to the directory and the
  session, a daemon that a bash or zsh started writes shell code to it, and the hook
  of a nushell that names it fails at every prompt, until somebody replaces it.
- For the same reason `Converges` of `Nushell` needs a directory that no other
  nushell is in, or has in its hook's variables. A nushell that has left for a
  directory whose file it cannot read never applies what start told it, so that
  start takes it to be where it was: at every prompt it stops the load of the
  directory it has left, and one that stays there waits in vain (two nushells and
  `StaysAlone` without its last conjunct show it; the attempt to prove `Converges`
  for several nushells found it).
- `AcknowledgedEnd` is about reports that were acknowledged. A client that is killed
  at the deadline may have left its request with Neovim, which then evaluates it
  when the log has gone; and if the watch had not been acknowledged when the load
  ended, Neovim may hear of the end first.
- `CleanExit` needs forkpty and the log file to succeed: `process::exit` on those
  paths skips `Cleanup`, and the socket and the temporary files stay. `NoStaleSocket`
  and `NoTempLeak` except these daemons as they do the killed ones (`Dead`), and the
  next start meets a dead socket (`OnlyStaleRemoved`).

## Fairness

`FairSpec` of `Daemon` assumes weak fairness of the main thread (`MainGoesOn`: it
is owed a step, but no error on the PTY) and of each handler thread: the kernel
schedules them, and none waits for another except for the short time the vector is
locked. The copy loop needs no more: a step is always possible, because output,
silence and the end of the terminal are all answers to select. It also assumes that a
multiplexer's command returns (`CommandReturns`): Neovim's does within the 5 s that
the daemon gives it, herdr's is taken on trust, for the code sets it no limit. A herdr
that hangs keeps a daemon from its end, so that `StopEnds`, `AbandonedEnds`, `Told` and
`QuietPaneOpens` rest on it. Nothing is assumed
of direnv or of the clients: direnv may run for ever, print without pause or
never, which is why `Told` starts from `Finished`. The pane's delay is not fair
either. In `Launch` every process is scheduled and `Begin` and `Finish` are not
fair: nobody must open a shell, and a load may take for ever. In `Watch` the
process itself is scheduled, the daemon's acceptor is, and a daemon that has begun
to end does end; the user and the load are free. In `Shell` a hook that has begun
goes on, a pending signal is handled and a daemon reads its messages; prompts,
changes of directory, edits and the ends of loads are free, and `Converges` names
those it needs: the shell keeps prompting, the loads of its directory keep ending,
and no other shell starts or cancels them. In `Nvim` the daemon's threads run and
its clock passes the deadline; Neovim and the clients owe nothing. In `Nushell`
only a hook that has begun goes on: loads end when they like, and forced stops are
read or not.

## Proofs

All theorems hold for every value of the constants that satisfies their
assumptions: any set of shells, watch processes and starts, any buffer, any set
of faults and messages.

`DaemonProofs`. None of the safety properties is inductive by itself: that a
signal comes after the publication depends on the phase, that only owners cancel
depends on who could register. `IInv` adds what each phase knows:

- `OutcomeInv`: in which phases the outcome is decided, and what it says of
  direnv (waitpid is what connects `outcome` to a complete export);
- `ExportInv`: direnv does not end on a torn export unless it is killed;
- `PublishedInv`: what is in the published and temporary files at each phase;
- `AnnouncedInv`: where renames succeed, what is announced is in place;
- `SignalInv`: signals only from `notify` on, and every pid at most once in the
  vector;
- `OwnerInv`: as long as the load is not stopped, whoever registered is still in
  the vector or has asked to leave;
- `PaneInv`: before the copy loop can open a pane it is settled whether the handlers
  have the PTY.

Each part has a lemma that every step preserves it; frame lemmas (`MainFrame`,
`SharedFrame`, `ChildFrame`, `DirFrame`, `ClientFrame`, `HistoryFrame`) say once
which actions can change which variables. The theorems are type correctness, all
safety properties of `DaemonSafety` and `DaemonFaults` but `OnlyKnownWaits`,
and the action property `EmptyExportPreservesCache`. Three of the properties are false
where certain calls fail. `SignalsHold` (`SignalAfterPublication`) has the premise that
renames do not. The other two are proved for every load that such a call did not
cut short: `ReadingCompletes` (`LogComplete`, where the copy loop ended with the
terminal and not with an error on it) and `DecidedExitsClean` (`CleanExit`, for a
daemon that got as far as an outcome). `LogCompleteHolds` and `CleanExitHolds` follow
for those that cannot fail, because without a PTY fault no load leaves the loop early
(`NoErrorReadsOn`), and without one of forkpty or the log every end has an outcome
(`EndsDecided`).

`DaemonLiveProofs`. All of it rests on `CommandsReturn`: a command that is waited for
returns, by fairness. `StopEnds` counts down a distance from the phase to the end, and
`AbandonedEnds` follows with `AttendedInv`: a load that has had a shell and is not
stopped has one now. With an error on the PTY both are false, but only because the
direnv that waitpid waits for may never end: `StopEndsIfReaped` and
`AbandonedEndsIfReaped` prove them, whatever fails, of a daemon that is not left with
such a child (`Reaps`), and where the PTY does not fail it never is (`NeverStuck`).
`QuietPaneOpens` needs one round of the copy loop. `Told` follows a shell
through the phases: nobody but itself takes it out of the vector, and only a stop
cancels (`StageInv`). That the loop empties the terminal (`Drains`) is its hypothesis:
`DrainsByOne` proves that a round takes one chunk off it and that nobody puts one
back, but not the induction over what is left, which the provers cannot do in a
temporal formula. Written out for eight chunks it is `SmallBuffersDrain`, so that
`ToldForSmallBuffers` needs no such hypothesis where eight reads empty a full
terminal.

`LaunchProofs`. `NoTempLeak` and `NoStaleSocket` are inductive with the types and
hold however starts overlap. So does `LoadHappens`; it rests on `LoadInv`, that whoever
relies on a daemon, because it saw one or lost the path to one, relies on one that did
come up. `EveryStartServed` is a countdown over the calls of a start and its daemon.
`OneDaemon` and `StaleMeansStale` assume `~Overlap`
and rest on `ApartInv`: at most one start is busy, and once it has seen no daemon
there is none until its own listens. So does `RendezvousImplemented`, the refinement
of `Rendezvous`. It needs no other invariant: `AskStep`, `JoinStep`, `ServeStep`,
`FailStep` and `EndStep` are the calls that show, `HiddenStep` says that the others
change nothing the mapping sees, and `NobodyServes` that a start which has seen no
daemon, or removes its socket, is not about to become a second one.
`RendezvousAnswers` adds, with the fairness of `Launch`, that whoever asks is answered.

`ShellProofs`. `OwnPlaceOnly` depends on what is in the files: the invariant says
that what is published for a directory leads to it or outside, that a hook only
names the file of the place it last ran in (`Owned`), and that messages are only
in flight to a load (`InFlight`, for the types). `SyncWholeHolds` is the good half
of `ShellMixed`: a shell outside a multiplexer, whose hook runs direnv itself,
always has exactly what direnv knows of (`Synced`). `Converges` has two
proofs. Outside, or without a multiplexer, one run of the hook leads there and
nothing leads away. In a multiplexer, a shell that stays alone is, from its first
start on (`Mine`), in one of five stages: away with loads that other environments
asked for (`Away`), with a fresh hook (`Fresh`), with a load computed for it
(`Loading`), signalled (`Sent`), or with its environment and a cache that agrees
(`Settled`). `MineStages` shows that steps only lead on, and the fairness of the
hook and the handler, the prompts and the ends of loads that they do.

`ServiceProofs`. `Refinement` is `Spec => ImplementsService`: `Init` maps to the
initial states of `LoadService`, and each action of `Daemon` to one of its actions
or to a stutter. It rests on `IInv` (the vector holds every pid at most once, nobody
is signalled before `notify`) and on `ShowInv` for what the mapping hides: nothing is
there to show before the publication has begun, and nothing of this load is in the
cache before the second rename.

`WatchProofs`. `OutputComplete` rests on `EndInv`: an orderly end means that the
daemon was gone, so that nobody writes to the log any more. `TerminalRestored`
rests on `RawInv`: a raw terminal has a guard until the end. `SizeTracked` needs
`SizeInv`: whoever has the PTY has a handler by the time of the loop. `InterruptStops`
and `WatchEnds` count the steps that are left. `WatchEnds` has the hypothesis that
resizes come to an end (`Calm`), because each one can interrupt select before the
socket is looked at; in the run `MaxResizes` bounds them.

`NvimProofs`. The wait is a small automaton, and the invariant says what client,
reply and result are in each of its states: a result is `ok` only with the reply
`"1"`, and a client that is through was reaped. `AcknowledgedEnd` needs that a
reply is only given to a request in `heard`, that no request is evaluated twice,
that `finish` is not sent before the phase `wait`, and that the log does not move
before `publish`. `ReportsEnd` needs `WaitInv`: the thread only waits for a client that
was started, and without a time limit only for one that has ended.

`NushellProofs`. `SyncWhole` is about a nushell without a multiplexer that has its
directories to itself: no load is under way then, and every file is a change whose
source is the directory loaded when it was made. The invariant (`Synced`) says that
what the hook has read, and the file it knows, lead to the directory that is loaded,
so that applying them once more changes nothing (`Fits`), and that the file read
after start either does, too, or takes its way from there.

`Converges` needs, for any nushell, `Leading`: the file of a directory leads to it or
outside, a nushell's own file leads outside. One that stays outside reads its own file
once; one that stays in a directory goes through the stages of the hook until the file
it names was published for it (`Published`) and evaluated.

The liveness theorems and ENABLED. The prover has no rules for ENABLED. It does expand
weak fairness, so that a step that leads on, and the fact that it is enabled, give a
leads-to. Each liveness theorem has therefore one hypothesis that says what can be
executed, a state predicate that is read off the guards and does not mention the
property: `KnownWaits` for `Daemon`, which is `OnlyKnownWaits`, an invariant of the run
`DaemonFaults`, and that `CommandReturns` is enabled where it is awaited, which is its
guard; `NobodyBlocks` of `Launch`, `Shell` and `Nushell`; `NothingBlocks` of
`Nvim` and `Watch`. The last five hold in all states of the instances of
`LaunchSpaced`, `Shell`, `Nushell`, `Nvim` and `Watch`, as TLC confirms when it is given
them as invariants.

Only model-checked: `OnlyKnownWaits`, which is about ENABLED, and, for terminals
that hold more than eight reads, the induction that `Drains` stands for.

## Plan

Done: all modules above with their proofs. What is left, in this order:

1. `Session`: `Launch` composed with the clients of a directory over several
   generations of daemons, for a late interrupt of a watch that reaches a successor,
   and for two daemons publishing after a race.
2. The shared `env.stderr`: messages shown by one shell, by several or by none.

## Not modelled

Command lines of tmux, zellij, wezterm, kitty and herdr, the parsing of
herdr's JSON and of environment variables, quoting and escaping (`shell.rs`,
`json_escape`, `escape_lua_string`), argument parsing and the embedded hook
scripts: strings without state, and the modules abstract from the characters of
names and values. `env.stderr`: what is shown of it does not change what any shell
has loaded. The Nix modules and build files, tests and scripts: no run-time
behaviour of the program. Time is abstract: 100 ms, 4 s and 5 s are choices of
the model, never measured.
