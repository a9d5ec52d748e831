------------------------------- MODULE Launch -------------------------------
(***************************************************************************)
(* How the starts of one directory meet at its daemon.sock: each prompt    *)
(* runs `direnv-instant start`, which joins the daemon behind the socket,  *)
(* or, finding none, forks one of its own.  Several shells of a session    *)
(* share the path, nothing locks it, and a check of the path and the act   *)
(* it allows are separate system calls, so starts, daemons coming up and   *)
(* daemons going down interleave here call by call.                        *)
(*                                                                         *)
(* A start and the daemon it may fork have the same name.  What a daemon   *)
(* does while it serves is module Daemon.                                  *)
(***************************************************************************)
CONSTANTS
  Starters,  \* the starts, each by a shell of its own
  NoSocket,  \* daemon.sock does not exist
  Overlap,   \* may a start begin while another one, or its daemon, is busy?
  Faults     \* what may fail: the runtime directory, fork, mkstemp, what makes a
             \* serving daemon leave by process::exit (forkpty, its log), and the
             \* daemon itself, which may be killed at any time

ASSUME NoSocketAssumption == NoSocket \notin Starters
ASSUME OverlapAssumption == Overlap \in BOOLEAN
ASSUME FaultsAssumption == Faults \subseteq {"dir", "fork", "mkstemp", "exit", "kill"}

VARIABLES
  sock,    \* whose socket daemon.sock names
  start,   \* where each start is
  daemon,  \* where the daemon it forked is
  temps    \* do its temporary files exist?

vars == <<sock, start, daemon, temps>>

\* A start is over when it ran direnv itself, told a daemon, found one running,
\* failed, or forked.
StartOver == {"sync", "notified", "running", "failed", "forked"}
StartPhases ==
  {"idle", "exists", "notify", "recheck", "connect", "remove", "fork"} \cup StartOver

\* A bound socket refuses connections until it listens; one that listens does
\* so until its process ends.  Two ends run no destructor.
ComingUp == {"mkstemp", "bind", "listen"}
Listening == {"serving", "cleanup"}
Dead == {"aborted", "killed"}
DaemonPhases ==
  {"none", "losing", "lost", "exited", "failed"} \cup ComingUp \cup Listening \cup Dead

TypeOK ==
  /\ sock \in Starters \cup {NoSocket}
  /\ start \in [Starters -> StartPhases]
  /\ daemon \in [Starters -> DaemonPhases]
  /\ temps \in [Starters -> BOOLEAN]
  /\ \A s \in Starters : daemon[s] = "none" <=> start[s] # "forked"

Init ==
  /\ sock = NoSocket
  /\ start = [s \in Starters |-> "idle"]
  /\ daemon = [s \in Starters |-> "none"]
  /\ temps = [s \in Starters |-> FALSE]

-----------------------------------------------------------------------------
(* start (commands/start.rs, start_daemon).                                *)

Goto(s, phase) == start' = [start EXCEPT ![s] = phase]

\* Bug: start looks for the daemon at a path no daemon binds.
BugAccepts == FALSE

\* connect(2): somebody listens behind the path.
Accepts == sock \in Starters /\ daemon[sock] \in Listening

Busy(s) == start[s] \notin StartOver \cup {"idle"} \/ daemon[s] \in ComingUp

\* Bug (no_temp_leak_when_daemon_running): the temporary files come with the
\* context, before anybody looks for a daemon.
BugBegin(s) ==
  /\ start[s] = "idle" /\ (Overlap \/ \A t \in Starters : ~Busy(t))
  /\ Goto(s, "exists") /\ temps' = [temps EXCEPT ![s] = TRUE]
  /\ UNCHANGED <<sock, daemon>>

\* DaemonContext::new; if the runtime directory cannot be made, direnv is run
\* in the foreground.
Begin(s) ==
  /\ start[s] = "idle" /\ (Overlap \/ \A t \in Starters : ~Busy(t))
  /\ Goto(s, "exists") \/ ("dir" \in Faults /\ Goto(s, "sync"))
  /\ UNCHANGED <<sock, daemon, temps>>

\* socket_path.exists()
Exists(s) ==
  /\ start[s] = "exists"
  /\ Goto(s, IF sock = NoSocket THEN "recheck" ELSE "notify")
  /\ UNCHANGED <<sock, daemon, temps>>

\* Bug: what notify_daemon returns is not looked at.
BugNotify(s) ==
  /\ start[s] = "notify"
  /\ Goto(s, "notified")
  /\ UNCHANGED <<sock, daemon, temps>>

\* notify_daemon
Notify(s) ==
  /\ start[s] = "notify"
  /\ Goto(s, IF Accepts THEN "notified" ELSE "recheck")
  /\ UNCHANGED <<sock, daemon, temps>>

\* start_daemon looks again.
Recheck(s) ==
  /\ start[s] = "recheck"
  /\ Goto(s, IF sock = NoSocket THEN "fork" ELSE "connect")
  /\ UNCHANGED <<sock, daemon, temps>>

\* Bug: a socket that does not answer is left in place.
BugConnect(s) ==
  /\ start[s] = "connect"
  /\ Goto(s, IF Accepts THEN "running" ELSE "fork")
  /\ UNCHANGED <<sock, daemon, temps>>

\* Already running: it is not told of this shell.
Connect(s) ==
  /\ start[s] = "connect"
  /\ Goto(s, IF Accepts THEN "running" ELSE "remove")
  /\ UNCHANGED <<sock, daemon, temps>>

\* Whatever the path names by now.
RemoveStale(s) ==
  /\ start[s] = "remove"
  /\ sock' = NoSocket /\ Goto(s, "fork")
  /\ UNCHANGED <<daemon, temps>>

\* Bug: the parent side of the fork does not return.
BugFork(s) ==
  /\ start[s] = "fork"
  /\ daemon' = [daemon EXCEPT ![s] = "mkstemp"]
  /\ UNCHANGED <<sock, start, temps>>

\* The double fork; the start does not wait for the daemon, nor does it learn
\* that the second fork failed.
Fork(s) ==
  /\ start[s] = "fork"
  /\ \/ Goto(s, "forked") /\ daemon' = [daemon EXCEPT ![s] = "mkstemp"]
     \/ "fork" \in Faults /\ Goto(s, "failed") /\ UNCHANGED daemon
     \/ "fork" \in Faults /\ Goto(s, "forked") /\ daemon' = [daemon EXCEPT ![s] = "failed"]
  /\ UNCHANGED <<sock, temps>>

Starting(s) ==
  \/ Exists(s) \/ Notify(s) \/ Recheck(s) \/ Connect(s) \/ RemoveStale(s) \/ Fork(s)

-----------------------------------------------------------------------------
(* The daemon (run_direnv).                                                *)

\* process::exit if it fails, and then the first file may stay.
CreateTempFiles(d) ==
  /\ daemon[d] = "mkstemp"
  /\ \/ daemon' = [daemon EXCEPT ![d] = "bind"] /\ temps' = [temps EXCEPT ![d] = TRUE]
     \/ /\ "mkstemp" \in Faults
        /\ daemon' = [daemon EXCEPT ![d] = "failed"]
        /\ temps' \in {temps, [temps EXCEPT ![d] = TRUE]}
  /\ UNCHANGED <<sock, start>>

\* UnixListener::bind: bind(2) fails if the path exists, and the daemon panics.
Bind(d) ==
  /\ daemon[d] = "bind"
  /\ IF sock = NoSocket
     THEN sock' = d /\ daemon' = [daemon EXCEPT ![d] = "listen"]
     ELSE daemon' = [daemon EXCEPT ![d] = "losing"] /\ UNCHANGED sock
  /\ UNCHANGED <<start, temps>>

\* Bug: a daemon that finds its path gone gives up.
BugListen(d) ==
  /\ daemon[d] = "listen"
  /\ daemon' = [daemon EXCEPT ![d] = IF sock = d THEN "serving" ELSE "losing"]
  /\ UNCHANGED <<sock, start, temps>>

\* listen(2); the first connection may be accepted from here on.
Listen(d) ==
  /\ daemon[d] = "listen"
  /\ daemon' = [daemon EXCEPT ![d] = "serving"]
  /\ UNCHANGED <<sock, start, temps>>

\* The load is over, published or cancelled.
Finish(d) ==
  /\ daemon[d] = "serving"
  /\ daemon' = [daemon EXCEPT ![d] = "cleanup"]
  /\ UNCHANGED <<sock, start, temps>>

\* process::exit if there is no terminal or no log to be had: what the daemon
\* made stays, and everybody it has accepted is forgotten.
Abort(d) ==
  /\ "exit" \in Faults /\ daemon[d] = "serving"
  /\ daemon' = [daemon EXCEPT ![d] = "aborted"]
  /\ UNCHANGED <<sock, start, temps>>

\* Bug: only the temporary files are removed.
BugRemoves(d) == temps' = [temps EXCEPT ![d] = FALSE] /\ UNCHANGED sock

\* Drop of Cleanup: the path goes too, whatever it names by now.
Removes(d) == temps' = [temps EXCEPT ![d] = FALSE] /\ sock' = NoSocket

\* After the load, or as the panic of a failed bind unwinds.
CleanUp(d) ==
  /\ daemon[d] \in {"cleanup", "losing"}
  /\ Removes(d)
  /\ daemon' = [daemon EXCEPT ![d] = IF @ = "cleanup" THEN "exited" ELSE "lost"]
  /\ UNCHANGED start

\* SIGKILL, a crash of the machine: everything stays as it is.
Killed(d) ==
  /\ "kill" \in Faults /\ daemon[d] \in ComingUp \cup Listening \cup {"losing"}
  /\ daemon' = [daemon EXCEPT ![d] = "killed"]
  /\ UNCHANGED <<sock, start, temps>>

Running(d) ==
  CreateTempFiles(d) \/ Bind(d) \/ Listen(d) \/ CleanUp(d)

\* Every start is over and every daemon is gone.
Quiet ==
  \A s \in Starters : /\ start[s] \in StartOver
                      /\ daemon[s] \in {"none", "lost", "exited", "failed"} \cup Dead
Over == Quiet /\ UNCHANGED vars

Next ==
  \/ \E s \in Starters :
       Begin(s) \/ Starting(s) \/ Running(s) \/ Finish(s) \/ Abort(s) \/ Killed(s)
  \/ Over

Spec == Init /\ [][Next]_vars

\* The kernel schedules every process; nobody has to start anything, and a load
\* may take for ever.
Fairness(s) == WF_vars(Starting(s)) /\ WF_vars(Running(s))
FairSpec == Spec /\ \A s \in Starters : Fairness(s)

-----------------------------------------------------------------------------
(* What holds however starts overlap.                                      *)

\* A start or a daemon that is over leaves no temporary file, unless it was
\* killed or failed half way: a start that joins a daemon creates none, one that
\* loses the race for the socket removes its own.
NoTempLeak ==
  \A s \in Starters :
    temps[s] => daemon[s] \in ComingUp \cup Listening \cup Dead \cup {"losing", "failed"}

\* The path outlives the daemon it names only if that one was killed or left by
\* process::exit: it is gone with a daemon whose load ended, and one that lost the
\* race for it, or failed before it, never has it.
NoStaleSocket ==
  sock \in Starters => daemon[sock] \in {"listen"} \cup Listening \cup Dead

\* The load does happen: when the starts are over and no daemon is coming up
\* any more, some daemon has served, unless something failed or was killed.
LoadHappens ==
  /\ \E s \in Starters : start[s] # "idle"
  /\ \A s \in Starters :
       /\ start[s] \in {"idle", "notified", "running", "forked"}
       /\ daemon[s] \notin ComingUp \cup Dead \cup {"losing", "failed"}
  => \E d \in Starters : daemon[d] \in Listening \cup {"exited"}

-----------------------------------------------------------------------------
(* What holds only if starts do not overlap.                               *)

\* A daemon that serves is the one that is found at the path, so that there are
\* never two for one directory, whose publications would race.
ServesAtPath == \A d \in Starters : daemon[d] \in Listening => sock = d

\* Every start registers its shell with the running daemon or runs the load
\* itself: it does not just find one running, nor lose the race to one.
NoBystander == \A s \in Starters : start[s] # "running" /\ daemon[s] # "lost"

\* All these calls then amount to one: look at who serves, and join it or serve
\* (module Rendezvous).
Meeting == INSTANCE Rendezvous WITH
  Faulty  <- Faults # {},
  asking  <- {t \in Starters : Busy(t)},
  joined  <- {t \in Starters : start[t] = "notified"},
  serving <- {d \in Starters : daemon[d] \in Listening}

\* However its calls fall between those of a daemon that comes up, ends or is killed,
\* no start finds a daemon without joining it, becomes a second one, or takes itself
\* for served by a dead one.
ImplementsRendezvous == Meeting!Spec

\* daemon.rs calls the socket start_daemon removes "stale": nobody is behind it.
OnlyStaleRemoved ==
  [][\A s \in Starters : RemoveStale(s) => sock = NoSocket \/ daemon[sock] \in Dead]_vars

\* A start gets its shell served whatever an earlier daemon left behind: it
\* joins a daemon, or its own comes up, short of a failure of its own.
EveryStartServed ==
  \A s \in Starters :
    start[s] = "exists" ~>
      start[s] \in {"notified", "failed"}
      \/ daemon[s] \in Listening \cup Dead \cup {"exited", "failed"}
=============================================================================
