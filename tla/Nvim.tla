-------------------------------- MODULE Nvim --------------------------------
(***************************************************************************)
(* What a daemon in a Neovim terminal tells Neovim (src/mux/nvim.rs): that *)
(* there is a load to watch, once it is slow, and how it finished, before  *)
(* anything is published.  Each report is an `nvim --remote-expr` process, *)
(* which the daemon polls until it ends or 5 s are over, for `watch` in a  *)
(* thread of its own, for `finish` in the main thread.                     *)
(*                                                                         *)
(* Neovim is external: it hears requests when it gets to them, in any      *)
(* order, and also those whose client was killed meanwhile; it may refuse  *)
(* them, fail, or end.                                                     *)
(***************************************************************************)
EXTENDS Naturals, Sequences, SequencesExt

CONSTANTS
  Codes,    \* the exit codes of direnv
  Faults    \* "spawn": no client can be started; "quit": Neovim ends

ASSUME CodesAssumption == Codes \subseteq Nat
ASSUME FaultsAssumption == Faults \subseteq {"spawn", "quit"}

Events == {"watch", "finish"}

VARIABLES
  main,     \* "loading", "report", "wait", "publish", "cleanup", "gone"
  outcome,  \* LoadOutcome: <<"exited", code>>, Cancelled, or None before
  spawned,  \* mux_spawned
  wait,     \* wait_for_reply: "none", "poll", "clock", "kill", "reap", "done"
  overdue,  \* has the deadline passed?
  client,   \* the client process: "none", "running", "exited", "reaped"
  reply,    \* what it got: "none", "1", "0" or "error"
  result,   \* io::Result of the report: "none", "ok", "err"
  nvim,     \* is Neovim there?
  inbox,    \* requests it has not looked at
  heard,    \* those it evaluated, in order
  followed, \* those for which it found the log at the path it was given
  log,      \* temp_stderr: "there", "renamed" or "removed"
  told,     \* status and code in the finish report
  known     \* history: was the watch acknowledged when the load ended?

threadVars == <<wait, overdue, client, reply, result>>
nvimVars == <<nvim, inbox, heard, followed>>
reportVars == <<log, told, known>>
vars == <<main, outcome, spawned, threadVars, nvimVars, reportVars>>

None == <<"none", 0>>
Cancelled == <<"cancelled", 0>>
Outcomes == {Cancelled} \cup {"exited"} \X Codes

\* Every variable has its type, no report is evaluated twice, and no watch is under
\* way that the daemon has not taken note of and would ask for again.
TypeOK ==
  /\ main \in {"loading", "report", "wait", "publish", "cleanup", "gone"}
  /\ outcome \in {None} \cup Outcomes /\ spawned \in BOOLEAN
  /\ wait \in [Events -> {"none", "poll", "clock", "kill", "reap", "done"}]
  /\ overdue \in [Events -> BOOLEAN]
  /\ client \in [Events -> {"none", "running", "exited", "reaped"}]
  /\ reply \in [Events -> {"none", "1", "0", "error"}]
  /\ result \in [Events -> {"none", "ok", "err"}]
  /\ nvim \in BOOLEAN /\ inbox \subseteq Events
  /\ heard \in Seq(Events) /\ IsInjective(heard) /\ followed \subseteq Events
  /\ log \in {"there", "renamed", "removed"} /\ known \in BOOLEAN
  /\ told \in {None} \cup {"success", "failed", "cancel"} \X Nat
  /\ client["watch"] # "none" => spawned

Init ==
  /\ main = "loading" /\ outcome = None /\ spawned = FALSE
  /\ wait = [e \in Events |-> "none"] /\ overdue = [e \in Events |-> FALSE]
  /\ client = [e \in Events |-> "none"] /\ reply = [e \in Events |-> "none"]
  /\ result = [e \in Events |-> "none"]
  /\ nvim = TRUE /\ inbox = {} /\ heard = <<>> /\ followed = {}
  /\ log = "there" /\ told = None /\ known = FALSE

-----------------------------------------------------------------------------
(* A report: spawn_request and wait_for_reply.                             *)

\* The client process, with Neovim's answer still to come.
SpawnRequest(e) ==
  /\ client' = [client EXCEPT ![e] = "running"]
  /\ wait' = [wait EXCEPT ![e] = "poll"]

\* Exit status 0 and "1": the expression is luaeval(...) ? 1 : 0.
Accepted(e) == reply[e] = "1"

\* Where the wait for an ended client leaves off; main goes on after finish.
Ends(e, w) ==
  /\ wait' = [wait EXCEPT ![e] = w]
  /\ main' = IF e = "finish" /\ w = "done" THEN "publish" ELSE main

\* try_wait, every 10 ms; an ended client is reaped by it.
TryWait(e) ==
  /\ wait[e] = "poll"
  /\ IF client[e] = "exited"
     THEN /\ client' = [client EXCEPT ![e] = "reaped"]
          /\ result' = [result EXCEPT ![e] = IF Accepted(e) THEN "ok" ELSE "err"]
          /\ Ends(e, IF Accepted(e) THEN "done" ELSE "kill")
     ELSE Ends(e, "clock") /\ UNCHANGED <<client, result>>
  /\ UNCHANGED <<outcome, spawned, overdue, reply, nvimVars, reportVars>>

\* Bug: the deadline is not looked at.
BugClock(e) ==
  /\ wait[e] = "clock"
  /\ wait' = [wait EXCEPT ![e] = "poll"]
  /\ UNCHANGED <<main, outcome, spawned, overdue, client, reply, result, nvimVars, reportVars>>

\* The deadline is looked at after the client: one that ends in between is late.
Clock(e) ==
  /\ wait[e] = "clock"
  /\ IF overdue[e]
     THEN /\ wait' = [wait EXCEPT ![e] = "kill"]
          /\ result' = [result EXCEPT ![e] = "err"]
     ELSE wait' = [wait EXCEPT ![e] = "poll"] /\ UNCHANGED result
  /\ UNCHANGED <<main, outcome, spawned, overdue, client, reply, nvimVars, reportVars>>

\* After any error; it does nothing to a client that was reaped.
Kill(e) ==
  /\ wait[e] = "kill"
  /\ client' = [client EXCEPT ![e] = IF @ = "running" THEN "exited" ELSE @]
  /\ wait' = [wait EXCEPT ![e] = "reap"]
  /\ UNCHANGED <<main, outcome, spawned, overdue, reply, result, nvimVars, reportVars>>

\* Bug: nobody waits for the client that was killed.
BugReap(e) ==
  /\ wait[e] = "reap" /\ Ends(e, "done")
  /\ UNCHANGED <<client, outcome, spawned, overdue, reply, result, nvimVars, reportVars>>

Reap(e) ==
  /\ wait[e] = "reap" /\ client[e] \in {"exited", "reaped"}
  /\ client' = [client EXCEPT ![e] = "reaped"]
  /\ Ends(e, "done")
  /\ UNCHANGED <<outcome, spawned, overdue, reply, result, nvimVars, reportVars>>

WaitForReply(e) == TryWait(e) \/ Clock(e) \/ Kill(e) \/ Reap(e)

\* 5 s after the request.
DeadlinePasses(e) ==
  /\ wait[e] \in {"poll", "clock"} /\ ~overdue[e]
  /\ overdue' = [overdue EXCEPT ![e] = TRUE]
  /\ UNCHANGED <<main, outcome, spawned, wait, client, reply, result, nvimVars, reportVars>>

-----------------------------------------------------------------------------
(* The daemon.                                                             *)

\* Bug: every silence asks Neovim anew.
BugWatch ==
  /\ main = "loading" /\ ~spawned
  /\ SpawnRequest("watch")
  /\ UNCHANGED <<main, outcome, spawned, overdue, reply, result, nvimVars, reportVars>>

\* The load is slow (copy_pty_to_logfile).  What becomes of the report is the
\* thread's business; that no client could be started is ignored.
Watch ==
  /\ main = "loading" /\ ~spawned
  /\ spawned' = TRUE
  /\ \/ SpawnRequest("watch")
     \/ "spawn" \in Faults /\ UNCHANGED <<client, wait>>
  /\ UNCHANGED <<main, outcome, overdue, reply, result, nvimVars, reportVars>>

LoadEnds ==
  /\ main = "loading"
  /\ main' = "report" /\ outcome' \in Outcomes
  /\ UNCHANGED <<spawned, threadVars, nvimVars, reportVars>>

\* Bug: every death by a signal is a cancellation.
BugStatus(o) ==
  IF o = Cancelled THEN <<"cancel", 143>>
  ELSE IF o[2] = 0 THEN <<"success", 0>>
  ELSE IF o[2] \in {130, 143} THEN <<"cancel", o[2]>>
  ELSE <<"failed", o[2]>>

\* expression: an interrupted direnv counts as cancelled, too.
Status(o) ==
  IF o = Cancelled THEN <<"cancel", 143>>
  ELSE IF o[2] = 0 THEN <<"success", 0>>
  ELSE IF o[2] = 130 THEN <<"cancel", 130>>
  ELSE <<"failed", o[2]>>

\* Bug: the log is renamed before Neovim is told.
BugFinish ==
  /\ main = "report"
  /\ SpawnRequest("finish") /\ main' = "wait"
  /\ log' = IF outcome = Cancelled THEN log ELSE "renamed"
  /\ known' = (result["watch"] = "ok") /\ told' = Status(outcome)
  /\ UNCHANGED <<outcome, spawned, overdue, reply, result, nvimVars>>

\* Whether or not Neovim ever heard of the load.
Finish ==
  /\ main = "report"
  /\ \/ SpawnRequest("finish") /\ main' = "wait"
     \/ "spawn" \in Faults /\ main' = "publish" /\ UNCHANGED <<client, wait>>
  /\ known' = (result["watch"] = "ok") /\ told' = Status(outcome)
  /\ UNCHANGED <<outcome, spawned, overdue, reply, result, nvimVars, log>>

\* The log is renamed if there is anything in it; never for a cancelled load.
Publish ==
  /\ main = "publish"
  /\ main' = "cleanup"
  /\ log' \in IF outcome = Cancelled THEN {log} ELSE {log, "renamed"}
  /\ UNCHANGED <<outcome, spawned, threadVars, nvimVars, told, known>>

\* The process ends, and the watch thread with it wherever it is.
CleanUp ==
  /\ main = "cleanup"
  /\ main' = "gone"
  /\ log' = IF log = "there" THEN "removed" ELSE log
  /\ wait' = [wait EXCEPT !["watch"] = "done"]
  /\ UNCHANGED <<outcome, spawned, overdue, client, reply, result, nvimVars, told, known>>

-----------------------------------------------------------------------------
(* The clients and Neovim.                                                 *)

\* A client hands its request over, once.
Send(e) ==
  /\ client[e] = "running" /\ nvim /\ e \notin inbox \cup ToSet(heard)
  /\ inbox' = inbox \cup {e}
  /\ UNCHANGED <<main, outcome, spawned, threadVars, nvim, heard, followed, reportVars>>

\* mux.direnv.watch or finish_watch, with an answer for the client, if it lives.
Evaluate(e) ==
  /\ nvim /\ e \in inbox
  /\ inbox' = inbox \ {e}
  /\ heard' = Append(heard, e)
  /\ followed' = IF log = "there" THEN followed \cup {e} ELSE followed
  /\ \E answer \in {"1", "0", "error"} :
       reply' = IF client[e] = "running" THEN [reply EXCEPT ![e] = answer] ELSE reply
  /\ UNCHANGED <<main, outcome, spawned, wait, overdue, client, result, nvim, reportVars>>

\* A client ends when it has its answer, or finds no Neovim.
ClientEnds(e) ==
  /\ client[e] = "running" /\ (reply[e] # "none" \/ ~nvim)
  /\ client' = [client EXCEPT ![e] = "exited"]
  /\ reply' = IF reply[e] = "none" THEN [reply EXCEPT ![e] = "error"] ELSE reply
  /\ UNCHANGED <<main, outcome, spawned, wait, overdue, result, nvimVars, reportVars>>

Quit ==
  /\ "quit" \in Faults /\ nvim
  /\ nvim' = FALSE /\ inbox' = {}
  /\ UNCHANGED <<main, outcome, spawned, threadVars, heard, followed, reportVars>>

Stopped == main = "gone" /\ UNCHANGED vars

Daemon == Watch \/ LoadEnds \/ Finish \/ Publish \/ CleanUp

Next ==
  \/ Daemon \/ Quit \/ Stopped
  \/ \E e \in Events : WaitForReply(e) \/ DeadlinePasses(e) \/ Send(e) \/ Evaluate(e) \/ ClientEnds(e)

Spec == Init /\ [][Next]_vars

\* The daemon's threads run and time passes.  Neovim and the clients owe nothing.
MainFairness == WF_vars(Finish \/ Publish \/ CleanUp)
ReportFairness(e) == WF_vars(WaitForReply(e)) /\ WF_vars(DeadlinePasses(e))
FairSpec == Spec /\ MainFairness /\ \A e \in Events : ReportFairness(e)

-----------------------------------------------------------------------------
(* Properties.                                                             *)

\* Before anything is published the client that reports the end is gone and
\* reaped: answered, refused, failed or killed; and a watch thread that is through
\* leaves no zombie in a daemon that may run for hours.
ClientsReaped ==
  /\ main \in {"publish", "cleanup", "gone"} => client["finish"] \in {"none", "reaped"}
  /\ main # "gone" /\ wait["watch"] = "done" => client["watch"] = "reaped"

\* An acknowledged end is one that Neovim evaluated while the log was still where
\* the report says it is; and a view it had acknowledged by then was opened
\* before it was closed.
AcknowledgedEnd ==
  result["finish"] = "ok" =>
    /\ "finish" \in followed
    /\ known => heard = <<"watch", "finish">>

\* Neovim can tell from status and code whether anything gets published, although
\* direnv may be killed by SIGTERM or interrupted itself: only a cancelled load is
\* <<"cancel", 143>>, and its log is never renamed.
ToldApart ==
  told # None =>
    /\ told = <<"cancel", 143>> <=> outcome = Cancelled
    /\ told = <<"cancel", 143>> => log # "renamed"

\* A Neovim that is busy, hangs or has gone delays the publication by 5 s, not
\* for ever, and a client that gets no answer is not left running.
ReportsEnd ==
  /\ main = "report" ~> main = "gone"
  /\ \A e \in Events : client[e] = "running" ~> client[e] = "reaped" \/ main = "gone"
=============================================================================
