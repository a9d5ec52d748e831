----------------------------- MODULE NvimProofs -----------------------------
(***************************************************************************)
(* Theorems about module Nvim, for any exit codes of direnv and any of the *)
(* faults: what a wait for a client may conclude, and that each wait ends. *)
(***************************************************************************)
EXTENDS Nvim, SequenceTheorems, TLAPS

(***************************************************************************)
(* The state, in parts: the reports, the daemon, Neovim.  Two requests can *)
(* be heard in few orders.                                                 *)
(***************************************************************************)
Hearings ==
  {<<>>, <<"watch">>, <<"finish">>, <<"watch", "finish">>, <<"finish", "watch">>}

ThreadTyped ==
  /\ wait \in [Events -> {"none", "poll", "clock", "kill", "reap", "done"}]
  /\ overdue \in [Events -> BOOLEAN]
  /\ client \in [Events -> {"none", "running", "exited", "reaped"}]
  /\ reply \in [Events -> {"none", "1", "0", "error"}]
  /\ result \in [Events -> {"none", "ok", "err"}]

MainTyped ==
  /\ main \in {"loading", "report", "wait", "publish", "cleanup", "gone"}
  /\ outcome \in {None} \cup Outcomes /\ spawned \in BOOLEAN
  /\ outcome = None <=> main = "loading"

NvimTyped ==
  /\ nvim \in BOOLEAN /\ inbox \subseteq Events /\ followed \subseteq Events
  /\ heard \in Hearings /\ \A e \in inbox : e \notin ToSet(heard)

(***************************************************************************)
(* The client that reports the end lives no longer than main waits for it, *)
(* the one of the watch no longer than its thread does, if that comes to   *)
(* its end.                                                                *)
(***************************************************************************)
FinishThread ==
  /\ main \in {"loading", "report"} => wait["finish"] = "none"
  /\ main = "wait" => wait["finish"] \in {"poll", "clock", "kill", "reap"}
  /\ main \in {"publish", "cleanup", "gone"} => wait["finish"] \in {"none", "done"}

ClientInv ==
  \A e \in Events :
    /\ wait[e] = "none" => client[e] = "none"
    /\ wait[e] = "done" /\ (e = "watch" => main # "gone") => client[e] = "reaped"

(***************************************************************************)
(* What was acknowledged was heard, and the log stays until the report of  *)
(* the end is through.                                                     *)
(***************************************************************************)
LogInv ==
  /\ main \in {"loading", "report", "wait"} => log = "there"
  /\ log \in {"there", "renamed", "removed"}
  /\ outcome = Cancelled => log # "renamed"

HeardInv ==
  /\ \A e \in Events :
       /\ result[e] = "ok" => reply[e] = "1"
       /\ reply[e] = "1" => e \in ToSet(heard)
       /\ client[e] = "none" => e \notin inbox /\ e \notin ToSet(heard)
  /\ reply["finish"] = "1" => "finish" \in followed

KnownInv ==
  /\ known \in BOOLEAN
  /\ known => heard \in {<<"watch">>, <<"watch", "finish">>}

ToldInv ==
  /\ told \in {None} \cup {"success", "failed", "cancel"} \X Nat
  /\ told # None => main # "loading" /\ (told = <<"cancel", 143>> <=> outcome = Cancelled)

Inv ==
  /\ ThreadTyped /\ MainTyped /\ NvimTyped /\ FinishThread /\ ClientInv
  /\ LogInv /\ HeardInv /\ KnownInv /\ ToldInv

USE CodesAssumption, FaultsAssumption DEF Events

-----------------------------------------------------------------------------
(* Data.                                                                   *)

LEMMA AppendToOne == ASSUME NEW a, NEW b PROVE Append(<<a>>, b) = <<a, b>>
<1>1. /\ <<a>> \in Seq({a, b}) /\ Len(<<a>>) = 1
      /\ <<a, b>> \in Seq({a, b}) /\ Len(<<a, b>>) = 2
  OBVIOUS
<1>2. Append(<<a>>, b) \in Seq({a, b}) /\ Len(Append(<<a>>, b)) = 2
  BY <1>1, AppendProperties
<1>3. Append(<<a>>, b)[1] = a /\ Append(<<a>>, b)[2] = b
  BY <1>1, AppendProperties
<1>4. \A i \in 1..2 : Append(<<a>>, b)[i] = <<a, b>>[i]
  BY <1>3
<1>5. QED BY <1>1, <1>2, <1>4, SeqEqual

LEMMA ToSetOfHearings ==
  /\ ToSet(<<>>) = {} /\ ToSet(<<"watch">>) = {"watch"} /\ ToSet(<<"finish">>) = {"finish"}
  /\ ToSet(<<"watch", "finish">>) = Events /\ ToSet(<<"finish", "watch">>) = Events
BY DEF ToSet

\* What is heard after one more request.
LEMMA HearOneMore ==
  ASSUME NEW h \in Hearings, NEW e \in Events, e \notin ToSet(h)
  PROVE  /\ Append(h, e) \in Hearings /\ ToSet(Append(h, e)) = ToSet(h) \cup {e}
         /\ h = <<"watch">> => Append(h, e) = <<"watch", "finish">>
<1>1. CASE h = <<>>
  <2>1. Append(h, e) = <<e>>
    BY <1>1
  <2>2. QED BY <1>1, <2>1, ToSetOfHearings DEF Hearings
<1>2. CASE h = <<"watch">>
  <2>0. ToSet(h) = {"watch"}
    BY <1>2, ToSetOfHearings
  <2>1. e = "finish"
    BY <2>0
  <2>2. Append(h, e) = <<"watch", "finish">>
    BY <1>2, <2>1, AppendToOne
  <2>3. ToSet(Append(h, e)) = Events /\ Events = {"watch"} \cup {e}
    BY <2>1, <2>2, ToSetOfHearings
  <2>4. QED BY <2>0, <2>2, <2>3 DEF Hearings
<1>3. CASE h = <<"finish">>
  <2>0. ToSet(h) = {"finish"}
    BY <1>3, ToSetOfHearings
  <2>1. e = "watch"
    BY <2>0
  <2>2. Append(h, e) = <<"finish", "watch">>
    BY <1>3, <2>1, AppendToOne
  <2>3. ToSet(Append(h, e)) = Events /\ Events = {"finish"} \cup {e}
    BY <2>1, <2>2, ToSetOfHearings
  <2>4. h # <<"watch">>
    BY <1>3
  <2>5. QED BY <2>0, <2>2, <2>3, <2>4 DEF Hearings
<1>4. CASE h \in {<<"watch", "finish">>, <<"finish", "watch">>}
  BY <1>4, ToSetOfHearings
<1>5. QED BY <1>1, <1>2, <1>3, <1>4 DEF Hearings

\* Only a cancelled load is <<"cancel", 143>>.
LEMMA StatusTellsApart ==
  ASSUME NEW o \in Outcomes
  PROVE  /\ Status(o) \in {"success", "failed", "cancel"} \X Nat
         /\ Status(o) = <<"cancel", 143>> <=> o = Cancelled
<1>1. CASE o = Cancelled
  BY <1>1 DEF Status
<1>2. ASSUME o # Cancelled PROVE o[2] \in Nat
  BY <1>2 DEF Outcomes
<1>3. CASE o # Cancelled
  BY <1>2, <1>3 DEF Status
<1>4. QED BY <1>1, <1>3

LEMMA NoneApart == None \notin Outcomes /\ None \notin {"success", "failed", "cancel"} \X Nat
BY DEF None, Outcomes, Cancelled

-----------------------------------------------------------------------------
(* The wait for a client.                                                  *)

LEMMA TryWaitKeeps == ASSUME Inv, NEW e \in Events, TryWait(e) PROVE Inv'
<1> USE DEF Inv
<1>1. CASE client[e] = "exited"
  <2>1. /\ wait[e] = "poll"
        /\ client' = [client EXCEPT ![e] = "reaped"]
        /\ result' = [result EXCEPT ![e] = IF Accepted(e) THEN "ok" ELSE "err"]
        /\ wait' = [wait EXCEPT ![e] = IF Accepted(e) THEN "done" ELSE "kill"]
        /\ main' = IF e = "finish" /\ Accepted(e) THEN "publish" ELSE main
        /\ UNCHANGED <<outcome, spawned, overdue, reply, nvimVars, reportVars>>
    BY <1>1 DEF TryWait, Ends
  <2>2. ThreadTyped'
    BY <2>1 DEF ThreadTyped
  <2>3. MainTyped' /\ NvimTyped' /\ LogInv' /\ KnownInv' /\ ToldInv'
    BY <2>1 DEF FinishThread, MainTyped, NvimTyped, LogInv, KnownInv, ToldInv, nvimVars, reportVars
  <2>4. FinishThread'
    BY <2>1 DEF FinishThread, ThreadTyped
  <2>5. e = "finish" => main = "wait"
    BY <2>1 DEF FinishThread, MainTyped
  <2>6. ClientInv'
    BY <2>1, <2>5 DEF ClientInv, ThreadTyped
  <2>7. HeardInv'
    BY <2>1 DEF HeardInv, ThreadTyped, Accepted, nvimVars
  <2>8. QED BY <2>2, <2>3, <2>4, <2>6, <2>7
<1>2. CASE client[e] # "exited"
  <2>1. /\ wait[e] = "poll" /\ wait' = [wait EXCEPT ![e] = "clock"]
        /\ UNCHANGED <<main, client, result, outcome, spawned, overdue, reply, nvimVars, reportVars>>
    BY <1>2 DEF TryWait, Ends
  <2>2. QED BY <2>1 DEF ThreadTyped, MainTyped, NvimTyped, FinishThread, ClientInv, LogInv,
              HeardInv, KnownInv, ToldInv, nvimVars, reportVars
<1>3. QED BY <1>1, <1>2

LEMMA ClockKeeps == ASSUME Inv, NEW e \in Events, Clock(e) PROVE Inv'
<1> USE DEF Inv
<1>1. /\ wait[e] = "clock"
      /\ \/ wait' = [wait EXCEPT ![e] = "kill"] /\ result' = [result EXCEPT ![e] = "err"]
         \/ wait' = [wait EXCEPT ![e] = "poll"] /\ result' = result
      /\ UNCHANGED <<main, outcome, spawned, overdue, client, reply, nvimVars, reportVars>>
  BY DEF Clock
<1>2. ThreadTyped' /\ FinishThread' /\ ClientInv' /\ HeardInv'
  BY <1>1 DEF ThreadTyped, FinishThread, ClientInv, HeardInv, nvimVars
<1>3. MainTyped' /\ NvimTyped' /\ LogInv' /\ KnownInv' /\ ToldInv'
  BY <1>1 DEF MainTyped, NvimTyped, LogInv, KnownInv, ToldInv, nvimVars, reportVars
<1>4. QED BY <1>2, <1>3

LEMMA KillKeeps == ASSUME Inv, NEW e \in Events, Kill(e) PROVE Inv'
<1> USE DEF Inv, Kill
<1>1. ThreadTyped' /\ FinishThread' /\ ClientInv' /\ HeardInv'
  BY DEF ThreadTyped, FinishThread, ClientInv, HeardInv, nvimVars
<1>2. MainTyped' /\ NvimTyped' /\ LogInv' /\ KnownInv' /\ ToldInv'
  BY DEF MainTyped, NvimTyped, LogInv, KnownInv, ToldInv, nvimVars, reportVars
<1>3. QED BY <1>1, <1>2

LEMMA ReapKeeps == ASSUME Inv, NEW e \in Events, Reap(e) PROVE Inv'
<1> USE DEF Inv
<1>1. /\ wait[e] = "reap" /\ client' = [client EXCEPT ![e] = "reaped"]
      /\ wait' = [wait EXCEPT ![e] = "done"]
      /\ main' = IF e = "finish" THEN "publish" ELSE main
      /\ UNCHANGED <<outcome, spawned, overdue, reply, result, nvimVars, reportVars>>
  BY DEF Reap, Ends
<1>2. ThreadTyped' /\ FinishThread'
  BY <1>1 DEF ThreadTyped, FinishThread
<1>3. e = "finish" => main = "wait"
  BY <1>1 DEF FinishThread, MainTyped
<1>4. ClientInv' /\ HeardInv'
  BY <1>1, <1>3 DEF ThreadTyped, ClientInv, HeardInv, nvimVars
<1>5. MainTyped' /\ NvimTyped' /\ LogInv' /\ KnownInv' /\ ToldInv'
  BY <1>1 DEF FinishThread, MainTyped, NvimTyped, LogInv, KnownInv, ToldInv, nvimVars, reportVars
<1>6. QED BY <1>2, <1>4, <1>5

-----------------------------------------------------------------------------
(* The daemon.                                                             *)

LEMMA WatchKeeps == ASSUME Inv, Watch PROVE Inv'
<1> USE DEF Inv, Watch, SpawnRequest
<1>1. ThreadTyped' /\ FinishThread' /\ ClientInv' /\ HeardInv'
  BY DEF ThreadTyped, FinishThread, ClientInv, HeardInv, nvimVars
<1>2. MainTyped' /\ NvimTyped' /\ LogInv' /\ KnownInv' /\ ToldInv'
  BY DEF MainTyped, NvimTyped, LogInv, KnownInv, ToldInv, nvimVars, reportVars
<1>3. QED BY <1>1, <1>2

LEMMA LoadEndsKeeps == ASSUME Inv, LoadEnds PROVE Inv'
<1> USE DEF Inv, LoadEnds
<1>1. MainTyped' /\ FinishThread' /\ ThreadTyped' /\ ClientInv'
  BY NoneApart DEF MainTyped, FinishThread, ThreadTyped, ClientInv, threadVars
<1>2. LogInv' /\ KnownInv' /\ ToldInv'
  BY DEF LogInv, KnownInv, ToldInv, MainTyped, nvimVars, reportVars
<1>3. HeardInv' /\ NvimTyped'
  BY DEF HeardInv, NvimTyped, threadVars, nvimVars
<1>4. QED BY <1>1, <1>2, <1>3

LEMMA FinishKeeps == ASSUME Inv, Finish PROVE Inv'
<1> USE DEF Inv
<1>1. /\ main = "report" /\ main' \in {"wait", "publish"}
      /\ \/ /\ main' = "wait" /\ client' = [client EXCEPT !["finish"] = "running"]
            /\ wait' = [wait EXCEPT !["finish"] = "poll"]
         \/ main' = "publish" /\ UNCHANGED <<client, wait>>
      /\ UNCHANGED <<outcome, spawned, overdue, reply, result, nvimVars, log>>
  BY DEF Finish, SpawnRequest
<1>2. wait["finish"] = "none" /\ client["finish"] = "none" /\ outcome \in Outcomes
  BY <1>1 DEF FinishThread, ClientInv, MainTyped
<1>3. ThreadTyped' /\ FinishThread' /\ ClientInv' /\ HeardInv'
  BY <1>1, <1>2 DEF ThreadTyped, FinishThread, ClientInv, HeardInv, nvimVars
<1>4. MainTyped' /\ NvimTyped' /\ LogInv'
  BY <1>1 DEF MainTyped, NvimTyped, LogInv, nvimVars
<1>5. KnownInv'
  <2>1. known' = (result["watch"] = "ok")
    BY DEF Finish
  <2>2. known' \in BOOLEAN
    BY <2>1
  <2>3. ASSUME result["watch"] = "ok" PROVE heard = <<"watch">>
    <3>1. "watch" \in ToSet(heard) /\ "finish" \notin ToSet(heard)
      BY <1>2, <2>3 DEF HeardInv
    <3>2. QED BY <3>1, ToSetOfHearings DEF NvimTyped, Hearings
  <2>4. QED BY <1>1, <2>1, <2>2, <2>3 DEF KnownInv, nvimVars
<1>6. ToldInv'
  BY <1>1, <1>2, StatusTellsApart DEF Finish, ToldInv
<1>7. QED BY <1>3, <1>4, <1>5, <1>6

LEMMA PublishKeeps == ASSUME Inv, Publish PROVE Inv'
<1> USE DEF Inv, Publish
<1>1. ThreadTyped' /\ FinishThread' /\ ClientInv' /\ HeardInv'
  BY DEF ThreadTyped, FinishThread, ClientInv, HeardInv, nvimVars, threadVars
<1>2. MainTyped' /\ NvimTyped' /\ LogInv' /\ KnownInv' /\ ToldInv'
  BY DEF MainTyped, NvimTyped, LogInv, KnownInv, ToldInv, nvimVars
<1>3. QED BY <1>1, <1>2

LEMMA CleanUpKeeps == ASSUME Inv, CleanUp PROVE Inv'
<1> USE DEF Inv, CleanUp
<1>1. ThreadTyped' /\ FinishThread' /\ ClientInv' /\ HeardInv'
  BY DEF ThreadTyped, FinishThread, ClientInv, HeardInv, nvimVars
<1>2. MainTyped' /\ NvimTyped' /\ LogInv' /\ KnownInv' /\ ToldInv'
  BY DEF MainTyped, NvimTyped, LogInv, KnownInv, ToldInv, nvimVars
<1>3. QED BY <1>1, <1>2

-----------------------------------------------------------------------------
(* The clients and Neovim.                                                 *)

LEMMA SendKeeps == ASSUME Inv, NEW e \in Events, Send(e) PROVE Inv'
<1> USE DEF Inv, Send
<1>1. NvimTyped' /\ HeardInv'
  BY DEF NvimTyped, HeardInv, ThreadTyped, threadVars
<1>2. ThreadTyped' /\ FinishThread' /\ ClientInv'
  BY DEF ThreadTyped, FinishThread, ClientInv, threadVars
<1>3. MainTyped' /\ LogInv' /\ KnownInv' /\ ToldInv'
  BY DEF MainTyped, LogInv, KnownInv, ToldInv, reportVars
<1>4. QED BY <1>1, <1>2, <1>3

LEMMA EvaluateKeeps == ASSUME Inv, NEW e \in Events, Evaluate(e) PROVE Inv'
<1> USE DEF Inv
<1>1. PICK answer \in {"1", "0", "error"} :
        reply' = IF client[e] = "running" THEN [reply EXCEPT ![e] = answer] ELSE reply
  BY DEF Evaluate
<1>2. /\ e \in inbox /\ inbox' = inbox \ {e} /\ heard' = Append(heard, e)
      /\ followed' = IF log = "there" THEN followed \cup {e} ELSE followed
      /\ UNCHANGED <<main, outcome, spawned, wait, overdue, client, result, nvim, reportVars>>
  BY DEF Evaluate
<1>3. heard \in Hearings /\ e \notin ToSet(heard)
  BY <1>2 DEF NvimTyped
<1>4. /\ heard' \in Hearings /\ ToSet(heard)' = ToSet(heard) \cup {e}
      /\ heard = <<"watch">> => heard' = <<"watch", "finish">>
  BY <1>2, <1>3, HearOneMore
<1>5. NvimTyped'
  BY <1>2, <1>4 DEF NvimTyped
<1>6. ThreadTyped' /\ FinishThread' /\ ClientInv'
  BY <1>1, <1>2 DEF ThreadTyped, FinishThread, ClientInv
<1>7. HeardInv'
  <2>1. reply[e] # "1" /\ result[e] # "ok" /\ client[e] # "none"
    BY <1>2, <1>3 DEF HeardInv
  <2>2. client["finish"] = "running" => log = "there"
    BY DEF FinishThread, ClientInv, LogInv, MainTyped
  <2>3. QED BY <1>1, <1>2, <1>4, <2>1, <2>2 DEF HeardInv, ThreadTyped
<1>8. KnownInv'
  <2>1. heard # <<"watch", "finish">>
    BY <1>3, ToSetOfHearings
  <2>2. QED BY <1>2, <1>4, <2>1 DEF KnownInv, reportVars
<1>9. MainTyped' /\ LogInv' /\ ToldInv'
  BY <1>2 DEF MainTyped, LogInv, ToldInv, reportVars
<1>10. QED BY <1>5, <1>6, <1>7, <1>8, <1>9

LEMMA ClientEndsKeeps == ASSUME Inv, NEW e \in Events, ClientEnds(e) PROVE Inv'
<1> USE DEF Inv, ClientEnds
<1>1. ThreadTyped' /\ FinishThread' /\ ClientInv' /\ HeardInv'
  BY DEF ThreadTyped, FinishThread, ClientInv, HeardInv, nvimVars
<1>2. MainTyped' /\ NvimTyped' /\ LogInv' /\ KnownInv' /\ ToldInv'
  BY DEF MainTyped, NvimTyped, LogInv, KnownInv, ToldInv, nvimVars, reportVars
<1>3. QED BY <1>1, <1>2

-----------------------------------------------------------------------------
(* Theorems.                                                               *)

LEMMA InitInv == Init => Inv
<1> SUFFICES ASSUME Init PROVE Inv
  OBVIOUS
<1>1. ThreadTyped /\ FinishThread /\ ClientInv
  BY DEF Init, ThreadTyped, FinishThread, ClientInv
<1>2. MainTyped /\ NvimTyped
  BY DEF Init, MainTyped, NvimTyped, Hearings
<1>3. HeardInv
  BY ToSetOfHearings DEF Init, HeardInv
<1>4. LogInv /\ KnownInv /\ ToldInv
  BY DEF Init, LogInv, KnownInv, ToldInv, None, Cancelled
<1>5. QED BY <1>1, <1>2, <1>3, <1>4 DEF Inv

LEMMA NextInv == Inv /\ [Next]_vars => Inv'
<1> SUFFICES ASSUME Inv, [Next]_vars PROVE Inv'
  OBVIOUS
<1>1. CASE Daemon
  BY <1>1, WatchKeeps, LoadEndsKeeps, FinishKeeps, PublishKeeps, CleanUpKeeps DEF Daemon
<1>2. ASSUME NEW e \in Events, WaitForReply(e) PROVE Inv'
  BY <1>2, TryWaitKeeps, ClockKeeps, KillKeeps, ReapKeeps DEF WaitForReply
<1>3. ASSUME NEW e \in Events, Send(e) \/ Evaluate(e) \/ ClientEnds(e) PROVE Inv'
  BY <1>3, SendKeeps, EvaluateKeeps, ClientEndsKeeps
<1>4. ASSUME NEW e \in Events, DeadlinePasses(e) PROVE Inv'
  <2> USE DEF Inv, DeadlinePasses
  <2>1. ThreadTyped' /\ FinishThread' /\ ClientInv' /\ HeardInv'
    BY <1>4 DEF ThreadTyped, FinishThread, ClientInv, HeardInv, nvimVars
  <2>2. MainTyped' /\ NvimTyped' /\ LogInv' /\ KnownInv' /\ ToldInv'
    BY <1>4 DEF MainTyped, NvimTyped, LogInv, KnownInv, ToldInv, nvimVars, reportVars
  <2>3. QED BY <2>1, <2>2
<1>5. CASE Quit
  <2> USE DEF Inv, Quit
  <2>1. ThreadTyped' /\ FinishThread' /\ ClientInv' /\ HeardInv' /\ NvimTyped'
    BY <1>5 DEF ThreadTyped, FinishThread, ClientInv, HeardInv, NvimTyped, threadVars
  <2>2. MainTyped' /\ LogInv' /\ KnownInv' /\ ToldInv'
    BY <1>5 DEF MainTyped, LogInv, KnownInv, ToldInv, reportVars
  <2>3. QED BY <2>1, <2>2
<1>6. CASE UNCHANGED vars
  BY <1>6 DEF Inv, ThreadTyped, MainTyped, NvimTyped, FinishThread, ClientInv, LogInv, HeardInv,
     KnownInv, ToldInv, vars, threadVars, nvimVars, reportVars
<1>7. QED
  BY <1>1, <1>2, <1>3, <1>4, <1>5, <1>6 DEF Next, Stopped

LEMMA InvHolds == Spec => []Inv
BY InitInv, NextInv, PTL DEF Spec

-----------------------------------------------------------------------------
(* One watch: whoever asks Neovim to follow the load takes note of it.     *)

Noted == client["watch"] # "none" => spawned

LEMMA NotedStep == Inv /\ Noted /\ [Next]_vars => Noted'
<1> SUFFICES ASSUME Inv, Noted, [Next]_vars PROVE Noted'
  OBVIOUS
<1> USE DEF Inv, ThreadTyped, Noted
<1>1. ASSUME NEW e \in Events, WaitForReply(e) PROVE Noted'
  <2>1. spawned' = spawned
    BY <1>1 DEF WaitForReply, TryWait, Clock, Kill, Reap
  <2>2. client["watch"] = "none" => client'["watch"] = "none"
    BY <1>1 DEF WaitForReply, TryWait, Clock, Kill, Reap, Ends
  <2>3. QED BY <2>1, <2>2
<1>2. ASSUME NEW e \in Events, DeadlinePasses(e) \/ Send(e) \/ Evaluate(e) PROVE Noted'
  BY <1>2 DEF DeadlinePasses, Send, Evaluate, threadVars
<1>3. ASSUME NEW e \in Events, ClientEnds(e) PROVE Noted'
  BY <1>3 DEF ClientEnds
<1>4. CASE Watch
  BY <1>4 DEF Watch
<1>5. CASE Finish
  BY <1>5 DEF Finish, SpawnRequest
<1>6. CASE LoadEnds \/ Publish \/ CleanUp \/ Quit
  BY <1>6 DEF LoadEnds, Publish, CleanUp, Quit, threadVars
<1>7. CASE UNCHANGED vars
  BY <1>7 DEF vars, threadVars
<1>8. QED
  BY <1>1, <1>2, <1>3, <1>4, <1>5, <1>6, <1>7 DEF Next, Daemon, Stopped

LEMMA NotedHolds == Spec => []Noted
<1>1. Init => Noted
  BY DEF Init, Noted
<1>2. QED BY <1>1, NotedStep, InvHolds, PTL DEF Spec

\* No report is evaluated twice, and the rest of the state keeps its type, for any
\* exit codes.
THEOREM TypeCorrect == Spec => []TypeOK
<1>1. ASSUME NEW h \in Hearings PROVE h \in Seq(Events) /\ IsInjective(h)
  <2>1. ASSUME NEW a \in Events PROVE <<a>> \in Seq(Events) /\ IsInjective(<<a>>)
    BY DEF IsInjective
  <2>2. ASSUME NEW a \in Events, NEW b \in Events, a # b
        PROVE  <<a, b>> \in Seq(Events) /\ IsInjective(<<a, b>>)
    BY <2>2 DEF IsInjective
  <2>3. <<>> \in Seq(Events) /\ IsInjective(<<>>)
    BY DEF IsInjective
  <2>4. QED BY <2>1, <2>2, <2>3 DEF Hearings
<1>2. Inv /\ Noted => TypeOK
  BY <1>1 DEF Inv, Noted, ThreadTyped, MainTyped, NvimTyped, LogInv, KnownInv, ToldInv, TypeOK
<1>3. QED BY InvHolds, NotedHolds, <1>2, PTL

\* Whatever becomes of a client or of Neovim, nothing is published before the client
\* that reports the end was reaped, and a watch thread that is through has reaped
\* its own.
THEOREM ClientsReapedHolds == Spec => []ClientsReaped
<1>1. Inv => ClientsReaped
  BY DEF Inv, FinishThread, ClientInv, ThreadTyped, ClientsReaped
<1>2. QED BY InvHolds, <1>1, PTL

\* An acknowledged end was evaluated while the log was there, and after the watch
\* if that was acknowledged in time.
THEOREM AcknowledgedEndHolds == Spec => []AcknowledgedEnd
<1>1. ASSUME Inv, result["finish"] = "ok" PROVE "finish" \in followed /\ "finish" \in ToSet(heard)
  BY <1>1 DEF Inv, HeardInv
<1>2. Inv => AcknowledgedEnd
  <2> SUFFICES ASSUME Inv, result["finish"] = "ok"
               PROVE  "finish" \in followed /\ (known => heard = <<"watch", "finish">>)
    BY DEF AcknowledgedEnd
  <2>1. heard # <<"watch">>
    BY <1>1, ToSetOfHearings
  <2>2. QED BY <1>1, <2>1 DEF Inv, KnownInv
<1>3. QED BY InvHolds, <1>2, PTL

\* Only a cancelled load is reported as <<"cancel", 143>>, whatever direnv's exit
\* code, and the log of one that was is never renamed.
THEOREM ToldApartHolds == Spec => []ToldApart
<1>1. Inv => ToldApart
  BY DEF Inv, LogInv, ToldInv, ToldApart
<1>2. QED BY InvHolds, <1>1, PTL

-----------------------------------------------------------------------------
(* The reports come to their end.  The prover has no rules for ENABLED:    *)
(* what it has to know of the guards is an hypothesis of the theorem.      *)

Waiting(e) == wait[e] \in {"poll", "clock", "kill", "reap"}

NothingBlocks ==
  /\ main \in {"report", "publish", "cleanup"} => ENABLED <<Finish \/ Publish \/ CleanUp>>_vars
  /\ \A e \in Events :
       /\ wait[e] \in {"poll", "clock"} /\ ~overdue[e] => ENABLED <<DeadlinePasses(e)>>_vars
       /\ Waiting(e) /\ (wait[e] = "reap" => client[e] \in {"exited", "reaped"}) =>
            ENABLED <<WaitForReply(e)>>_vars

\* A thread waits for a client that was started, and in the end, after the kill,
\* for one that has ended.
WaitInv ==
  \A e \in Events :
    /\ Waiting(e) => client[e] # "none"
    /\ wait[e] = "reap" => client[e] \in {"exited", "reaped"}

LEMMA WaitStep == Inv /\ WaitInv /\ [Next]_vars => WaitInv'
<1> SUFFICES ASSUME Inv, WaitInv, [Next]_vars PROVE WaitInv'
  OBVIOUS
<1> USE DEF Inv, ThreadTyped, WaitInv, Waiting
<1>1. ASSUME NEW e \in Events, WaitForReply(e) PROVE WaitInv'
  <2>1. CASE TryWait(e) \/ Reap(e)
    BY <2>1 DEF TryWait, Reap, Ends
  <2>2. CASE Clock(e)
    BY <2>2 DEF Clock
  <2>3. CASE Kill(e)
    BY <2>3 DEF Kill
  <2> QED
    BY <1>1, <2>1, <2>2, <2>3 DEF WaitForReply
<1>2. ASSUME NEW e \in Events, DeadlinePasses(e) \/ Send(e) \/ Evaluate(e) PROVE WaitInv'
  BY <1>2 DEF DeadlinePasses, Send, Evaluate, threadVars
<1>3. ASSUME NEW e \in Events, ClientEnds(e) PROVE WaitInv'
  BY <1>3 DEF ClientEnds
<1>4. CASE Watch \/ Finish
  BY <1>4 DEF Watch, Finish, SpawnRequest
<1>5. CASE CleanUp
  BY <1>5 DEF CleanUp
<1>6. CASE LoadEnds \/ Publish \/ Quit
  BY <1>6 DEF LoadEnds, Publish, Quit, threadVars
<1>7. CASE UNCHANGED vars
  BY <1>7 DEF vars, threadVars
<1> QED
  BY <1>1, <1>2, <1>3, <1>4, <1>5, <1>6, <1>7 DEF Next, Daemon, Stopped

LEMMA WaitHolds == Spec => []WaitInv
<1>1. Init => WaitInv
  BY DEF Init, WaitInv, Waiting
<1> QED
  BY <1>1, WaitStep, InvHolds, PTL DEF Spec

Sound == Inv /\ WaitInv /\ Noted

LEMMA SoundHolds == Spec => []Sound
  BY InvHolds, WaitHolds, NotedHolds, PTL DEF Sound

\* How far a wait has come: before the deadline it goes round, then it runs down.
Stage(e) ==
  IF wait[e] \in {"poll", "clock"} /\ ~overdue[e] THEN 5
  ELSE IF wait[e] = "poll" THEN 4
  ELSE IF wait[e] = "clock" THEN 3
  ELSE IF wait[e] = "kill" THEN 2 ELSE 1

Nearer(e, n) == Waiting(e) /\ Stage(e) < n

\* Nobody but its own thread leads a wait back: it goes on, runs into its deadline, or
\* the process ends.
LEMMA WaitFrame ==
  ASSUME Sound, [Next]_vars, NEW e \in Events, Waiting(e), ~WaitForReply(e)
  PROVE  wait'[e] = "done" \/ (Waiting(e)' /\ Stage(e)' <= Stage(e))
<1> USE DEF Sound, Inv, ThreadTyped, Waiting, Stage
<1>1. CASE wait'[e] = wait[e] /\ (overdue[e] => overdue'[e])
  BY <1>1
<1>2. ASSUME NEW f \in Events, f # e, WaitForReply(f) PROVE UNCHANGED <<wait[e], overdue>>
  BY <1>2 DEF WaitForReply, TryWait, Clock, Kill, Reap, Ends
<1>3. ASSUME NEW f \in Events, DeadlinePasses(f) \/ Send(f) \/ Evaluate(f) \/ ClientEnds(f)
      PROVE  wait' = wait /\ (overdue[e] => overdue'[e])
  BY <1>3 DEF DeadlinePasses, Send, Evaluate, ClientEnds, threadVars
<1>4. CASE Watch
  <2>1. e # "watch"
    BY <1>4 DEF Watch, Noted, WaitInv
  <2> QED
    BY <1>1, <1>4, <2>1 DEF Watch, SpawnRequest
<1>5. CASE Finish
  <2>1. e # "finish"
    BY <1>5 DEF Finish, FinishThread
  <2> QED
    BY <1>1, <1>5, <2>1 DEF Finish, SpawnRequest
<1>6. CASE CleanUp
  BY <1>1, <1>6 DEF CleanUp
<1>7. CASE LoadEnds \/ Publish \/ Quit
  BY <1>1, <1>7 DEF LoadEnds, Publish, Quit, threadVars
<1>8. CASE UNCHANGED vars
  BY <1>1, <1>8 DEF vars, threadVars
<1> QED
  BY <1>1, <1>2, <1>3, <1>4, <1>5, <1>6, <1>7, <1>8 DEF Next, Daemon, Stopped

\* A thread leads its own wait on, once the deadline has passed closer to the end.
LEMMA WaitGoesOn ==
  ASSUME Sound, NEW e \in Events, Waiting(e), WaitForReply(e)
  PROVE  \/ wait'[e] = "done"
         \/ Waiting(e)' /\ Stage(e)' <= Stage(e) /\ (Stage(e) < 5 => Stage(e)' < Stage(e))
<1> USE DEF Sound, Inv, ThreadTyped, Waiting, Stage
<1>1. CASE TryWait(e)
  BY <1>1 DEF TryWait, Ends
<1>2. CASE Clock(e)
  BY <1>2 DEF Clock
<1>3. CASE Kill(e)
  BY <1>3 DEF Kill
<1>4. CASE Reap(e)
  BY <1>4 DEF Reap, Ends
<1> QED
  BY <1>1, <1>2, <1>3, <1>4 DEF WaitForReply

ComesNearer(e, m, n) == Nearer(e, m) ~> wait[e] = "done" \/ Nearer(e, n)

LEMMA Closer ==
  \A e \in Events, m, n \in Nat :
    m = n + 1 /\ n <= 5 => (FairSpec /\ []NothingBlocks => ComesNearer(e, m, n))
<1> TAKE e \in Events, m, n \in Nat
<1> HAVE m = n + 1 /\ n <= 5
<1> DEFINE P == Waiting(e) /\ Stage(e) = n
           Q == wait[e] = "done" \/ Nearer(e, n)
<1> USE DEF Nearer
<1>1. Stage(e) \in 1 .. 5 /\ Stage(e)' \in 1 .. 5
  BY DEF Stage
<1>2. Sound /\ P /\ [Next]_vars => P' \/ Q'
  BY <1>1, WaitGoesOn, WaitFrame
<1>3. Nearer(e, m) => P \/ Q
  BY <1>1
<1>4. FairSpec => Spec /\ ReportFairness(e)
  <2> HIDE DEF Events
  <2> QED
    BY DEF FairSpec
<1>5. CASE n = 5
  <2>1. Sound /\ P /\ <<DeadlinePasses(e)>>_vars => Q'
    <3> SUFFICES ASSUME Sound, P, DeadlinePasses(e) PROVE Waiting(e)' /\ Stage(e)' < n
      OBVIOUS
    <3> QED
      BY <1>5 DEF DeadlinePasses, Sound, Inv, ThreadTyped, Waiting, Stage
  <2>2. P => wait[e] \in {"poll", "clock"} /\ ~overdue[e]
    BY <1>5 DEF Stage
  <2>3. NothingBlocks /\ P => ENABLED <<DeadlinePasses(e)>>_vars
    BY <2>2 DEF NothingBlocks
  <2> HIDE DEF P, Q
  <2>4. FairSpec /\ []NothingBlocks => (Nearer(e, m) ~> Q)
    BY <1>2, <1>3, <1>4, <2>1, <2>3, SoundHolds, PTL DEF Spec, ReportFairness
  <2> QED
    BY <2>4 DEF Q, ComesNearer
<1>6. CASE n < 5
  <2>1. Sound /\ P /\ <<WaitForReply(e)>>_vars => Q'
    BY <1>1, <1>6, WaitGoesOn
  <2>2. Sound /\ NothingBlocks /\ P => ENABLED <<WaitForReply(e)>>_vars
    BY DEF NothingBlocks, Sound, WaitInv
  <2> HIDE DEF P, Q
  <2>3. FairSpec /\ []NothingBlocks => (Nearer(e, m) ~> Q)
    BY <1>2, <1>3, <1>4, <2>1, <2>2, SoundHolds, PTL DEF Spec, ReportFairness
  <2> QED
    BY <2>3 DEF Q, ComesNearer
<1> QED
  BY <1>5, <1>6

\* Whatever Neovim and the client do, the wait for it ends.
WaitEnds(e) == Waiting(e) ~> wait[e] = "done"

LEMMA WaitsEnd == \A e \in Events : FairSpec /\ []NothingBlocks => WaitEnds(e)
<1> TAKE e \in Events
<1>1. FairSpec /\ []NothingBlocks =>
        /\ ComesNearer(e, 6, 5) /\ ComesNearer(e, 5, 4) /\ ComesNearer(e, 4, 3)
        /\ ComesNearer(e, 3, 2) /\ ComesNearer(e, 2, 1)
  BY Closer
<1>2. (Waiting(e) => Nearer(e, 6)) /\ ~Nearer(e, 1)
  BY DEF Nearer, Stage
<1> QED
  BY <1>1, <1>2, PTL DEF ComesNearer, WaitEnds

\* And so does the daemon, once direnv has ended.
LEMMA MainEnds ==
  FairSpec /\ []NothingBlocks => (main = "report" ~> main = "gone")
<1> DEFINE Steps == Finish \/ Publish \/ CleanUp
           Reporting == main = "report"
           AwaitingReply == main = "wait"
           Publishing == main = "publish"
           CleaningUp == main = "cleanup"
           Gone == main = "gone"
<1> USE DEF Sound, Inv, MainTyped, ThreadTyped
<1>1. ASSUME Sound, [Next]_vars, main' # main
      PROVE  \/ main = "loading"
             \/ Steps
             \/ main = "wait" /\ main' = "publish"
  <2>1. ASSUME NEW e \in Events, WaitForReply(e) PROVE main = "wait" /\ main' = "publish"
    <3>1. TryWait(e) \/ Reap(e)
      BY <1>1, <2>1 DEF WaitForReply, Clock, Kill
    <3>2. e = "finish" /\ main' = "publish" /\ wait[e] \in {"poll", "reap"}
      BY <1>1, <3>1 DEF TryWait, Reap, Ends
    <3> QED
      BY <1>1, <3>2 DEF FinishThread
  <2>2. ASSUME NEW e \in Events, DeadlinePasses(e) \/ Send(e) \/ Evaluate(e) \/ ClientEnds(e)
        PROVE  FALSE
    BY <1>1, <2>2 DEF DeadlinePasses, Send, Evaluate, ClientEnds
  <2>3. CASE Watch \/ LoadEnds \/ Quit \/ Stopped \/ UNCHANGED vars
    BY <1>1, <2>3 DEF Watch, LoadEnds, Quit, Stopped, vars
  <2> QED
    BY <1>1, <2>1, <2>2, <2>3 DEF Next, Daemon
<1>2. Sound /\ Reporting /\ Steps => AwaitingReply' \/ Publishing'
  BY DEF Finish, Publish, CleanUp
<1>3. Publishing /\ Steps => CleaningUp'
  BY DEF Finish, Publish, CleanUp
<1>4. CleaningUp /\ Steps => Gone'
  BY DEF Finish, Publish, CleanUp
<1>5. AwaitingReply => ~Steps
  BY DEF Finish, Publish, CleanUp
<1>6. /\ Sound /\ Reporting /\ [Next]_vars => Reporting' \/ AwaitingReply' \/ Publishing'
      /\ Sound /\ AwaitingReply /\ [Next]_vars => AwaitingReply' \/ Publishing'
      /\ Sound /\ Publishing /\ [Next]_vars => Publishing' \/ CleaningUp'
      /\ Sound /\ CleaningUp /\ [Next]_vars => CleaningUp' \/ Gone'
  BY <1>1, <1>2, <1>3, <1>4, <1>5
<1>7. Sound /\ AwaitingReply => Waiting("finish") /\ ~(wait["finish"] = "done")
  BY DEF FinishThread, Waiting
<1>8. NothingBlocks /\ (Reporting \/ Publishing \/ CleaningUp) =>
        ENABLED <<Finish \/ Publish \/ CleanUp>>_vars
  BY DEF NothingBlocks
<1>9. FairSpec /\ []NothingBlocks => WaitEnds("finish")
  <2>1. "finish" \in Events
    OBVIOUS
  <2> HIDE DEF Events
  <2> QED
    BY <2>1, WaitsEnd
<1>10. <<Finish \/ Publish \/ CleanUp>>_vars => Steps
  OBVIOUS
<1> HIDE DEF Steps, Reporting, AwaitingReply, Publishing, CleaningUp, Gone, Sound, Inv
<1>11. FairSpec /\ []NothingBlocks => (Reporting ~> Gone)
  BY <1>2, <1>3, <1>4, <1>6, <1>7, <1>8, <1>9, <1>10, SoundHolds, PTL
     DEF FairSpec, Spec, MainFairness, WaitEnds
<1> QED
  BY <1>11 DEF Reporting, Gone

\* A Neovim that is busy, hangs or has gone delays the publication, not for ever,
\* and a client that gets no answer is not left running.
THEOREM ReportsEndHolds == FairSpec /\ []NothingBlocks => ReportsEnd
<1>1. ASSUME NEW e \in Events
      PROVE  FairSpec /\ []NothingBlocks =>
               (client[e] = "running" ~> client[e] = "reaped" \/ main = "gone")
  <2>1. Sound /\ client[e] = "running" => Waiting(e) \/ main = "gone"
    BY DEF Sound, Inv, ThreadTyped, ClientInv, WaitInv, Waiting
  <2>2. Sound /\ wait[e] = "done" => client[e] = "reaped" \/ main = "gone"
    BY DEF Sound, Inv, ClientInv
  <2>3. FairSpec /\ []NothingBlocks => WaitEnds(e)
    BY WaitsEnd
  <2> QED
    BY <2>1, <2>2, <2>3, SoundHolds, PTL DEF FairSpec, WaitEnds
<1> QED
  BY <1>1, MainEnds DEF ReportsEnd
=============================================================================
