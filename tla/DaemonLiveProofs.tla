-------------------------- MODULE DaemonLiveProofs --------------------------
(***************************************************************************)
(* What a daemon eventually does, for any number of shells and watch       *)
(* processes, any buffer and any messages of the clients.                  *)
(*                                                                         *)
(* The prover has no rules for ENABLED, so that each theorem names as an   *)
(* hypothesis what fairness has to be told of the guards (KnownWaits): for *)
(* the main thread that is OnlyKnownWaits, which TLC checks as an          *)
(* invariant, for the commands it waits for the guard of CommandReturns.   *)
(***************************************************************************)
EXTENDS DaemonProofs

KnownWaits == OnlyKnownWaits /\ (Awaits => ENABLED <<CommandReturns>>_vars)

\* How far the end is for a main thread that has been told to stop.
Distance ==
  IF pc = "forkpty" THEN 13
  ELSE IF pc = "attach" THEN 12
  ELSE IF pc = "select" THEN 11
  ELSE IF pc = "spawn" THEN 10
  ELSE IF pc \in {"check", "reap"} THEN 9
  ELSE IF pc = "report" THEN 8
  ELSE IF pc = "finish" THEN 7
  ELSE IF pc = "stderr" THEN 6
  ELSE IF pc = "env" THEN 5
  ELSE IF pc = "notify" THEN 4
  ELSE IF pc = "cleanup" THEN 3
  ELSE IF pc = "leaving" THEN 2 ELSE 1

LEMMA DistanceType == Distance \in 1 .. 13 /\ (Distance = 1 /\ MainType => ~Alive)
  BY DEF Distance, MainType, Phases, Alive

LEMMA StopStays == [Next]_vars /\ stop => stop'
  BY SharedFrame DEF HandleNotify, HandleStopPid, DetachPid, HandleStop, Attach, sharedVars

\* Whatever the main thread does once it has been told to stop, it comes closer
\* to the end; nobody else moves it.
LEMMA MainComesCloser == IInv /\ stop /\ Main => Distance' < Distance
<1> SUFFICES ASSUME IInv, stop, Main PROVE Distance' < Distance
  OBVIOUS
<1> USE DEF Distance
<1>1. CASE ForkPty \/ Attach
  <2>1. \/ pc = "forkpty" /\ pc' \in {"attach", "exited"}
        \/ pc = "attach" /\ pc' \in {"check", "exited"}
    BY <1>1 DEF ForkPty, Attach, ExitNow
  <2> QED
    BY <2>1
<1>2. CASE CheckStop
  BY <1>2 DEF CheckStop
<1>3. CASE CopyChunk \/ PtyCloses \/ SelectTimeout \/ SpawnReturns
  BY <1>3, TimeoutStep DEF CopyChunk, PtyCloses, SpawnReturns
<1>4. CASE Reap \/ Report \/ FinishReturns
  BY <1>4 DEF Reap, Report, FinishReturns, Reported
<1>5. CASE PublishStderr \/ PublishEnv \/ NotifyShells
  BY <1>5 DEF PublishStderr, PublishEnv, NotifyShells
<1>6. CASE CleanUp \/ Exit
  BY <1>6 DEF CleanUp, Exit
<1> QED
  BY <1>1, <1>2, <1>3, <1>4, <1>5, <1>6 DEF Main

LEMMA OthersKeepDistance == [Next]_vars /\ ~Main => Distance' = Distance
  BY MainFrame DEF mainVars, Distance

Nearer(n) == stop /\ Distance < n
ComesNearer(m, n) == Nearer(m) ~> ~Alive \/ Nearer(n)

\* waitpid waits for a direnv that still runs.
Stuck == pc = "reap" /\ child = "running"

\* A direnv the daemon waits for ends some time, although nobody may read its terminal
\* any more.  That is all an error on the PTY can take away from what follows.
Reaps == []<>~Stuck

LEMMA StuckFrom == [Next]_vars /\ Stuck' => Stuck \/ pc # "reap"
  BY ChildFrame DEF Stuck, childVars, ChildPrints, ChildExits, LingererExits,
     DelayElapses, CommandReturns, ForkPty, Attach, CheckStop, CopyChunk

\* Without errors on the PTY waitpid never waits.
LEMMA NeverStuck == ASSUME "pty" \notin Faults PROVE Spec => Reaps
<1>1. DrainInv => ~Stuck
  BY DEF DrainInv, Stuck, SlaveOpen
<1> QED
  BY <1>1, NoErrorReadsOn, DrainInit, DrainStep, Invariance, PTL DEF Spec, Reaps

\* An answer is not taken back.
LEMMA AnswerStays == [Next]_vars /\ answered => answered'
  BY ChildFrame DEF childVars, muxVars, ChildPrints, ChildExits, LingererExits, DelayElapses,
     CommandReturns, ForkPty, Attach, CheckStop, CopyChunk

\* The main thread gets every answer it waits for.
LEMMA CommandsReturn == FairSpec /\ []KnownWaits => []<>~Awaits
<1>1. <<CommandReturns>>_vars => ~Awaits'
  BY DEF CommandReturns, Awaits
<1>2. KnownWaits /\ Awaits => ENABLED <<CommandReturns>>_vars
  BY DEF KnownWaits
<1> QED
  BY <1>1, <1>2, PTL DEF FairSpec

\* From any distance a daemon that has been told to stop comes closer.
LEMMA Closer ==
  \A m, n \in Nat :
    m = n + 1 => (FairSpec /\ []KnownWaits /\ Reaps => ComesNearer(m, n))
<1> TAKE m, n \in Nat
<1> HAVE m = n + 1
<1> DEFINE P == stop /\ Distance = n /\ Alive
           Q == ~Alive \/ Nearer(n)
<1> USE DEF Nearer
<1>1. IInv /\ P /\ [Next]_vars => P' \/ Q'
  BY MainComesCloser, OthersKeepDistance, StopStays
<1>2. IInv /\ P /\ <<MainGoesOn>>_vars => Q'
  BY MainComesCloser, StopStays DEF MainGoesOn, Next
<1>3. IInv /\ P /\ ~Stuck /\ [Next]_vars => ~Stuck' \/ Q'
  \* The main thread comes closer by any step; no other brings direnv back.
  <2> SUFFICES ASSUME IInv, P, ~Stuck, [Next]_vars, Stuck', ~Main PROVE FALSE
    BY MainComesCloser, StopStays
  <2>1. pc' = pc
    BY MainFrame DEF mainVars
  <2> QED
    BY <2>1, StuckFrom DEF Stuck
<1>4. IInv /\ P /\ ~Awaits /\ [Next]_vars => ~Awaits' \/ Q'
  \* Nor does any other take an answer back.
  <2> SUFFICES ASSUME IInv, P, ~Awaits, [Next]_vars, Awaits', ~Main PROVE FALSE
    BY MainComesCloser, StopStays
  <2>1. pc' = pc
    BY MainFrame DEF mainVars
  <2> QED
    BY <2>1, AnswerStays DEF Awaits
<1>5. P /\ ~Stuck /\ ~Awaits /\ KnownWaits => ENABLED <<MainGoesOn>>_vars
  BY DEF KnownWaits, OnlyKnownWaits, WaitsForDirenv, WaitsForHerdr, WaitsForNeovim, Stuck,
         Awaits
<1>6. Nearer(m) => P \/ Q
  BY DistanceType
<1> HIDE DEF P, Q
<1>7. FairSpec /\ []KnownWaits => (P /\ ~Stuck /\ ~Awaits ~> Q)
  BY <1>1, <1>2, <1>3, <1>4, <1>5, Invariance, PTL DEF FairSpec, Spec
<1>8. FairSpec /\ []KnownWaits => (P /\ ~Stuck ~> Q \/ (P /\ ~Stuck /\ ~Awaits))
  BY <1>1, <1>3, CommandsReturn, Invariance, PTL DEF FairSpec, Spec
<1>9. FairSpec /\ Reaps => (P ~> Q \/ (P /\ ~Stuck))
  BY <1>1, Invariance, PTL DEF FairSpec, Spec, Reaps
<1>10. FairSpec /\ []KnownWaits /\ Reaps => (Nearer(m) ~> Q)
  BY <1>6, <1>7, <1>8, <1>9, PTL
<1> QED
  BY <1>10 DEF Q, ComesNearer

\* A daemon that was told to stop does, whatever direnv is doing: silent, printing
\* without pause, blocked on a full terminal.  Only a direnv that never ends after an
\* error on its terminal keeps it.
THEOREM StopEndsIfReaped == FairSpec /\ []KnownWaits /\ Reaps => StopEnds
<1>1. FairSpec /\ []KnownWaits /\ Reaps =>
        /\ ComesNearer(14, 13) /\ ComesNearer(13, 12) /\ ComesNearer(12, 11) /\ ComesNearer(11, 10) /\ ComesNearer(10, 9)
        /\ ComesNearer(9, 8) /\ ComesNearer(8, 7) /\ ComesNearer(7, 6)
        /\ ComesNearer(6, 5) /\ ComesNearer(5, 4) /\ ComesNearer(4, 3)
        /\ ComesNearer(3, 2) /\ ComesNearer(2, 1)
  BY Closer
<1>2. (stop => Nearer(14)) /\ ~Nearer(1)
  BY DistanceType DEF Nearer
<1> QED
  BY <1>1, <1>2, PTL DEF ComesNearer, StopEnds

\* Where the PTY does not fail nothing keeps it.
THEOREM StopEndsHolds ==
  ASSUME "pty" \notin Faults
  PROVE  FairSpec /\ []KnownWaits => StopEnds
BY NeverStuck, StopEndsIfReaped, PTL DEF FairSpec

-----------------------------------------------------------------------------
(* The load nobody waits for.                                              *)

\* As long as a load has had a shell and is not stopped, a shell is registered.
AttendedInv == joined # {} /\ ~stop => \E p \in Shells : pids[p] > 0

LEMMA AttendedStep == TypeOK /\ AttendedInv /\ [Next]_vars => AttendedInv'
<1> SUFFICES ASSUME TypeOK, AttendedInv, [Next]_vars PROVE AttendedInv'
  OBVIOUS
<1> USE DEF AttendedInv, TypeOK, SharedType
<1>1. ASSUME NEW p \in Shells, HandleNotify(p) PROVE AttendedInv'
  <2>1. pids'[p] > 0 /\ stop' = stop
    BY <1>1 DEF HandleNotify, WithPid
  <2> QED
    BY <2>1
<1>2. ASSUME NEW p \in Shells, HandleStopPid(p) PROVE AttendedInv'
  <2>1. CASE pids[p] > 0
    <3>1. pids' \in [Shells -> Nat] /\ (stop' <=> stop \/ \A q \in Shells : pids'[q] = 0)
      BY <1>2, <2>1, SharedTypeStep DEF HandleStopPid, DetachPid, NoneLeft
    <3> QED
      BY <1>2, <3>1 DEF HandleStopPid, historyVars
  <2>2. CASE ~(pids[p] > 0)
    BY <1>2, <2>2 DEF HandleStopPid, DetachPid, historyVars
  <2> QED
    BY <2>1, <2>2
<1>3. CASE HandleStop
  BY <1>3 DEF HandleStop
<1>4. CASE UNCHANGED <<pids, stop, joined>>
  BY <1>4
<1>5. \/ \E p \in Shells : HandleNotify(p) \/ HandleStopPid(p)
      \/ HandleStop \/ UNCHANGED <<pids, stop, joined>>
  BY SharedFrame, HistoryFrame DEF sharedVars, historyVars, DetachDaemon, Attach
<1> QED
  BY <1>1, <1>2, <1>3, <1>4, <1>5

\* Once every shell that ever registered has left, the load is stopped, so that the
\* daemon ends: nobody has to wait for direnv, and it does not run for nobody.
THEOREM AbandonedEndsIfReaped == FairSpec /\ []KnownWaits /\ Reaps => AbandonedEnds
<1>1. Init => AttendedInv
  <2> SUFFICES ASSUME Init PROVE AttendedInv
    OBVIOUS
  <2> QED
    BY DEF Init, AttendedInv
<1>2. AttendedInv /\ Abandoned => stop
  BY DEF AttendedInv, Abandoned
<1> QED
  BY <1>1, <1>2, AttendedStep, TypeCorrect, StopEndsIfReaped, PTL
     DEF FairSpec, Spec, StopEnds, AbandonedEnds

\* Where the PTY does not fail, whatever direnv does.
THEOREM AbandonedEndsHolds ==
  ASSUME "pty" \notin Faults
  PROVE  FairSpec /\ []KnownWaits => AbandonedEnds
BY NeverStuck, AbandonedEndsIfReaped, PTL DEF FairSpec

-----------------------------------------------------------------------------
(* The pane of a slow load.                                                *)

\* A direnv that has printed, is silent when mux_delay is over and stays so, gets
\* its pane: the loop comes by the timeout that looks at the clock, whatever fails.
THEOREM QuietPaneOpensHolds == FairSpec /\ []KnownWaits => QuietPaneOpens
<1> DEFINE Waits == Overdue /\ ~spawned /\ ~stop
           Checks == Waits /\ pc = "check"
           Selects == Waits /\ pc = "select"
           Opens == Waits /\ pc = "spawn"
           Opened == Opens /\ answered
<1>1. Waits => Checks \/ Selects \/ Opens
  BY DEF Overdue
<1>2. ASSUME Checks, Main PROVE pc' = "select" \/ ~Waits'
  BY <1>2 DEF Main, ForkPty, Attach, CheckStop, CopyChunk, PtyCloses, SelectTimeout, Silence,
     SpawnReturns, Reap, Report, FinishReturns, PublishStderr, PublishEnv, NotifyShells,
     CleanUp, Exit
<1>3. ASSUME Selects, Main PROVE ~Waits' \/ pc' = "spawn"
  <2>1. SelectTimeout \/ PtyCloses
    BY <1>3 DEF Main, ForkPty, Attach, CheckStop, CopyChunk, Overdue, SpawnReturns,
       Reap, Report, FinishReturns, PublishStderr, PublishEnv, NotifyShells, CleanUp, Exit
  <2>2. CASE SelectTimeout
    <3>1. PaneDue
      BY <1>3 DEF PaneDue, Overdue
    <3> QED
      BY <2>2, <3>1 DEF SelectTimeout
  <2>3. CASE PtyCloses
    BY <2>3 DEF PtyCloses, Overdue
  <2> QED
    BY <2>1, <2>2, <2>3
<1>4. ASSUME Opens, Main PROVE ~Waits'
  BY <1>4 DEF Main, ForkPty, Attach, CheckStop, CopyChunk, PtyCloses, SelectTimeout, Silence,
     SpawnReturns, Reap, Report, FinishReturns, PublishStderr, PublishEnv, NotifyShells,
     CleanUp, Exit
<1>5. [Next]_vars => Main \/ pc' = pc
  BY MainFrame DEF mainVars
<1>6. /\ Checks /\ Waits' /\ [Next]_vars => Checks' \/ Selects'
      /\ Checks /\ Waits' /\ <<MainGoesOn>>_vars => Selects'
  BY <1>2, <1>5 DEF MainGoesOn
<1>7. /\ Selects /\ Waits' /\ [Next]_vars => Selects' \/ Opens'
      /\ Selects /\ Waits' /\ <<MainGoesOn>>_vars => Opens'
  BY <1>3, <1>5 DEF MainGoesOn
<1>8. /\ Opens /\ Waits' /\ [Next]_vars => Opens'
      /\ Opened /\ Waits' /\ [Next]_vars => Opened'
      /\ Opened /\ <<MainGoesOn>>_vars => ~Waits'
  BY <1>4, <1>5, AnswerStays DEF MainGoesOn
<1>9. Opens /\ ~Awaits => Opened
  BY DEF Awaits
<1>10. (Checks \/ Selects \/ Opened) /\ KnownWaits => ENABLED <<MainGoesOn>>_vars
  BY DEF Overdue, KnownWaits, OnlyKnownWaits, WaitsForDirenv, WaitsForHerdr, WaitsForNeovim,
         Alive
<1>11. Waits <=> Overdue /\ ~spawned /\ ~stop
  OBVIOUS
<1> HIDE DEF Waits, Checks, Selects, Opens, Opened
<1>12. FairSpec /\ []KnownWaits /\ <>[]Waits => <>[]~Opens
  BY <1>8, <1>9, <1>10, CommandsReturn, PTL DEF FairSpec, Spec
<1>13. FairSpec /\ []KnownWaits => ~<>[]Waits
  BY <1>1, <1>6, <1>7, <1>10, <1>12, PTL DEF FairSpec, Spec
<1> QED
  BY <1>11, <1>13, PTL DEF QuietPaneOpens

-----------------------------------------------------------------------------
(* The signal of a shell that waits.                                       *)

\* There is no child before the fork, and only a stop request cancels.
StageInv == (pc = "forkpty" => child = "none") /\ (outcome = "cancelled" => stop)

LEMMA StageStep == TypeOK /\ StageInv /\ [Next]_vars => StageInv'
<1> SUFFICES ASSUME TypeOK, StageInv, [Next]_vars PROVE StageInv'
  OBVIOUS
<1> USE DEF StageInv
<1>1. CASE UNCHANGED mainVars
  <2>1. child' = child \/ child = "running"
    BY <1>1, ChildFrame DEF mainVars, childVars, ChildPrints, ChildExits, LingererExits,
       DelayElapses, CommandReturns, ForkPty, ExitNow, Attach, CheckStop, CopyChunk
  <2> QED
    BY <1>1, <2>1, StopStays DEF mainVars
<1>2. CASE ForkPty \/ Attach
  BY <1>2, StopStays DEF ForkPty, Attach, ExitNow
<1>3. CASE CheckStop
  BY <1>3 DEF CheckStop, sharedVars
<1>4. CASE CopyChunk \/ PtyCloses \/ SelectTimeout \/ SpawnReturns \/ Reap
  BY <1>4, StopStays, TimeoutStep DEF CopyChunk, PtyCloses, SpawnReturns, Reap
<1>5. CASE Report \/ FinishReturns
  BY <1>5, StopStays DEF Report, FinishReturns, Reported
<1>6. CASE PublishStderr \/ PublishEnv \/ NotifyShells \/ CleanUp \/ Exit
  BY <1>6, StopStays DEF PublishStderr, PublishEnv, NotifyShells, CleanUp, Exit
<1> QED
  BY <1>1, <1>2, <1>3, <1>4, <1>5, <1>6, MainFrame DEF Main

\* direnv is over, and the copy loop has still to find that out.
Draining == Finished /\ ~stop /\ pc \in {"check", "select"}

\* Nobody fills the terminal of a direnv that is over, and it stays over, unless the
\* daemon exits for want of a log file.
LEMMA FinishedStays ==
  TypeOK /\ Finished /\ [Next]_vars /\ pc # "forkpty" =>
    \/ Finished' /\ (pending' = pending \/ CopyChunk)
    \/ pc = "attach" /\ pc' = "exited" /\ show' = show
<1> SUFFICES ASSUME TypeOK, Finished, [Next]_vars, pc # "forkpty"
    PROVE \/ Finished' /\ (pending' = pending \/ CopyChunk)
          \/ pc = "attach" /\ pc' = "exited" /\ show' = show
  OBVIOUS
<1>1. CASE Attach
  BY <1>1 DEF Finished, Attach, ExitNow
<1>2. CASE ~Attach
  BY <1>2, ChildFrame DEF Finished, childVars, SlaveOpen, ChildPrints, ChildExits,
     LingererExits, DelayElapses, CommandReturns, ForkPty, CheckStop, CopyChunk
<1> QED
  BY <1>1, <1>2

\* The main thread while it drains the terminal.
LEMMA DrainMoves ==
  IInv /\ Draining /\ Main =>
    \/ pc = "check" /\ pc' = "select" /\ pending' = pending
    \/ pc = "select" /\ pc' = "check" /\ pending > 0 /\ pending' = pending - 1
    \/ pc = "select" /\ pc' = "reap" /\ (MainGoesOn => pending = 0)
<1> SUFFICES ASSUME IInv, Draining, Main
    PROVE \/ pc = "check" /\ pc' = "select" /\ pending' = pending
          \/ pc = "select" /\ pc' = "check" /\ pending > 0 /\ pending' = pending - 1
          \/ pc = "select" /\ pc' = "reap" /\ (MainGoesOn => pending = 0)
  OBVIOUS
<1>1. CASE CheckStop
  BY <1>1 DEF CheckStop, Draining
<1>2. CASE CopyChunk \/ PtyCloses \/ SelectTimeout
  BY <1>2 DEF CopyChunk, PtyCloses, SelectTimeout, Silence, Draining, Finished, SlaveOpen,
     MainGoesOn, EndOfOutput
<1>3. ~(ForkPty \/ Attach \/ SpawnReturns \/ Reap \/ Report \/ FinishReturns)
  BY DEF Draining, ForkPty, Attach, SpawnReturns, Reap, Report, FinishReturns
<1>4. ~(PublishStderr \/ PublishEnv \/ NotifyShells \/ CleanUp \/ Exit)
  BY DEF Draining, PublishStderr, PublishEnv, NotifyShells, CleanUp, Exit
<1> QED
  BY <1>1, <1>2, <1>3, <1>4 DEF Main

DrainsTo(m, n) == Draining /\ pending = m ~> ~Draining \/ pending = n

\* One round of the copy loop takes one chunk off the terminal.
LEMMA DrainsByOne ==
  \A m, n \in Nat : m = n + 1 => (FairSpec /\ []KnownWaits => DrainsTo(m, n))
<1> TAKE m, n \in Nat
<1> HAVE m = n + 1
<1> DEFINE Full == Draining /\ pending = m
           Checks == Full /\ pc = "check"
           Selects == Full /\ pc = "select"
           Less == ~Draining \/ pending = n
<1> USE DEF IInv, TypeOK, ChildType
<1>1. ASSUME IInv, Full, [Next]_vars
      PROVE \/ Less' \/ (Full' /\ pc' = pc /\ ~<<MainGoesOn>>_vars)
            \/ (Full' /\ pc = "check" /\ pc' = "select")
  <2>1. CASE Main
    BY <1>1, <2>1, DrainMoves DEF Draining
  <2>2. CASE ~Main
    <3>1. pc' = pc /\ ~CopyChunk /\ ~<<MainGoesOn>>_vars
      BY <2>2, <1>1, MainFrame DEF mainVars, Main, MainGoesOn
    <3>2. Finished' /\ pending' = pending
      BY <1>1, <3>1, FinishedStays DEF Draining
    <3> QED
      BY <1>1, <3>1, <3>2 DEF Draining
  <2> QED
    BY <2>1, <2>2
<1>2. Checks /\ IInv /\ [Next]_vars => (Checks' \/ Selects' \/ Less')
  BY <1>1
<1>3. Selects /\ IInv /\ [Next]_vars => (Selects' \/ Less')
  BY <1>1
<1>4. Checks /\ IInv /\ <<Next /\ MainGoesOn>>_vars => (Selects' \/ Less')
  BY <1>1
<1>5. Selects /\ IInv /\ <<Next /\ MainGoesOn>>_vars => Less'
  BY <1>1
<1>6. Full /\ KnownWaits => ENABLED <<MainGoesOn>>_vars
  BY DEF KnownWaits, OnlyKnownWaits, WaitsForDirenv, WaitsForHerdr, WaitsForNeovim, Draining,
         Alive
<1>7. (Full => Checks \/ Selects) /\ (Checks => Full) /\ (Selects => Full)
  BY DEF Draining
<1>8. Full <=> Draining /\ pending = m
  OBVIOUS
<1>9. Less <=> ~Draining \/ pending = n
  OBVIOUS
<1> HIDE DEF Full, Checks, Selects, Less
<1> QED
  BY <1>2, <1>3, <1>4, <1>5, <1>6, <1>7, <1>8, <1>9, Invariance, PTL
     DEF FairSpec, Spec, DrainsTo

\* Shell p waits for a load whose direnv is over, and is still to be told.
Expects(p) == Finished /\ pids[p] > 0 /\ ~stop /\ p \notin left

\* What becomes of it.
Heard(p) == signals[p] > 0 \/ p \in left \/ stop \/ (~Alive /\ show = {})

\* Where the load stands: in which phase the shell waits, or that there is nothing
\* to tell and the daemon is on its way out.
Waits(p, at) == Expects(p) /\ pc = at
Silent(at) == show = {} /\ pc = at

\* Nobody but the main thread moves a load, and a shell waits until it leaves.
LEMMA OthersKeepWaiting ==
  ASSUME NEW p \in Shells, IInv, Expects(p), pc # "forkpty", ~Main, [Next]_vars
  PROVE  Heard(p)' \/ (Expects(p)' /\ pc' = pc)
<1> USE DEF Expects, Heard, IInv, TypeOK, SharedType
<1>1. Finished' /\ pc' = pc
  BY FinishedStays, MainFrame DEF mainVars
<1>2. ASSUME NEW q \in Shells, HandleNotify(q) PROVE pids'[p] > 0
  BY <1>2 DEF HandleNotify, WithPid
<1>3. ASSUME NEW q \in Shells, HandleStopPid(q) PROVE pids'[p] > 0
  <2>1. q # p
    BY <1>3 DEF HandleStopPid, OwnerInv
  <2> QED
    BY <1>3, <2>1 DEF HandleStopPid, DetachPid, WithoutPid
<1>4. CASE pids' = pids
  BY <1>1, <1>4
<1>5. pids' = pids \/ \E q \in Shells : HandleNotify(q) \/ HandleStopPid(q)
  BY SharedFrame DEF sharedVars, HandleStop, Attach
<1> QED
  BY <1>1, <1>2, <1>3, <1>4, <1>5

\* Nothing is announced before it is published.
LEMMA NothingYet == IInv /\ pc = "attach" => show = {}
  BY DEF IInv, TypeOK, MainType, PublishedInv, OutcomeInv, Loading, Ending, Decided

\* The way of the main thread from the end of direnv to the signals: it does not
\* leave out a shell that waits.
LEMMA WayToSignals ==
  ASSUME NEW p \in Shells, IInv, StageInv, Expects(p), Main,
         pc \notin {"forkpty", "cleanup", "leaving"}
  PROVE  \/ Heard(p)' \/ (pc = "notify" /\ Silent("cleanup")')
         \/ /\ Expects(p)'
            /\ \/ pc \in {"attach", "spawn"} /\ pc' = "check"
               \/ pc \in {"check", "select"} /\ pc' \in {"check", "select"}
               \/ pc = "select" /\ pc' = "reap"
               \/ pc = "reap" /\ pc' = "report"
               \/ pc = "report" /\ pc' \in {"finish", "stderr"}
               \/ pc = "finish" /\ pc' = "stderr"
               \/ pc = "stderr" /\ pc' = "env"
               \/ pc = "env" /\ pc' = "notify"
<1> USE DEF Expects, Heard, Silent, IInv, TypeOK, SharedType, ClientType
<1>1. Finished' \/ (~Alive' /\ show' = {})
  BY FinishedStays, NothingYet DEF Next, Alive
<1>2. CASE Attach
  BY <1>1, <1>2, NothingYet DEF Attach, ExitNow, Alive, historyVars
<1>3. CASE CheckStop
  BY <1>1, <1>3 DEF CheckStop, sharedVars, historyVars
<1>4. CASE CopyChunk \/ PtyCloses \/ SpawnReturns
  BY <1>1, <1>4 DEF CopyChunk, PtyCloses, SpawnReturns, sharedVars, historyVars
<1>5. CASE Reap \/ Report \/ FinishReturns
  BY <1>1, <1>5 DEF Reap, Report, FinishReturns, Reported, StageInv, sharedVars, historyVars
<1>6. CASE PublishStderr \/ PublishEnv
  BY <1>1, <1>6 DEF PublishStderr, PublishEnv, sharedVars, historyVars
<1>7. CASE NotifyShells
  <2>1. show' = show /\ pc = "notify" /\ pc' = "cleanup"
    BY <1>7 DEF NotifyShells
  <2>2. show # {} => signals'[p] = signals[p] + pids[p]
    BY <1>7 DEF NotifyShells, SomethingToShow
  <2> QED
    BY <2>1, <2>2
<1>8. ~(ForkPty \/ SelectTimeout \/ CleanUp \/ Exit)
  BY DEF ForkPty, SelectTimeout, Silence, SlaveOpen, Finished, CleanUp, Exit
<1> QED
  BY <1>2, <1>3, <1>4, <1>5, <1>6, <1>7, <1>8 DEF Main

\* The loop empties the terminal.  DrainsByOne is the step of the induction over
\* what is left on it, which is beyond the provers for a formula of time.
Drains == Draining ~> ~Draining \/ pending = 0

\* A terminal of which eight reads (64 KiB) take everything is emptied: what is printed
\* while direnv runs does not count, only what is left when it is over.
LEMMA SmallBuffersDrain ==
  ASSUME PtyCapacity <= 8 PROVE FairSpec /\ []KnownWaits => Drains
<1>1. FairSpec /\ []KnownWaits =>
        /\ DrainsTo(8, 7) /\ DrainsTo(7, 6) /\ DrainsTo(6, 5) /\ DrainsTo(5, 4)
        /\ DrainsTo(4, 3) /\ DrainsTo(3, 2) /\ DrainsTo(2, 1) /\ DrainsTo(1, 0)
  BY DrainsByOne
<1>2. IInv => \/ pending = 8 \/ pending = 7 \/ pending = 6 \/ pending = 5 \/ pending = 4
              \/ pending = 3 \/ pending = 2 \/ pending = 1 \/ pending = 0
  BY CapacityAssumption DEF IInv, TypeOK, ChildType
<1> QED
  BY <1>1, <1>2, Invariance, PTL DEF FairSpec, DrainsTo, Drains

\* Once direnv has ended and let go of the terminal, a shell that is registered
\* before the signals go out gets its signal, unless it leaves, the load is stopped,
\* or the load turns out to have nothing to show.
THEOREM ToldHolds == FairSpec /\ []KnownWaits /\ Drains => Told
<1> DEFINE Inv == IInv /\ StageInv
<1>1. ASSUME NEW p \in Shells
      PROVE  FairSpec /\ []KnownWaits /\ Drains =>
               (Finished /\ pids[p] > 0 /\ pc \notin {"cleanup", "leaving", "exited"} ~>
                  signals[p] > 0 \/ p \in left \/ stop \/ (~Alive /\ show = {}))
  <2> DEFINE Copies == Expects(p) /\ pc \in {"check", "select"}
             Dry(at) == Waits(p, at) /\ pending = 0
             Attaches == Waits(p, "attach")
             Opens == Waits(p, "spawn")
             Opened == Opens /\ answered
             Checks == Dry("check")
             Selects == Dry("select")
             Collects == Waits(p, "reap")
             Reports == Waits(p, "report")
             Finishes == Waits(p, "finish")
             Noted == Finishes /\ answered
             Stderr == Waits(p, "stderr")
             Env == Waits(p, "env")
             Notifies == Waits(p, "notify")
             CleansUp == Silent("cleanup")
             Leaves == Silent("leaving")
             Goal == Heard(p)
             First == /\ Finished /\ pids[p] > 0
                      /\ pc \notin {"cleanup", "leaving", "exited"}
             Stage == \/ Copies \/ Attaches \/ Opened \/ Collects \/ Reports \/ Noted
                      \/ Stderr \/ Env \/ Notifies \/ CleansUp \/ Leaves
  <2> USE DEF Waits
  <2>1. /\ Inv /\ Attaches /\ [Next]_vars => Attaches' \/ Copies' \/ Goal'
        /\ Inv /\ Attaches /\ <<Next /\ MainGoesOn>>_vars => Copies' \/ Goal'
    BY OthersKeepWaiting, WayToSignals DEF MainGoesOn
  <2>2. Inv /\ Copies /\ [Next]_vars => Copies' \/ Collects' \/ Goal'
    BY OthersKeepWaiting, WayToSignals
  <2>3. /\ Inv /\ Collects /\ [Next]_vars => Collects' \/ Reports' \/ Goal'
        /\ Inv /\ Collects /\ <<Next /\ MainGoesOn>>_vars => Reports' \/ Goal'
    BY OthersKeepWaiting, WayToSignals DEF MainGoesOn
  <2>4. /\ Inv /\ Reports /\ [Next]_vars => Reports' \/ Finishes' \/ Stderr' \/ Goal'
        /\ Inv /\ Reports /\ <<Next /\ MainGoesOn>>_vars => Finishes' \/ Stderr' \/ Goal'
    BY OthersKeepWaiting, WayToSignals DEF MainGoesOn
  <2>5. /\ Inv /\ Stderr /\ [Next]_vars => Stderr' \/ Env' \/ Goal'
        /\ Inv /\ Stderr /\ <<Next /\ MainGoesOn>>_vars => Env' \/ Goal'
    BY OthersKeepWaiting, WayToSignals DEF MainGoesOn
  <2>6. /\ Inv /\ Env /\ [Next]_vars => Env' \/ Notifies' \/ Goal'
        /\ Inv /\ Env /\ <<Next /\ MainGoesOn>>_vars => Notifies' \/ Goal'
    BY OthersKeepWaiting, WayToSignals DEF MainGoesOn
  <2>7. /\ Inv /\ Notifies /\ [Next]_vars => Notifies' \/ CleansUp' \/ Goal'
        /\ Inv /\ Notifies /\ <<Next /\ MainGoesOn>>_vars => CleansUp' \/ Goal'
    BY OthersKeepWaiting, WayToSignals DEF MainGoesOn
  <2>8. Inv /\ (Checks \/ Selects) /\ [Next]_vars =>
          \/ Goal' \/ (Copies' /\ pc' = pc /\ pending' = 0 /\ ~Main)
          \/ Checks /\ Selects'
          \/ Selects /\ Collects'
    <3> SUFFICES ASSUME Inv, Checks \/ Selects, [Next]_vars, ~Goal'
                 PROVE \/ Copies' /\ pc' = pc /\ pending' = 0 /\ ~Main
                       \/ Checks /\ Selects'
                       \/ Selects /\ Collects'
      OBVIOUS
    <3>1. CASE ~Main
      <4>1. Copies' /\ pc' = pc /\ ~CopyChunk
        BY <3>1, OthersKeepWaiting DEF Main
      <4> QED
        BY <3>1, <4>1, FinishedStays DEF Expects, IInv
    <3>2. CASE Main
      <4>1. Draining
        BY DEF Draining, Expects
      <4>2. \/ pc = "check" /\ pc' = "select" /\ pending' = pending
            \/ pc = "select" /\ pc' = "reap"
        BY <3>2, <4>1, DrainMoves
      <4> QED
        BY <3>2, <4>2, WayToSignals
    <3> QED
      BY <3>1, <3>2
  <2>9. /\ Inv /\ Checks /\ [Next]_vars => Checks' \/ Selects' \/ Goal'
        /\ Inv /\ Checks /\ <<Next /\ MainGoesOn>>_vars => Selects' \/ Goal'
    BY <2>8 DEF MainGoesOn
  <2>10. /\ Inv /\ Selects /\ [Next]_vars => Selects' \/ Collects' \/ Goal'
         /\ Inv /\ Selects /\ <<Next /\ MainGoesOn>>_vars => Collects' \/ Goal'
    BY <2>8 DEF MainGoesOn
  <2>11. /\ CleansUp /\ [Next]_vars => CleansUp' \/ Leaves'
         /\ CleansUp /\ <<Next /\ MainGoesOn>>_vars => Leaves'
    BY MainFrame, TimeoutStep DEF Silent, mainVars, MainGoesOn, Main, ForkPty, Attach, CheckStop,
       CopyChunk, PtyCloses, SpawnReturns, Reap, Report, FinishReturns, PublishStderr,
       PublishEnv, NotifyShells, CleanUp, Exit
  <2>12. /\ Leaves /\ [Next]_vars => Leaves' \/ Goal'
         /\ Leaves /\ <<Next /\ MainGoesOn>>_vars => Goal'
    BY MainFrame, TimeoutStep DEF Silent, Heard, Alive, mainVars, MainGoesOn, Main, ForkPty,
       Attach, CheckStop, CopyChunk, PtyCloses, SpawnReturns, Reap, Report, FinishReturns,
       PublishStderr, PublishEnv, NotifyShells, CleanUp, Exit
  <2>13. Stage /\ KnownWaits => ENABLED <<MainGoesOn>>_vars
    BY DEF KnownWaits, OnlyKnownWaits, WaitsForDirenv, WaitsForHerdr, WaitsForNeovim, Alive,
           Expects, Finished, Silent
  <2>14. /\ Attaches \/ Copies \/ Opened \/ Collects \/ Reports \/ Noted => Stage
         /\ Stderr \/ Env \/ Notifies \/ CleansUp \/ Leaves => Stage
         /\ Checks \/ Selects => Copies
         /\ Copies => Draining
         /\ Copies /\ pending = 0 => Checks \/ Selects
    BY DEF Draining, Expects
  <2>15. Inv /\ First => Stage \/ Opens \/ Finishes \/ Goal
    BY DEF Expects, Heard, StageInv, Finished, IInv, TypeOK, MainType, Phases
  <2>16. First <=> /\ Finished /\ pids[p] > 0
                   /\ pc \notin {"cleanup", "leaving", "exited"}
    OBVIOUS
  <2>17. Goal <=> signals[p] > 0 \/ p \in left \/ stop \/ (~Alive /\ show = {})
    BY DEF Heard
  <2>18. Stage <=> \/ Copies \/ Attaches \/ Opened \/ Collects \/ Reports \/ Noted
                   \/ Stderr \/ Env \/ Notifies \/ CleansUp \/ Leaves
    OBVIOUS
  <2>19. /\ Init => StageInv
         /\ IInv => TypeOK
         /\ Inv <=> IInv /\ StageInv
    BY DEF Init, StageInv, IInv
  <2>20. /\ Inv /\ Opens /\ [Next]_vars => Opens' \/ Copies' \/ Goal'
         /\ Inv /\ Opened /\ [Next]_vars => Opened' \/ Copies' \/ Goal'
         /\ Inv /\ Opened /\ <<Next /\ MainGoesOn>>_vars => Copies' \/ Goal'
    BY OthersKeepWaiting, WayToSignals, AnswerStays DEF MainGoesOn
  <2>21. /\ Inv /\ Finishes /\ [Next]_vars => Finishes' \/ Stderr' \/ Goal'
         /\ Inv /\ Noted /\ [Next]_vars => Noted' \/ Stderr' \/ Goal'
         /\ Inv /\ Noted /\ <<Next /\ MainGoesOn>>_vars => Stderr' \/ Goal'
    BY OthersKeepWaiting, WayToSignals, AnswerStays DEF MainGoesOn
  <2>22. /\ Opens /\ ~Awaits => Opened
         /\ Finishes /\ ~Awaits => Noted
         /\ Opened => Opens
         /\ Noted => Finishes
    BY DEF Awaits
  <2> HIDE DEF Inv, Copies, Attaches, Opens, Opened, Checks, Selects, Collects, Reports,
               Finishes, Noted, Stderr, Env, Notifies, CleansUp, Leaves, Goal, First, Stage
  <2>23. FairSpec => []Inv
    BY <2>19, StageStep, Invariance, PTL DEF FairSpec, Spec
  <2>24. FairSpec /\ []KnownWaits => (CleansUp \/ Leaves ~> Goal)
    BY <2>11, <2>12, <2>13, <2>14, PTL DEF FairSpec, Spec
  <2>25. FairSpec /\ []KnownWaits => (Stderr \/ Env \/ Notifies ~> Goal)
    BY <2>5, <2>6, <2>7, <2>13, <2>14, <2>23, <2>24, PTL DEF FairSpec, Spec
  <2>26. FairSpec /\ []KnownWaits => (Finishes ~> Goal)
    <3>1. FairSpec /\ []KnownWaits => (Noted ~> Goal)
      BY <2>13, <2>14, <2>21, <2>23, <2>25, PTL DEF FairSpec, Spec
    <3> QED
      BY <3>1, <2>21, <2>22, <2>23, <2>25, CommandsReturn, PTL DEF FairSpec, Spec
  <2>27. FairSpec /\ []KnownWaits => (Collects \/ Reports ~> Goal)
    BY <2>3, <2>4, <2>13, <2>14, <2>23, <2>25, <2>26, PTL DEF FairSpec, Spec
  <2>28. FairSpec /\ []KnownWaits => (Checks \/ Selects ~> Goal)
    BY <2>9, <2>10, <2>13, <2>14, <2>23, <2>27, PTL DEF FairSpec, Spec
  <2>29. FairSpec /\ []KnownWaits /\ Drains => (Copies ~> Goal)
    BY <2>2, <2>14, <2>23, <2>27, <2>28, PTL DEF FairSpec, Spec, Drains
  <2>30. FairSpec /\ []KnownWaits /\ Drains => (Opens ~> Goal)
    <3>1. FairSpec /\ []KnownWaits /\ Drains => (Opened ~> Goal)
      BY <2>13, <2>14, <2>20, <2>23, <2>29, PTL DEF FairSpec, Spec
    <3> QED
      BY <3>1, <2>20, <2>22, <2>23, <2>29, CommandsReturn, PTL DEF FairSpec, Spec
  <2>31. FairSpec /\ []KnownWaits /\ Drains => (Attaches ~> Goal)
    BY <2>1, <2>13, <2>14, <2>23, <2>29, PTL DEF FairSpec, Spec
  <2>32. FairSpec /\ []KnownWaits /\ Drains => (First ~> Goal)
    BY <2>15, <2>18, <2>22, <2>23, <2>24, <2>25, <2>26, <2>27, <2>29, <2>30, <2>31, PTL
  <2> QED
    BY <2>16, <2>17, <2>32, PTL
<1> QED
  BY <1>1 DEF Told

\* Without that hypothesis, where eight reads empty a full terminal.
THEOREM ToldForSmallBuffers ==
  ASSUME PtyCapacity <= 8 PROVE FairSpec /\ []KnownWaits => Told
BY SmallBuffersDrain, ToldHolds, PTL
=============================================================================
