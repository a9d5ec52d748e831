---------------------------- MODULE DaemonProofs ----------------------------
(***************************************************************************)
(* Theorems about Daemon, for any number of shells and watch processes,    *)
(* any buffer, any set of faults and any messages of the clients.          *)
(*                                                                         *)
(* The safety properties of a load are not inductive: whether a shell may  *)
(* be signalled depends on how far the main thread has come, and whether   *)
(* the load may be stopped on who registered while the socket was open.    *)
(* IInv says what holds at each phase of the main thread.                  *)
(***************************************************************************)
EXTENDS Daemon, TLAPS

\* Until the copy of the terminal ends nothing is decided.
Loading == {"forkpty", "attach", "check", "select", "spawn", "reap"}
Ending == {"cleanup", "leaving", "exited"}
Decided == {"ok", "failed"}

\* What the outcome says of the phase and of the child.
OutcomeInv ==
  /\ pc \in Loading => outcome = "none"
  /\ pc \in {"report", "finish"} => outcome # "none"
  /\ pc \in {"stderr", "env", "notify"} => outcome \in Decided
  /\ outcome \in Decided => child \in {"exit0", "exitN"}
  /\ outcome = "ok" => child = "exit0"

\* direnv does not end with a torn export, unless it is killed.
ExportInv ==
  /\ child = "exit0" => temp # "torn"
  /\ child = "exitN" /\ temp = "torn" => "direnv" \in Faults

\* What has been published so far.
PublishedInv ==
  /\ env # "empty"
  /\ env \in {"torn", "new"} => outcome \in Decided
  /\ stderr \in {"torn", "new"} => outcome \in Decided
  /\ env = "torn" => outcome = "failed" /\ "direnv" \in Faults
  /\ show # {} => outcome \in Decided
  /\ "env" \in show => pc \in {"notify"} \cup Ending

\* What is announced is in place, unless a rename failed.
AnnouncedInv ==
  "rename" \notin Faults =>
    /\ "env" \in show => env \in {"torn", "new"}
    /\ "stderr" \in show => stderr \in {"torn", "new"}
    /\ outcome \in Decided /\ pc \in {"env", "notify"} \cup Ending => log \notin {"torn", "new"}
    /\ outcome \in Decided /\ pc \in {"notify"} \cup Ending => temp \notin {"torn", "new"}

\* Signals are the last thing a load does.
SignalInv ==
  \A p \in Shells :
    /\ pids[p] <= 1 /\ signals[p] <= 1
    /\ signals[p] > 0 => pc \in Ending /\ outcome \in Decided /\ show # {}

\* The shells the load belongs to.
OwnerInv ==
  /\ stopQ \subseteq left
  /\ ~stop => \A p \in Shells : /\ pids[p] > 0 => p \in joined
                                /\ p \in joined => pids[p] > 0 \/ p \in left
  /\ OnlyOwnersCancel

\* The handlers have the PTY, if it could be duplicated, before a pane is asked for.
PaneInv ==
  /\ pc \in Phases \ {"forkpty", "attach", "exited"} => ptyMaster # "none"
  /\ spawned => pc \notin {"forkpty", "attach"} /\ ptyMaster # "none"
  /\ watch[Pane] # "none" => spawned
  /\ OwnPaneServed

IInv == /\ TypeOK /\ OutcomeInv /\ ExportInv /\ PublishedInv /\ AnnouncedInv
        /\ SignalInv /\ OwnerInv /\ PaneInv

-----------------------------------------------------------------------------
(* Who may change what.                                                    *)

LEMMA TimeoutStep ==
  ASSUME SelectTimeout
  PROVE  /\ pc = "select" /\ pc' \in {"check", "spawn"} /\ (spawned => spawned')
         /\ UNCHANGED <<outcome, show, sharedVars, childVars, dirVars, clientVars,
                        historyVars>>
<1>1. /\ pc = "select" /\ (pc' = "check" \/ pc' = "spawn")
      /\ spawned' = (spawned \/ (PaneDue /\ multiplexer # "herdr"))
      /\ UNCHANGED <<outcome, show, sharedVars, childVars, dirVars, clientVars,
                     historyVars>>
  BY Zenon DEF SelectTimeout, Silence
<1>2. spawned => spawned'
  BY <1>1, Zenon
<1> QED
  BY <1>1, <1>2

LEMMA MainFrame == [Next]_vars => Main \/ UNCHANGED mainVars
<1> SUFFICES ASSUME [Next]_vars PROVE Main \/ UNCHANGED mainVars
  OBVIOUS
<1>1. ASSUME Clients PROVE UNCHANGED mainVars
  BY <1>1 DEF Clients, NotifyDaemon, DetachDaemon, StopDaemon, RequestPty
<1>2. ASSUME Handlers PROVE UNCHANGED mainVars
  BY <1>2 DEF Handlers, HandleNotify, HandleStopPid, HandleStop, HandleWatch
<1>3. ASSUME Environment PROVE UNCHANGED mainVars
  BY <1>3 DEF Environment, ChildPrints, ChildExports, ChildExits, LingererExits, DelayElapses,
     CommandReturns
<1>4. CASE UNCHANGED vars
  BY <1>4 DEF vars
<1> QED
  BY <1>1, <1>2, <1>3, <1>4 DEF Next, Terminated

LEMMA SharedFrame ==
  [Next]_vars =>
    \/ \E p \in Shells : HandleNotify(p) \/ HandleStopPid(p)
    \/ HandleStop \/ Attach
    \/ UNCHANGED sharedVars
<1> SUFFICES ASSUME [Next]_vars, ~UNCHANGED sharedVars
             PROVE  \/ \E p \in Shells : HandleNotify(p) \/ HandleStopPid(p)
                    \/ HandleStop \/ Attach
  OBVIOUS
<1>1. CASE Clients
  BY <1>1 DEF Clients,
       NotifyDaemon, DetachDaemon, StopDaemon, RequestPty
<1>2. CASE Handlers
  BY <1>2 DEF Handlers,
       HandleWatch
<1>3. CASE Environment
  BY <1>3 DEF Environment,
       ChildPrints, ChildExports, ChildExits, LingererExits,
       DelayElapses, CommandReturns
<1>4. CASE Main
  BY <1>4 DEF Main,
       ForkPty, CheckStop, CopyChunk, PtyCloses, SelectTimeout, SpawnReturns, Reap,
       Report, FinishReturns, PublishStderr, PublishEnv, NotifyShells, CleanUp, Exit
<1>5. CASE UNCHANGED vars
  BY <1>5 DEF vars
<1> QED
  BY <1>1, <1>2, <1>3, <1>4, <1>5 DEF Next, Terminated

LEMMA ChildFrame ==
  [Next]_vars =>
    \/ ChildPrints \/ ChildExits \/ LingererExits \/ DelayElapses
    \/ CommandReturns
    \/ ForkPty \/ Attach \/ CheckStop \/ CopyChunk
    \/ UNCHANGED childVars
<1> SUFFICES ASSUME [Next]_vars, ~UNCHANGED childVars
             PROVE  \/ ChildPrints \/ ChildExits \/ LingererExits \/ DelayElapses
                    \/ CommandReturns
                    \/ ForkPty \/ Attach \/ CheckStop \/ CopyChunk
  OBVIOUS
<1>1. CASE Clients
  BY <1>1 DEF Clients,
       NotifyDaemon, DetachDaemon, StopDaemon, RequestPty
<1>2. CASE Handlers
  BY <1>2 DEF Handlers,
       HandleNotify, HandleStopPid, HandleStop, HandleWatch
<1>3. CASE Environment
  BY <1>3 DEF Environment,
       ChildExports
<1>4. CASE Main
  BY <1>4 DEF Main,
       PtyCloses, SelectTimeout, SpawnReturns, Reap, Report, FinishReturns,
       PublishStderr, PublishEnv, NotifyShells, CleanUp, Exit
<1>5. CASE UNCHANGED vars
  BY <1>5 DEF vars
<1> QED
  BY <1>1, <1>2, <1>3, <1>4, <1>5 DEF Next, Terminated

LEMMA DirFrame ==
  [Next]_vars =>
    \/ ChildExports \/ CopyChunk \/ PublishStderr \/ PublishEnv \/ CleanUp
    \/ UNCHANGED dirVars
<1> SUFFICES ASSUME [Next]_vars, ~UNCHANGED dirVars
             PROVE  \/ ChildExports \/ CopyChunk \/ PublishStderr \/ PublishEnv \/ CleanUp
  OBVIOUS
<1>1. CASE Clients
  BY <1>1 DEF Clients,
       NotifyDaemon, DetachDaemon, StopDaemon, RequestPty
<1>2. CASE Handlers
  BY <1>2 DEF Handlers,
       HandleNotify, HandleStopPid, HandleStop, HandleWatch
<1>3. CASE Environment
  BY <1>3 DEF Environment,
       ChildPrints, ChildExits, LingererExits, DelayElapses, CommandReturns
<1>4. CASE Main
  BY <1>4 DEF Main,
       ForkPty, Attach, CheckStop, PtyCloses, SelectTimeout, SpawnReturns, Reap,
       Report, FinishReturns, NotifyShells, Exit, ExitNow
<1>5. CASE UNCHANGED vars
  BY <1>5 DEF vars
<1> QED
  BY <1>1, <1>2, <1>3, <1>4, <1>5 DEF Next, Terminated

LEMMA ClientFrame ==
  [Next]_vars =>
    \/ Clients \/ Handlers \/ NotifyShells
    \/ UNCHANGED clientVars
<1> SUFFICES ASSUME [Next]_vars, ~UNCHANGED clientVars
             PROVE  \/ Clients \/ Handlers \/ NotifyShells
  OBVIOUS
<1>1. CASE Clients
  BY <1>1 DEF Clients
<1>2. CASE Handlers
  BY <1>2 DEF Handlers
<1>3. CASE Environment
  BY <1>3 DEF Environment,
       ChildPrints, ChildExports, ChildExits, LingererExits,
       DelayElapses, CommandReturns
<1>4. CASE Main
  BY <1>4 DEF Main,
       ForkPty, Attach, CheckStop, CopyChunk, PtyCloses, SelectTimeout, SpawnReturns, Reap,
       Report, FinishReturns, PublishStderr, PublishEnv, CleanUp, Exit
<1>5. CASE UNCHANGED vars
  BY <1>5 DEF vars
<1> QED
  BY <1>1, <1>2, <1>3, <1>4, <1>5 DEF Next, Terminated

LEMMA HistoryFrame ==
  [Next]_vars =>
    \/ \E p \in Shells : DetachDaemon(p) \/ HandleNotify(p)
    \/ HandleStop
    \/ UNCHANGED historyVars
<1> SUFFICES ASSUME [Next]_vars, ~UNCHANGED historyVars
             PROVE  \/ \E p \in Shells : DetachDaemon(p) \/ HandleNotify(p)
                    \/ HandleStop
  OBVIOUS
<1>1. CASE Clients
  BY <1>1 DEF Clients,
       NotifyDaemon, StopDaemon, RequestPty, historyVars
<1>2. CASE Handlers
  BY <1>2 DEF Handlers,
       HandleStopPid, HandleWatch
<1>3. CASE Environment
  BY <1>3 DEF Environment,
       ChildPrints, ChildExports, ChildExits, LingererExits,
       DelayElapses, CommandReturns
<1>4. CASE Main
  BY <1>4 DEF Main,
       ForkPty, Attach, CheckStop, CopyChunk, PtyCloses, SelectTimeout, SpawnReturns,
       Reap, Report, FinishReturns, PublishStderr, PublishEnv, NotifyShells, CleanUp,
       Exit
<1>5. CASE UNCHANGED vars
  BY <1>5 DEF vars
<1> QED
  BY <1>1, <1>2, <1>3, <1>4, <1>5 DEF Next, Terminated

-----------------------------------------------------------------------------
(* Types.                                                                  *)

LEMMA MainTypeStep == TypeOK /\ [Next]_vars => MainType'
<1> SUFFICES ASSUME TypeOK, [Next]_vars PROVE MainType'
  OBVIOUS
<1> USE DEF TypeOK, MainType, Phases
<1>1. CASE UNCHANGED mainVars
  BY <1>1 DEF mainVars
<1>2. CASE ForkPty
  BY <1>2 DEF ForkPty, ExitNow
<1>3. CASE Attach
  BY <1>3 DEF Attach, ExitNow
<1>4. CASE CheckStop
  BY <1>4 DEF CheckStop
<1>5. CASE CopyChunk
  BY <1>5 DEF CopyChunk
<1>6. CASE PtyCloses
  BY <1>6 DEF PtyCloses
<1>7. CASE SelectTimeout
  BY <1>7 DEF SelectTimeout
<1>8. CASE Reap
  BY <1>8 DEF Reap
<1>9. CASE Report
  BY <1>9 DEF Report, Reported
<1>10. CASE PublishStderr
  BY <1>10 DEF PublishStderr
<1>11. CASE PublishEnv
  BY <1>11 DEF PublishEnv
<1>12. CASE NotifyShells
  BY <1>12 DEF NotifyShells
<1>13. CASE CleanUp
  BY <1>13 DEF CleanUp
<1>14. CASE Exit
  BY <1>14 DEF Exit
<1>15. CASE SpawnReturns
  BY <1>15 DEF SpawnReturns
<1>16. CASE FinishReturns
  BY <1>16 DEF FinishReturns, Reported
<1> QED
  BY <1>1, <1>2, <1>3, <1>4, <1>5, <1>6, <1>7, <1>8, <1>9, <1>10, <1>11,
     <1>12, <1>13, <1>14, <1>15, <1>16, MainFrame DEF Main

LEMMA SharedTypeStep == TypeOK /\ [Next]_vars => SharedType'
<1> SUFFICES ASSUME TypeOK, [Next]_vars PROVE SharedType'
  OBVIOUS
<1> USE DEF TypeOK, SharedType
<1>1. ASSUME NEW p \in Shells, HandleNotify(p) PROVE SharedType'
  BY <1>1 DEF HandleNotify, WithPid
<1>2. ASSUME NEW p \in Shells, HandleStopPid(p) PROVE SharedType'
  <2>1. CASE pids[p] > 0
    <3>1. pids' = WithoutPid(p) /\ WithoutPid(p) \in [Shells -> Nat]
      BY <1>2, <2>1 DEF HandleStopPid, DetachPid, WithoutPid
    <3>2. stop' \in BOOLEAN /\ ptyMaster' = ptyMaster
      BY <1>2, <2>1 DEF HandleStopPid, DetachPid
    <3> QED
      BY <3>1, <3>2
  <2>2. CASE ~(pids[p] > 0)
    BY <1>2, <2>2 DEF HandleStopPid, DetachPid
  <2> QED
    BY <2>1, <2>2
<1>3. CASE HandleStop
  BY <1>3 DEF HandleStop
<1>4. CASE Attach
  BY <1>4 DEF Attach, StoreMaster
<1>5. CASE UNCHANGED sharedVars
  BY <1>5 DEF sharedVars
<1> QED
  BY <1>1, <1>2, <1>3, <1>4, <1>5, SharedFrame

LEMMA ChildTypeStep == TypeOK /\ [Next]_vars => ChildType'
<1> SUFFICES ASSUME TypeOK, [Next]_vars PROVE ChildType'
  OBVIOUS
<1> USE CapacityAssumption, EnvironmentAssumption DEF TypeOK, ChildType, muxVars
<1>1. CASE ChildPrints
  BY <1>1 DEF ChildPrints
<1>2. CASE ChildExits
  <2>1. lingering' \in BOOLEAN
    BY <1>2 DEF ChildExits
  <2> QED
    BY <1>2, <2>1 DEF ChildExits
<1>3. CASE LingererExits
  <2>1. lingering' \in BOOLEAN
    BY <1>3 DEF LingererExits
  <2> QED
    BY <1>3, <2>1 DEF LingererExits
<1>4. CASE DelayElapses
  BY <1>4 DEF DelayElapses
<1>5. CASE ForkPty
  BY <1>5 DEF ForkPty
<1>6. CASE Attach
  BY <1>6 DEF Attach
<1>7. CASE CheckStop
  BY <1>7 DEF CheckStop
<1>8. CASE CopyChunk
  BY <1>8 DEF CopyChunk
<1>9. CASE UNCHANGED childVars
  BY <1>9 DEF childVars
<1>10. CASE CommandReturns
  <2>1. answered' \in BOOLEAN
    BY <1>10 DEF CommandReturns
  <2> QED
    BY <1>10, <2>1 DEF CommandReturns
<1> QED
  BY <1>1, <1>2, <1>3, <1>4, <1>5, <1>6, <1>7, <1>8, <1>9, <1>10, ChildFrame

LEMMA DirTypeStep == TypeOK /\ [Next]_vars => DirType'
<1> SUFFICES ASSUME TypeOK, [Next]_vars PROVE DirType'
  OBVIOUS
<1> USE DEF TypeOK, DirType, Content
<1>1. CASE ChildExports
  BY <1>1 DEF ChildExports
<1>2. CASE CopyChunk
  BY <1>2 DEF CopyChunk, Written, Spoilt
<1>3. CASE PublishStderr
  BY <1>3 DEF PublishStderr
<1>4. CASE PublishEnv
  BY <1>4 DEF PublishEnv
<1>5. CASE CleanUp
  <2>1. sock' \in BOOLEAN
    BY <1>5 DEF CleanUp, RemoveFiles
  <2> QED
    BY <1>5, <2>1 DEF CleanUp, RemoveFiles
<1>6. CASE UNCHANGED dirVars
  BY <1>6 DEF dirVars
<1> QED
  BY <1>1, <1>2, <1>3, <1>4, <1>5, <1>6, DirFrame

LEMMA ClientTypeStep == TypeOK /\ [Next]_vars => ClientType'
<1> SUFFICES ASSUME TypeOK, [Next]_vars PROVE ClientType'
  OBVIOUS
<1> USE DEF TypeOK, ClientType
<1>1. ASSUME NEW p \in Shells, NotifyDaemon(p) \/ DetachDaemon(p) PROVE ClientType'
  BY <1>1 DEF NotifyDaemon, DetachDaemon
<1>2. CASE StopDaemon
  BY <1>2 DEF StopDaemon
<1>3. ASSUME NEW w \in Watchers, RequestPty(w) PROVE ClientType'
  BY <1>3 DEF RequestPty
<1>4. ASSUME NEW p \in Shells, HandleNotify(p) \/ HandleStopPid(p) PROVE ClientType'
  BY <1>4 DEF HandleNotify, HandleStopPid
<1>5. CASE HandleStop
  <2>1. forceQ' \in BOOLEAN
    BY <1>5 DEF HandleStop
  <2> QED
    BY <1>5, <2>1 DEF HandleStop
<1>6. ASSUME NEW w \in Watchers, HandleWatch(w) PROVE ClientType'
  BY <1>6 DEF HandleWatch
<1>7. CASE NotifyShells
  BY <1>7 DEF NotifyShells, SharedType
<1>8. CASE UNCHANGED clientVars
  BY <1>8 DEF clientVars
<1> QED
  BY <1>1, <1>2, <1>3, <1>4, <1>5, <1>6, <1>7, <1>8, ClientFrame
     DEF Clients, Handlers

LEMMA HistoryTypeStep == TypeOK /\ [Next]_vars => HistoryType'
  BY HistoryFrame DEF TypeOK, HistoryType, DetachDaemon, HandleNotify, HandleStop, historyVars

LEMMA TypeInit == Init => TypeOK
<1> SUFFICES ASSUME Init PROVE TypeOK
  OBVIOUS
<1> USE DEF Init
<1>1. MainType
  BY DEF MainType, Phases
<1>2. SharedType
  <2>1. stop \in BOOLEAN
    OBVIOUS
  <2>2. pids \in [Shells -> Nat]
    BY DEF InitialPids
  <2> QED
    BY <2>1, <2>2 DEF SharedType
<1>3. ChildType
  <2>1. lingering \in BOOLEAN /\ late \in BOOLEAN /\ answered \in BOOLEAN
    OBVIOUS
  <2> QED
    BY <2>1, CapacityAssumption DEF ChildType
<1>4. DirType
  BY EarlierAssumption DEF DirType, Content
<1>5. ClientType
  <2>1. forceQ \in BOOLEAN
    OBVIOUS
  <2> QED
    BY <2>1 DEF ClientType
<1>6. HistoryType
  <2>1. forced \in BOOLEAN
    OBVIOUS
  <2> QED
    BY <2>1 DEF HistoryType
<1> QED
  BY <1>1, <1>2, <1>3, <1>4, <1>5, <1>6 DEF TypeOK

LEMMA TypeStep == TypeOK /\ [Next]_vars => TypeOK'
  BY MainTypeStep, SharedTypeStep, ChildTypeStep, DirTypeStep, ClientTypeStep,
     HistoryTypeStep DEF TypeOK

\* Every variable of the daemon, its directory and its clients keeps its type.
THEOREM TypeCorrect == Spec => []TypeOK
  BY TypeInit, TypeStep, PTL DEF Spec

-----------------------------------------------------------------------------
(* The parts of the invariant, step by step.                               *)

LEMMA OutcomeStep == TypeOK /\ OutcomeInv /\ [Next]_vars => OutcomeInv'
<1> SUFFICES ASSUME TypeOK, OutcomeInv, [Next]_vars PROVE OutcomeInv'
  OBVIOUS
<1> USE DEF OutcomeInv, Loading, Decided
<1>1. ASSUME UNCHANGED <<pc, outcome>>, ~(child \in {"exit0", "exitN"})
      PROVE OutcomeInv'
  BY <1>1
<1>2. ASSUME UNCHANGED <<pc, outcome>>, UNCHANGED child PROVE OutcomeInv'
  BY <1>2
<1>3. CASE UNCHANGED mainVars
  <2>1. UNCHANGED child \/ ~(child \in {"exit0", "exitN"})
    BY <1>3, ChildFrame DEF ChildPrints, ChildExits, LingererExits, DelayElapses,
         CommandReturns, ForkPty, ExitNow, Attach, CheckStop, CopyChunk, mainVars, childVars
  <2> QED
    BY <1>1, <1>2, <1>3, <2>1 DEF mainVars
<1>4. CASE ForkPty
  BY <1>4 DEF ForkPty, ExitNow
<1>5. CASE Attach
  BY <1>5 DEF Attach, ExitNow
<1>6. CASE CheckStop
  BY <1>6 DEF CheckStop
<1>7. CASE CopyChunk
  BY <1>7 DEF CopyChunk
<1>8. CASE PtyCloses
  BY <1>8 DEF PtyCloses, childVars
<1>9. CASE SelectTimeout
  BY <1>9, TimeoutStep DEF childVars
<1>10. CASE Reap
  BY <1>10 DEF Reap, childVars
<1>11. CASE Report
  BY <1>11 DEF Report, Reported, childVars, TypeOK, MainType
<1>12. CASE PublishStderr
  BY <1>12 DEF PublishStderr, childVars
<1>13. CASE PublishEnv
  BY <1>13 DEF PublishEnv, childVars
<1>14. CASE NotifyShells
  BY <1>14 DEF NotifyShells, childVars
<1>15. CASE CleanUp
  BY <1>15 DEF CleanUp, childVars
<1>16. CASE Exit
  BY <1>16 DEF Exit, childVars
<1>17. CASE SpawnReturns
  BY <1>17 DEF SpawnReturns, childVars
<1>18. CASE FinishReturns
  BY <1>18 DEF FinishReturns, Reported, childVars, TypeOK, MainType
<1> QED
  BY <1>3, <1>4, <1>5, <1>6, <1>7, <1>8, <1>9, <1>10, <1>11, <1>12, <1>13,
     <1>14, <1>15, <1>16, <1>17, <1>18, MainFrame DEF Main

LEMMA ExportStep ==
  TypeOK /\ OutcomeInv /\ ExportInv /\ [Next]_vars => ExportInv'
<1> SUFFICES ASSUME TypeOK, OutcomeInv, ExportInv, [Next]_vars PROVE ExportInv'
  OBVIOUS
<1> USE DEF ExportInv
<1>1. temp' = "torn" => temp = "torn" \/ child' = "running"
  BY DirFrame DEF ChildExports, CopyChunk, PublishStderr, PublishEnv, HasEnv, CleanUp,
       RemoveFiles, dirVars, childVars
<1>2. CASE UNCHANGED child
  BY <1>1, <1>2
<1>3. CASE ChildExits
  BY <1>3 DEF ChildExits, dirVars
<1>4. CASE ~ChildExits /\ ~UNCHANGED child
  <2>1. child' \in {"running", "killed"}
    BY <1>4, ChildFrame DEF ChildPrints, LingererExits, DelayElapses, CommandReturns, ForkPty,
         Attach, CheckStop, CopyChunk, childVars
  <2> QED
    BY <2>1
<1> QED
  BY <1>2, <1>3, <1>4

LEMMA PaneStep == TypeOK /\ PaneInv /\ [Next]_vars => PaneInv'
<1> SUFFICES ASSUME TypeOK, PaneInv, [Next]_vars PROVE PaneInv'
  OBVIOUS
<1> USE PaneAssumption DEF PaneInv, OwnPaneServed, Phases, TypeOK, MainType, ClientType,
                           SharedType
<1>1. /\ ptyMaster # "none" => ptyMaster' # "none"
      /\ spawned => ptyMaster' = ptyMaster
  BY SharedFrame DEF HandleNotify, HandleStopPid, HandleStop, Attach, StoreMaster, sharedVars
<1>2. /\ pc' \in Phases \ {"forkpty", "attach", "exited"} => ptyMaster' # "none"
      /\ spawned' => pc' \notin {"forkpty", "attach"} /\ ptyMaster' # "none"
      /\ spawned => spawned'
  <2>1. CASE UNCHANGED mainVars
    BY <1>1, <2>1 DEF mainVars
  <2>2. CASE ForkPty \/ Attach
    BY <1>1, <2>2 DEF ForkPty, Attach, StoreMaster, ExitNow
  <2>3. CASE SelectTimeout \/ SpawnReturns
    <3>1. pc = "select" \/ pc = "spawn"
      BY <2>3, TimeoutStep DEF SpawnReturns
    <3>2. pc' \in {"check", "spawn"} /\ (spawned => spawned')
      BY <2>3, TimeoutStep, <3>1 DEF SpawnReturns
    <3> QED
      BY <1>1, <3>1, <3>2
  <2>4. CASE CheckStop \/ CopyChunk \/ PtyCloses \/ Reap \/ Report \/ FinishReturns
    BY <1>1, <2>4 DEF CheckStop, CopyChunk, PtyCloses, Reap, Report, FinishReturns, Reported
  <2>5. CASE PublishStderr \/ PublishEnv \/ NotifyShells \/ CleanUp \/ Exit
    BY <1>1, <2>5 DEF PublishStderr, PublishEnv, NotifyShells, CleanUp, Exit
  <2> QED
    BY <2>1, <2>2, <2>3, <2>4, <2>5, MainFrame DEF Main
<1>3. CASE UNCHANGED watch
  BY <1>1, <1>2, <1>3
<1>4. ASSUME NEW w \in Watchers, RequestPty(w) PROVE PaneInv'
  <2>1. /\ w = Pane => spawned
        /\ watch' = [watch EXCEPT ![w] = "asking"]
    BY <1>4 DEF RequestPty
  <2> QED
    BY <1>1, <1>2, <2>1
<1>5. ASSUME NEW w \in Watchers, HandleWatch(w) PROVE PaneInv'
  <2>1. /\ watch[w] = "asking"
        /\ watch' = [watch EXCEPT ![w] = IF ptyMaster = "shared" THEN "granted" ELSE "refused"]
    BY <1>5 DEF HandleWatch
  <2> QED
    BY <1>1, <1>2, <2>1
<1>6. UNCHANGED watch \/ \E w \in Watchers : RequestPty(w) \/ HandleWatch(w)
  BY ClientFrame DEF Clients, NotifyDaemon, DetachDaemon, StopDaemon, Handlers,
       HandleNotify, HandleStopPid, HandleStop, NotifyShells, clientVars
<1> QED
  BY <1>3, <1>4, <1>5, <1>6

LEMMA OwnerStep == TypeOK /\ OwnerInv /\ [Next]_vars => OwnerInv'
<1> SUFFICES ASSUME TypeOK, OwnerInv, [Next]_vars PROVE OwnerInv'
  OBVIOUS
<1> USE DEF OwnerInv, OnlyOwnersCancel, TypeOK, SharedType, ClientType, HistoryType
<1>1. ASSUME NEW p \in Shells, DetachDaemon(p) PROVE OwnerInv'
  BY <1>1 DEF DetachDaemon, sharedVars
<1>2. ASSUME NEW p \in Shells, HandleNotify(p) PROVE OwnerInv'
  BY <1>2 DEF HandleNotify, WithPid
<1>3. ASSUME NEW p \in Shells, HandleStopPid(p) PROVE OwnerInv'
  <2>1. p \in left /\ UNCHANGED <<joined, left, forced>> /\ stopQ' \subseteq stopQ
    BY <1>3 DEF HandleStopPid, historyVars
  <2>2. CASE ~(pids[p] > 0)
    BY <1>3, <2>1, <2>2 DEF HandleStopPid, DetachPid
  <2>3. CASE pids[p] > 0
    <3>1. /\ pids' = [pids EXCEPT ![p] = @ - 1]
          /\ stop' = (stop \/ \A q \in Shells : pids'[q] = 0)
      BY <1>3, <2>3 DEF HandleStopPid, DetachPid, WithoutPid, NoneLeft
    <3>2. \A q \in Shells : q # p => pids'[q] = pids[q]
      BY <3>1
    <3>3. CASE stop
      BY <2>1, <3>1, <3>3
    <3>4. CASE ~stop
      <4>1. \A q \in Shells : /\ pids'[q] > 0 => q \in joined
                              /\ q \in joined => pids'[q] > 0 \/ q \in left
        BY <2>1, <2>3, <3>2, <3>4
      <4>2. p \in joined
        BY <2>3, <3>4
      <4>3. stop' => joined \subseteq left
        BY <3>1, <3>4, <4>1
      <4> QED
        BY <2>1, <4>1, <4>2, <4>3
    <3> QED
      BY <3>3, <3>4
  <2> QED
    BY <2>2, <2>3
<1>4. CASE HandleStop
  BY <1>4 DEF HandleStop
<1>5. CASE UNCHANGED sharedVars /\ UNCHANGED historyVars /\ stopQ' = stopQ
  BY <1>5 DEF sharedVars, historyVars
<1>6. CASE Attach
  BY <1>6 DEF Attach, clientVars, historyVars
<1>7. \/ \E p \in Shells : DetachDaemon(p) \/ HandleNotify(p) \/ HandleStopPid(p)
      \/ HandleStop \/ Attach
      \/ UNCHANGED sharedVars /\ UNCHANGED historyVars /\ stopQ' = stopQ
  BY SharedFrame, HistoryFrame, ClientFrame DEF Clients, NotifyDaemon, StopDaemon,
     RequestPty, Handlers, HandleWatch, NotifyShells, clientVars
<1> QED
  BY <1>1, <1>2, <1>3, <1>4, <1>5, <1>6, <1>7

LEMMA SignalStep ==
  TypeOK /\ OutcomeInv /\ SignalInv /\ [Next]_vars => SignalInv'
<1> SUFFICES ASSUME TypeOK, OutcomeInv, SignalInv, [Next]_vars PROVE SignalInv'
  OBVIOUS
<1> USE DEF TypeOK, SharedType, ClientType, SignalInv
<1>1. \A p \in Shells : pids'[p] <= 1
  <2>1. ASSUME NEW p \in Shells, HandleNotify(p) PROVE \A q \in Shells : pids'[q] <= 1
    BY <2>1 DEF HandleNotify, WithPid
  <2>2. ASSUME NEW p \in Shells, HandleStopPid(p) PROVE \A q \in Shells : pids'[q] <= 1
    BY <2>2 DEF HandleStopPid, DetachPid, WithoutPid
  <2>3. CASE UNCHANGED pids
    BY <2>3
  <2> QED
    BY <2>1, <2>2, <2>3, SharedFrame DEF HandleStop, Attach, sharedVars
<1>2. CASE NotifyShells
  <2>1. \A p \in Shells : signals[p] = 0
    BY <1>2 DEF NotifyShells, Ending
  <2>2. pc' \in Ending /\ outcome' \in Decided /\ show' = show
    BY <1>2 DEF NotifyShells, OutcomeInv, Ending
  <2>3. \A p \in Shells : signals'[p] <= 1 /\ (signals'[p] > 0 => show # {})
    BY <1>2, <2>1 DEF NotifyShells, SomethingToShow
  <2> QED
    BY <1>1, <2>2, <2>3
<1>3. CASE UNCHANGED signals
  <2>1. ASSUME NEW p \in Shells, signals[p] > 0
        PROVE pc' \in Ending /\ outcome' \in Decided /\ show' # {}
    <3>1. CASE UNCHANGED mainVars
      BY <2>1, <3>1 DEF mainVars
    <3>2. CASE Main
      BY <2>1, <3>2, TimeoutStep DEF Ending, Main, ForkPty, Attach, CheckStop, CopyChunk,
         PtyCloses, SpawnReturns, Reap, Report, FinishReturns, PublishStderr, PublishEnv,
         NotifyShells, CleanUp, Exit
    <3> QED
      BY <3>1, <3>2, MainFrame
  <2> QED
    BY <1>1, <1>3, <2>1
<1> QED
  BY <1>2, <1>3, ClientFrame DEF Clients, NotifyDaemon, DetachDaemon, StopDaemon,
     RequestPty, Handlers, HandleNotify, HandleStopPid, HandleStop, HandleWatch,
     clientVars

LEMMA PublishedStep ==
  TypeOK /\ OutcomeInv /\ ExportInv /\ PublishedInv /\ [Next]_vars => PublishedInv'
<1> SUFFICES ASSUME TypeOK, OutcomeInv, ExportInv, PublishedInv, [Next]_vars
             PROVE  PublishedInv'
  OBVIOUS
<1> USE DEF PublishedInv, Ending, Decided
<1>1. CASE UNCHANGED mainVars
  <2>1. CASE UNCHANGED dirVars
    BY <1>1, <2>1 DEF mainVars, dirVars
  <2>2. CASE ChildExports
    BY <2>2 DEF ChildExports, mainVars, OutcomeInv
  <2>3. CASE CopyChunk \/ PublishStderr \/ PublishEnv \/ CleanUp
    BY <1>1, <2>3 DEF CopyChunk, PublishStderr, PublishEnv, CleanUp, mainVars
  <2> QED
    BY <2>1, <2>2, <2>3, DirFrame
<1>2. CASE ForkPty \/ Attach
  BY <1>2 DEF ForkPty, Attach, ExitNow, dirVars, OutcomeInv, Loading
<1>3. CASE CheckStop
  BY <1>3 DEF CheckStop, dirVars, OutcomeInv, Loading
<1>4. CASE CopyChunk
  BY <1>4 DEF CopyChunk, OutcomeInv, Loading
<1>5. CASE PtyCloses \/ SelectTimeout \/ SpawnReturns
  BY <1>5, TimeoutStep DEF PtyCloses, SpawnReturns, dirVars, OutcomeInv, Loading
<1>6. CASE Reap
  BY <1>6 DEF Reap, dirVars, OutcomeInv, Loading
<1>7. CASE Report \/ FinishReturns
  BY <1>7 DEF Report, FinishReturns, dirVars, OutcomeInv
<1>8. CASE PublishStderr
  BY <1>8 DEF PublishStderr, OutcomeInv
<1>9. CASE PublishEnv
  <2>1. outcome \in Decided /\ child \in {"exit0", "exitN"} /\ (outcome = "ok" => child = "exit0")
    BY <1>9 DEF PublishEnv, OutcomeInv
  <2>2. CASE HasEnv
    BY <1>9, <2>1, <2>2 DEF PublishEnv, HasEnv, ExportInv
  <2>3. CASE ~HasEnv
    BY <1>9, <2>1, <2>3 DEF PublishEnv, HasEnv, DropsCache
  <2> QED
    BY <2>2, <2>3
<1>10. CASE NotifyShells
  BY <1>10 DEF NotifyShells, dirVars
<1>11. CASE CleanUp
  BY <1>11 DEF CleanUp, RemoveFiles
<1>12. CASE Exit
  BY <1>12 DEF Exit, dirVars
<1> QED
  BY <1>1, <1>2, <1>3, <1>4, <1>5, <1>6, <1>7, <1>8, <1>9, <1>10, <1>11, <1>12,
     MainFrame DEF Main

LEMMA AnnouncedStep ==
  TypeOK /\ OutcomeInv /\ PublishedInv /\ AnnouncedInv /\ [Next]_vars => AnnouncedInv'
<1> SUFFICES ASSUME TypeOK, OutcomeInv, PublishedInv, AnnouncedInv, [Next]_vars,
                    "rename" \notin Faults
             PROVE  AnnouncedInv'
  BY DEF AnnouncedInv
<1> USE DEF AnnouncedInv, Ending, Decided
<1>1. CASE UNCHANGED mainVars
  <2>1. CASE UNCHANGED dirVars
    BY <1>1, <2>1 DEF mainVars, dirVars
  <2>2. CASE ChildExports
    <3>1. child = "running" /\ ~(outcome \in Decided)
      BY <2>2 DEF ChildExports, OutcomeInv
    <3> QED
      BY <1>1, <2>2, <3>1 DEF ChildExports, mainVars
  <2>3. CASE CopyChunk \/ PublishStderr \/ PublishEnv \/ CleanUp
    BY <1>1, <2>3 DEF CopyChunk, PublishStderr, PublishEnv, CleanUp, mainVars
  <2> QED
    BY <2>1, <2>2, <2>3, DirFrame
<1>2. CASE ForkPty \/ Attach \/ CheckStop
  BY <1>2 DEF ForkPty, Attach, ExitNow, CheckStop, dirVars, OutcomeInv, Loading
<1>3. CASE CopyChunk
  BY <1>3 DEF CopyChunk, OutcomeInv, Loading
<1>4. CASE PtyCloses \/ SpawnReturns \/ Reap
  BY <1>4 DEF PtyCloses, SpawnReturns, Reap, dirVars, OutcomeInv, Loading
<1>5. CASE Report \/ FinishReturns
  BY <1>5 DEF Report, FinishReturns, Reported, dirVars, OutcomeInv
<1>6. CASE PublishStderr
  BY <1>6 DEF PublishStderr, HasStderr, OutcomeInv
<1>7. CASE PublishEnv
  <2>1. /\ pc = "env" /\ pc' = "notify" /\ UNCHANGED <<outcome, log, stderr>>
        /\ outcome \in Decided
    BY <1>7 DEF PublishEnv, OutcomeInv
  <2>2. CASE HasEnv
    <3>1. env' = temp /\ temp' = "absent" /\ temp \in {"torn", "new"}
      BY <1>7, <2>2 DEF PublishEnv, HasEnv, DropsCache
    <3>2. show' = show \cup {"env"}
      BY <1>7, <2>2 DEF PublishEnv
    <3> QED
      BY <2>1, <3>1, <3>2
  <2>3. CASE ~HasEnv
    <3>1. temp' = temp /\ temp \notin {"torn", "new"} /\ show' = show
      BY <1>7, <2>3 DEF PublishEnv, HasEnv
    <3>2. "env" \notin show
      BY <2>1 DEF PublishedInv
    <3> QED
      BY <2>1, <3>1, <3>2
  <2> QED
    BY <2>2, <2>3
<1>8. CASE NotifyShells \/ CleanUp \/ Exit
  BY <1>8 DEF NotifyShells, CleanUp, RemoveFiles, Exit, dirVars
<1>9. CASE SelectTimeout
  BY <1>9, TimeoutStep DEF dirVars, OutcomeInv, Loading
<1> QED
  BY <1>1, <1>2, <1>3, <1>4, <1>5, <1>6, <1>7, <1>8, <1>9, MainFrame DEF Main

LEMMA InvInit == Init => IInv
<1> SUFFICES ASSUME Init PROVE IInv
  OBVIOUS
<1> USE TypeInit DEF Init
<1>1. OutcomeInv /\ ExportInv
  BY DEF OutcomeInv, ExportInv, Loading, Decided
<1>2. PublishedInv /\ AnnouncedInv
  BY EarlierAssumption DEF PublishedInv, AnnouncedInv, Decided
<1>3. SignalInv /\ OwnerInv
  BY DEF SignalInv, OwnerInv, OnlyOwnersCancel, InitialPids, TypeOK, SharedType
<1>4. PaneInv
  BY PaneAssumption DEF PaneInv, OwnPaneServed
<1> QED
  BY <1>1, <1>2, <1>3, <1>4 DEF IInv

LEMMA InvStep == IInv /\ [Next]_vars => IInv'
  BY TypeStep, OutcomeStep, ExportStep, PublishedStep, AnnouncedStep, SignalStep, OwnerStep,
     PaneStep
  DEF IInv

\* All of it is invariant.
THEOREM Invariance == Spec => []IInv
  BY InvInit, InvStep, PTL DEF Spec

-----------------------------------------------------------------------------
(* What follows for every instance, whatever fails.                        *)

\* The cached environment is never half an export, unless direnv is killed
\* half way and the load counts as failed.
THEOREM NoTornCacheHolds == Spec => []NoTornCache
<1>1. IInv => NoTornCache
  BY DEF IInv, PublishedInv, NoTornCache
<1> QED
  BY <1>1, Invariance, PTL

\* A load signals no shell twice, however often it registered and left.
THEOREM OncePerShellHolds == Spec => []OncePerShell
<1>1. IInv => OncePerShell
  BY DEF IInv, SignalInv, OncePerShell
<1> QED
  BY <1>1, Invariance, PTL

\* Issue #130: short of a plain STOP, only the shells that registered can stop
\* a load, and only all of them together.
THEOREM OnlyOwnersCancelHolds == Spec => []OnlyOwnersCancel
<1>1. IInv => OnlyOwnersCancel
  BY DEF IInv, OwnerInv
<1> QED
  BY <1>1, Invariance, PTL

\* A cancelled load publishes nothing and signals nobody.
THEOREM CancelledLeavesNoTraceHolds == Spec => []CancelledLeavesNoTrace
<1>1. IInv => CancelledLeavesNoTrace
  BY DEF IInv, TypeOK, ClientType, SignalInv, PublishedInv, CancelledLeavesNoTrace, Decided
<1> QED
  BY <1>1, Invariance, PTL

\* The watch of the daemon's own pane gets the terminal, whatever else fails, unless
\* the terminal could not be duplicated: it is never too early to ask.
THEOREM OwnPaneServedHolds == Spec => []OwnPaneServed
<1>1. IInv => OwnPaneServed
  BY DEF IInv, PaneInv, OwnPaneServed
<1> QED
  BY <1>1, Invariance, PTL

\* The cached export changes only to the complete export of a load, or with a
\* load that failed.
THEOREM CachePreserved == Spec => EmptyExportPreservesCache
<1>1. IInv /\ [Next]_vars => [CacheStep]_vars
  <2> SUFFICES ASSUME IInv, [Next]_vars, env' # env PROVE CacheStep
    BY DEF CacheStep
  <2>1. PublishEnv
    BY DirFrame DEF ChildExports, CopyChunk, PublishStderr, CleanUp, dirVars
  <2>2. outcome \in Decided /\ child \in {"exit0", "exitN"} /\ (outcome = "ok" => child = "exit0")
    BY <2>1 DEF PublishEnv, IInv, OutcomeInv
  <2>3. CASE HasEnv
    <3>1. env' = temp
      BY <2>1, <2>3 DEF PublishEnv, DropsCache
    <3> QED
      BY <2>2, <2>3, <3>1 DEF HasEnv, CacheStep, IInv, ExportInv, Decided
  <2>4. CASE ~HasEnv
    BY <2>1, <2>4 DEF PublishEnv, DropsCache, CacheStep
  <2> QED
    BY <2>3, <2>4
<1> QED
  BY <1>1, Invariance, PTL DEF Spec, EmptyExportPreservesCache

-----------------------------------------------------------------------------
(* What a failing system call would spoil: each property holds for every    *)
(* load that this call did not cut short, hence for all where it cannot     *)
(* fail.                                                                    *)

\* If no rename fails, SIGUSR1 comes after everything this load publishes.
THEOREM SignalsHold == ASSUME "rename" \notin Faults PROVE Spec => []SignalAfterPublication
<1>1. IInv => SignalAfterPublication
  BY DEF IInv, SignalInv, AnnouncedInv, SignalAfterPublication, Ending, Decided
<1> QED
  BY <1>1, Invariance, PTL

\* The copy loop ends with the terminal, not with an error on it.
ReadsToTheEnd == pc = "select" /\ pc' = "reap" => EndOfOutput

\* From the end of the copy on, the terminal is dry and nobody holds it.
DrainInv == pc = "reap" \/ outcome \in Decided => pending = 0 /\ ~SlaveOpen

LEMMA DrainInit == Init => DrainInv
  BY DEF Init, DrainInv, Decided

LEMMA DrainStep == IInv /\ DrainInv /\ [Next]_vars /\ [ReadsToTheEnd]_vars => DrainInv'
<1> SUFFICES ASSUME IInv, DrainInv, [Next]_vars, [ReadsToTheEnd]_vars PROVE DrainInv'
  OBVIOUS
<1> USE DEF DrainInv, SlaveOpen, IInv, OutcomeInv, Loading, Decided
<1>1. CASE UNCHANGED mainVars
  BY <1>1, ChildFrame DEF mainVars, childVars, ChildPrints, ChildExits, LingererExits,
     DelayElapses, CommandReturns, ForkPty, ExitNow, Attach, CheckStop, CopyChunk
<1>2. CASE ForkPty \/ Attach
  BY <1>2 DEF ForkPty, Attach, ExitNow
<1>3. CASE CheckStop \/ CopyChunk \/ SelectTimeout \/ SpawnReturns
  BY <1>3, TimeoutStep DEF CheckStop, CopyChunk, SpawnReturns
<1>4. CASE PtyCloses
  BY <1>4 DEF PtyCloses, ReadsToTheEnd, EndOfOutput, childVars, vars, mainVars
<1>5. CASE Reap \/ Report \/ FinishReturns
  BY <1>5 DEF Reap, Report, FinishReturns, Reported, childVars
<1>6. CASE PublishStderr \/ PublishEnv \/ NotifyShells \/ CleanUp \/ Exit
  BY <1>6 DEF PublishStderr, PublishEnv, NotifyShells, CleanUp, Exit, childVars
<1> QED
  BY <1>1, <1>2, <1>3, <1>4, <1>5, <1>6, MainFrame DEF Main

LEMMA NoErrorReadsOn ==
  ASSUME "pty" \notin Faults PROVE [Next]_vars => [ReadsToTheEnd]_vars
<1> SUFFICES ASSUME [Next]_vars, pc = "select", pc' = "reap" PROVE EndOfOutput
  BY DEF ReadsToTheEnd
<1>1. PtyCloses
  BY MainFrame DEF mainVars, Main, ForkPty, Attach, CheckStop, CopyChunk, SelectTimeout,
     SpawnReturns, Reap, Report, FinishReturns, Reported, PublishStderr, PublishEnv,
     NotifyShells, CleanUp, Exit
<1> QED
  BY <1>1 DEF PtyCloses

\* A load that ran to its end and met no error on the PTY has read everything that
\* was printed, whatever else fails.
THEOREM ReadingCompletes == Spec /\ [][ReadsToTheEnd]_vars => []LogComplete
<1>1. IInv /\ DrainInv => LogComplete
  BY DEF DrainInv, LogComplete, Decided
<1> QED
  BY <1>1, DrainInit, DrainStep, Invariance, PTL DEF Spec

\* If reading the terminal does not fail, every load that ran to its end has.
THEOREM LogCompleteHolds == ASSUME "pty" \notin Faults PROVE Spec => []LogComplete
  BY NoErrorReadsOn, ReadingCompletes, PTL DEF Spec

\* The directory once Cleanup has been dropped.
GoneInv ==
  pc \in {"leaving", "exited"} /\ outcome # "none" => ~sock /\ temp = "absent" /\ log = "absent"

LEMMA GoneStep == OutcomeInv /\ GoneInv /\ [Next]_vars => GoneInv'
<1> SUFFICES ASSUME OutcomeInv, GoneInv, [Next]_vars PROVE GoneInv'
  OBVIOUS
<1> USE DEF GoneInv
<1>1. CASE UNCHANGED mainVars
  BY <1>1, DirFrame DEF mainVars, dirVars, ChildExports, CopyChunk, PublishStderr,
     PublishEnv, CleanUp, RemoveFiles
<1>2. CASE ForkPty \/ Attach
  BY <1>2 DEF ForkPty, Attach, ExitNow, OutcomeInv, Loading
<1>3. CASE CleanUp
  BY <1>3 DEF CleanUp, RemoveFiles
<1>4. CASE Exit
  BY <1>4 DEF Exit, dirVars
<1>5. CASE Main /\ ~ForkPty /\ ~Attach /\ ~CleanUp /\ ~Exit
  BY <1>5 DEF Main, CheckStop, CopyChunk, PtyCloses, SelectTimeout, SpawnReturns, Reap, Report,
     FinishReturns, Reported, PublishStderr, PublishEnv, NotifyShells
<1> QED
  BY <1>1, <1>2, <1>3, <1>4, <1>5, MainFrame

\* Whatever fails, a daemon that got as far as an outcome has taken its socket and its
\* temporary files along when it is gone.
THEOREM DecidedExitsClean == Spec => [](outcome # "none" => CleanExit)
<1>1. Init => GoneInv
  BY DEF Init, GoneInv
<1>2. GoneInv => (outcome # "none" => CleanExit)
  BY DEF GoneInv, CleanExit, Alive
<1>3. IInv => OutcomeInv
  BY DEF IInv
<1> QED
  BY <1>1, <1>2, <1>3, GoneStep, Invariance, PTL DEF Spec

\* Without the two failures that call process::exit, no daemon is gone before that.
LEMMA EndsDecided ==
  ASSUME Faults \cap {"forkpty", "log"} = {}
  PROVE  Spec => [](~Alive => outcome # "none")
<1> DEFINE EndInv == pc \in Ending => outcome # "none"
<1>1. Init => EndInv
  BY DEF Init, Ending
<1>2. OutcomeInv /\ EndInv /\ [Next]_vars => EndInv'
  <2> SUFFICES ASSUME OutcomeInv, EndInv, [Next]_vars PROVE EndInv'
    OBVIOUS
  <2> USE DEF OutcomeInv, Ending, Loading, Decided
  <2>1. CASE UNCHANGED mainVars
    BY <2>1 DEF mainVars
  <2>2. CASE ForkPty \/ Attach
    BY <2>2 DEF ForkPty, Attach
  <2>3. CASE CheckStop \/ CopyChunk \/ PtyCloses \/ SelectTimeout \/ SpawnReturns \/ Reap
    BY <2>3 DEF CheckStop, CopyChunk, PtyCloses, SelectTimeout, SpawnReturns, Reap
  <2>4. CASE Report \/ FinishReturns
    BY <2>4 DEF Report, FinishReturns, Reported
  <2>5. CASE PublishStderr \/ PublishEnv \/ NotifyShells \/ CleanUp \/ Exit
    BY <2>5 DEF PublishStderr, PublishEnv, NotifyShells, CleanUp, Exit
  <2> QED
    BY <2>1, <2>2, <2>3, <2>4, <2>5, MainFrame DEF Main
<1>3. EndInv => (~Alive => outcome # "none")
  BY DEF Ending, Alive
<1>4. IInv => OutcomeInv
  BY DEF IInv
<1> HIDE DEF EndInv
<1> QED
  BY <1>1, <1>2, <1>3, <1>4, Invariance, PTL DEF Spec

\* If neither forkpty nor the log's creation fails, a daemon that is gone has
\* taken its socket and its temporary files along.
THEOREM CleanExitHolds ==
  ASSUME Faults \cap {"forkpty", "log"} = {} PROVE Spec => []CleanExit
<1>1. (~Alive => outcome # "none") /\ (outcome # "none" => CleanExit) => CleanExit
  BY DEF CleanExit
<1> QED
  BY <1>1, EndsDecided, DecidedExitsClean, PTL
=============================================================================
