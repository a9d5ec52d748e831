---------------------------- MODULE ServiceProofs ----------------------------
(***************************************************************************)
(* Daemon implements LoadService: the initial states of the one are initial *)
(* states of the other, and every step of the one is a step of the other   *)
(* or none, under the mapping Service of module Daemon, for every instance. *)
(***************************************************************************)
EXTENDS DaemonProofs

\* There is nothing to show before the publication has begun, and nothing of this
\* load in the cache before the second rename.
ShowInv ==
  /\ show # {} => pc \in {"env", "notify"} \cup Ending
  /\ env \in {"torn", "new"} => pc \in {"notify"} \cup Ending

\* The mapping is evaluated in states that satisfy both.
MapInv == IInv /\ ShowInv

LEMMA ShowStep == OutcomeInv /\ ShowInv /\ [Next]_vars => ShowInv'
<1> SUFFICES ASSUME OutcomeInv, ShowInv, [Next]_vars PROVE ShowInv'
  OBVIOUS
<1> USE DEF ShowInv, Ending
<1>1. CASE UNCHANGED mainVars
  <2>1. env' = env
    BY <1>1, DirFrame DEF mainVars, dirVars, ChildExports, CopyChunk, PublishStderr,
       PublishEnv, CleanUp
  <2> QED
    BY <1>1, <2>1 DEF mainVars
<1>2. CASE ForkPty \/ Attach \/ CheckStop \/ CopyChunk \/ PtyCloses \/ SpawnReturns \/ Reap
  BY <1>2 DEF ForkPty, Attach, CheckStop, CopyChunk, PtyCloses, SpawnReturns, Reap, ExitNow,
     dirVars
<1>3. CASE SelectTimeout
  BY <1>3, TimeoutStep DEF dirVars
<1>4. CASE Report \/ FinishReturns
  BY <1>4 DEF Report, FinishReturns, Reported, dirVars
<1>5. CASE PublishStderr
  BY <1>5 DEF PublishStderr
<1>6. CASE PublishEnv
  BY <1>6 DEF PublishEnv
<1>7. CASE NotifyShells \/ CleanUp \/ Exit
  BY <1>7 DEF NotifyShells, CleanUp, Exit, dirVars
<1> QED
  BY <1>1, <1>2, <1>3, <1>4, <1>5, <1>6, <1>7, MainFrame DEF Main

LEMMA MapInvHolds == Spec => []MapInv
<1>1. Init => MapInv
  BY InvInit, EarlierAssumption DEF MapInv, ShowInv, Init
<1>2. MapInv /\ [Next]_vars => MapInv'
  BY InvStep, ShowStep DEF MapInv, IInv
<1> QED
  BY <1>1, <1>2, PTL DEF Spec

-----------------------------------------------------------------------------
(* Initial states and steps.                                               *)

LEMMA ServiceInit == Init => Service!Init
<1> SUFFICES ASSUME Init PROVE Service!Init
  OBVIOUS
<1>1. ServicePhase = "loading"
  BY DEF Init, ServicePhase
<1>2. {p \in Shells : pids[p] > 0} \in SUBSET Shells
  OBVIOUS
<1>3. {p \in Shells : signals[p] > 0} = {}
  BY DEF Init
<1>4. stop = FALSE /\ env \in {"absent", "old"} /\ (show # {} /\ pc \notin {"stderr", "env"}) = FALSE
  BY EarlierAssumption DEF Init
<1> QED
  BY <1>1, <1>2, <1>3, <1>4 DEF Service!Init

\* What LoadService sees of a state does not change.
Unseen == UNCHANGED <<outcome, show, pids, stop, env, signals>>

LEMMA UnseenStep ==
  ASSUME Unseen, UNCHANGED pc PROVE UNCHANGED Service!vars
BY DEF Unseen, ServicePhase, Service!vars

\* Clients, direnv and the clock are none of its business.
LEMMA OutsideStep == Clients \/ Environment => UNCHANGED Service!vars
<1>1. ASSUME Clients PROVE Unseen /\ UNCHANGED pc
  BY <1>1 DEF Clients, NotifyDaemon, DetachDaemon, StopDaemon, RequestPty, Unseen,
     mainVars, sharedVars, dirVars
<1>2. ASSUME Environment PROVE Unseen /\ UNCHANGED pc
  BY <1>2 DEF Environment, ChildPrints, ChildExports, ChildExits, LingererExits,
     DelayElapses, CommandReturns, Unseen, mainVars, sharedVars, dirVars, clientVars
<1> QED
  BY <1>1, <1>2, UnseenStep

\* A handler is a shell that joins, one that leaves, somebody who insists, or
\* nothing that matters.
LEMMA HandlerStep == MapInv /\ Handlers => [Service!Next]_(Service!vars)
<1> SUFFICES ASSUME MapInv, Handlers PROVE [Service!Next]_(Service!vars)
  OBVIOUS
<1> USE DEF MapInv, IInv, TypeOK, SharedType
<1>1. UNCHANGED <<pc, outcome, show, env, signals, ServicePhase>>
  BY DEF Handlers, HandleNotify, HandleStopPid, HandleStop, HandleWatch, mainVars,
     dirVars, ServicePhase
<1>2. ASSUME NEW p \in Shells, HandleNotify(p) PROVE Service!Join(p)
  <2>1. stop' = stop /\ pids' = WithPid(p)
    BY <1>2 DEF HandleNotify
  <2>2. {q \in Shells : pids'[q] > 0} = {q \in Shells : pids[q] > 0} \cup {p}
    BY <2>1 DEF WithPid
  <2> QED
    BY <1>1, <2>1, <2>2 DEF Service!Join
<1>3. ASSUME NEW p \in Shells, HandleStopPid(p), pids[p] > 0 PROVE Service!Leave(p)
  <2>1. /\ pids' = [pids EXCEPT ![p] = @ - 1]
        /\ stop' = (stop \/ \A q \in Shells : pids'[q] = 0)
    BY <1>3 DEF HandleStopPid, DetachPid, WithoutPid, NoneLeft
  <2>2. pids[p] = 1
    BY <1>3 DEF SignalInv
  <2>3. {q \in Shells : pids'[q] > 0} = {q \in Shells : pids[q] > 0} \ {p}
    BY <2>1, <2>2
  <2>4. (\A q \in Shells : pids'[q] = 0) <=> {q \in Shells : pids'[q] > 0} = {}
    <3>1. \A q \in Shells : pids'[q] \in Nat
      BY <2>1, <2>2
    <3> QED
      BY <3>1
  <2> QED
    BY <1>1, <1>3, <2>1, <2>3, <2>4 DEF Service!Leave
<1>4. ASSUME NEW p \in Shells, HandleStopPid(p), ~(pids[p] > 0) PROVE UNCHANGED Service!vars
  BY <1>1, <1>4, UnseenStep DEF HandleStopPid, DetachPid, Unseen
<1>5. ASSUME HandleStop PROVE Service!Insist
  BY <1>1, <1>5 DEF HandleStop, Service!Insist
<1>6. ASSUME NEW w \in Watchers, HandleWatch(w) PROVE UNCHANGED Service!vars
  BY <1>1, <1>6, UnseenStep DEF HandleWatch, Unseen, sharedVars
<1> QED
  BY <1>2, <1>3, <1>4, <1>5, <1>6 DEF Handlers, Service!Next

-----------------------------------------------------------------------------
(* The main thread.                                                        *)

\* Up to the decision: nothing to see, a cancellation, or a daemon that gives up.
LEMMA LoadingStep ==
  MapInv /\ (\/ ForkPty \/ Attach \/ CheckStop \/ CopyChunk \/ PtyCloses \/ SelectTimeout
             \/ SpawnReturns \/ Reap)
    => [Service!Next]_(Service!vars)
<1> SUFFICES ASSUME MapInv, \/ ForkPty \/ Attach \/ CheckStop \/ CopyChunk \/ PtyCloses
                            \/ SelectTimeout \/ SpawnReturns \/ Reap
             PROVE  [Service!Next]_(Service!vars)
  OBVIOUS
<1>1. pc \in Loading
  BY TimeoutStep DEF ForkPty, Attach, CheckStop, CopyChunk, PtyCloses, SpawnReturns, Reap,
     Loading
<1>2. outcome = "none" /\ ServicePhase = "loading" /\ show = {}
  BY <1>1 DEF MapInv, IInv, OutcomeInv, ShowInv, Loading, Ending, ServicePhase
<1>3. UNCHANGED <<show, pids, stop, env, signals>>
  BY TimeoutStep DEF ForkPty, Attach, CheckStop, CopyChunk, PtyCloses, SpawnReturns, Reap,
     ExitNow, sharedVars, dirVars, clientVars
<1>4. UNCHANGED (show # {} /\ pc \notin {"stderr", "env"})
  BY <1>2, <1>3
<1>5. CASE pc' = "exited" /\ outcome' = "none"
  <2>1. ServicePhase' = "over"
    BY <1>5 DEF ServicePhase
  <2>2. Service!GiveUp
    BY <1>2, <1>3, <1>4, <2>1 DEF Service!GiveUp
  <2> QED
    BY <2>2 DEF Service!Next
<1>6. CASE outcome' = "cancelled" /\ stop
  <2>1. ServicePhase' = "cancelled"
    BY <1>6 DEF ServicePhase
  <2>2. Service!Cancel
    BY <1>2, <1>3, <1>4, <1>6, <2>1 DEF Service!Cancel
  <2> QED
    BY <2>2 DEF Service!Next
<1>7. CASE pc' \in Loading \cup {"report"} /\ outcome' # "cancelled"
  <2>1. ServicePhase' = "loading"
    BY <1>7 DEF ServicePhase, Loading
  <2> QED
    BY <1>2, <1>3, <1>4, <2>1 DEF Service!vars
<1> QED
  BY <1>2, <1>5, <1>6, <1>7, TimeoutStep DEF ForkPty, Attach, CheckStop, CopyChunk, PtyCloses,
     SpawnReturns, Reap, ExitNow, Loading

\* The second rename is the publication.
LEMMA PublishStep == MapInv /\ PublishEnv => Service!Publish
<1> SUFFICES ASSUME MapInv, PublishEnv PROVE Service!Publish
  OBVIOUS
<1> USE DEF PublishEnv
<1>1. outcome \in Decided
  BY DEF MapInv, IInv, OutcomeInv
<1>2. ServicePhase = "loading" /\ ServicePhase' = "published"
  BY <1>1 DEF ServicePhase, Decided
<1>3. UNCHANGED <<pids, stop, signals>>
  BY DEF sharedVars, clientVars
<1> DEFINE Exported == IF "direnv" \in Faults THEN {"torn", "new"} ELSE {"new"}
<1>4. env' \in Exported \cup {env, "absent"}
  <2>1. temp = "torn" => "direnv" \in Faults
    BY <1>1 DEF MapInv, IInv, OutcomeInv, ExportInv, Decided
  <2> QED
    BY <2>1 DEF HasEnv, DropsCache
<1>5. env' \in Exported => show' # {}
  <2>1. env \notin {"torn", "new"} \/ show' # {}
    BY DEF MapInv, ShowInv, Ending
  <2> QED
    BY <2>1 DEF HasEnv, DropsCache
<1>6. (show # {} /\ pc \notin {"stderr", "env"})' \in BOOLEAN
  OBVIOUS
<1> QED
  BY <1>2, <1>3, <1>4, <1>5, <1>6 DEF Service!Publish

\* The loop of kill(2) is the announcement.
LEMMA TellStep == MapInv /\ NotifyShells => Service!Tell
<1> SUFFICES ASSUME MapInv, NotifyShells PROVE Service!Tell
  OBVIOUS
<1> USE DEF NotifyShells
<1>1. outcome \in Decided /\ \A p \in Shells : signals[p] = 0
  BY DEF MapInv, IInv, OutcomeInv, SignalInv, Ending, TypeOK, ClientType
<1>2. ServicePhase = "published" /\ ServicePhase' = "over"
  BY <1>1 DEF ServicePhase, Decided
<1>3. UNCHANGED <<show, pids, stop, env>> /\ pc' = "cleanup"
  BY DEF sharedVars, dirVars
<1>4. {p \in Shells : signals'[p] > 0}
        = IF show # {} THEN {p \in Shells : pids[p] > 0} ELSE {}
  BY <1>1 DEF SomethingToShow, MapInv, IInv, TypeOK, SharedType, ClientType
<1> QED
  BY <1>2, <1>3, <1>4 DEF Service!Tell

\* Between these, and after them, nothing is to be seen.
LEMMA QuietStep ==
  MapInv /\ (Report \/ FinishReturns \/ PublishStderr \/ CleanUp \/ Exit)
    => UNCHANGED Service!vars
<1> SUFFICES ASSUME MapInv, Report \/ FinishReturns \/ PublishStderr \/ CleanUp \/ Exit
             PROVE  UNCHANGED Service!vars
  OBVIOUS
<1>1. UNCHANGED <<outcome, pids, stop, env, signals>>
  BY DEF Report, FinishReturns, PublishStderr, CleanUp, Exit, RemoveFiles, sharedVars, dirVars,
         clientVars
<1>2. UNCHANGED (show # {} /\ pc \notin {"stderr", "env"})
  BY DEF Report, FinishReturns, PublishStderr, CleanUp, Exit, MapInv, ShowInv, Ending
<1>3. UNCHANGED ServicePhase
  BY <1>1 DEF Report, FinishReturns, Reported, PublishStderr, CleanUp, Exit, ServicePhase
<1> QED
  BY <1>1, <1>2, <1>3 DEF Service!vars

LEMMA ServiceStep == MapInv /\ [Next]_vars => [Service!Next]_(Service!vars)
<1> SUFFICES ASSUME MapInv, [Next]_vars PROVE [Service!Next]_(Service!vars)
  OBVIOUS
<1>1. CASE Clients \/ Environment
  BY <1>1, OutsideStep
<1>2. CASE Handlers
  BY <1>2, HandlerStep
<1>3. CASE Main
  BY <1>3, LoadingStep, PublishStep, TellStep, QuietStep DEF Main, Service!Next
<1>4. CASE UNCHANGED vars
  BY <1>4, UnseenStep DEF vars, mainVars, sharedVars, dirVars, clientVars, Unseen
<1> QED
  BY <1>1, <1>2, <1>3, <1>4 DEF Next, Terminated

\* To its shells a daemon, with its threads, its terminal, its pane and whatever
\* fails, is a load that publishes at once and tells everybody who waits once.
THEOREM Refinement == Spec => ImplementsService
<1>1. Spec => Service!Init /\ [][Service!Next]_(Service!vars)
  BY ServiceInit, ServiceStep, MapInvHolds, PTL DEF Spec
<1> QED
  BY <1>1 DEF ImplementsService, Service!Spec
=============================================================================
