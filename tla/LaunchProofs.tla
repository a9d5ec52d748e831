---------------------------- MODULE LaunchProofs ----------------------------
(***************************************************************************)
(* Theorems about Launch, for any set of starts and any set of faults.     *)
(*                                                                         *)
(* Three facts hold however starts overlap: what the path names is alive,  *)
(* was killed or left by process::exit; no temporary file outlives another *)
(* daemon than these; and whoever relies on a daemon relies on one that    *)
(* came up.  That there is only one daemon needs starts to keep apart      *)
(* (~Overlap), and an invariant that follows a start through its checks:   *)
(* once it has seen no daemon, there is none until its own listens.  From  *)
(* that it follows that each start is served.                              *)
(***************************************************************************)
EXTENDS Launch, Naturals, TLAPS

\* A start, or the daemon it forked, takes a step.
Step(s) == Begin(s) \/ Starting(s) \/ Running(s) \/ Finish(s) \/ Abort(s) \/ Killed(s)

LEMMA NextStep == [Next]_vars => (\E s \in Starters : Step(s)) \/ UNCHANGED vars
  BY DEF Next, Over, Step

-----------------------------------------------------------------------------
(* However starts overlap.                                                 *)

LEMMA TypeInit == Init => TypeOK
  BY DEF Init, TypeOK, StartPhases, StartOver, DaemonPhases

LEMMA TypeStep == TypeOK /\ [Next]_vars => TypeOK'
<1> SUFFICES ASSUME TypeOK, [Next]_vars PROVE TypeOK'
  OBVIOUS
<1> USE DEF TypeOK, StartPhases, StartOver, DaemonPhases, ComingUp, Listening, Dead, Goto
<1>1. ASSUME NEW s \in Starters, Begin(s) \/ Starting(s) PROVE TypeOK'
  <2>1. CASE Begin(s)
    BY <2>1 DEF Begin
  <2>2. CASE Exists(s) \/ Notify(s)
    BY <2>2 DEF Exists, Notify
  <2>3. CASE Recheck(s) \/ Connect(s)
    BY <2>3 DEF Recheck, Connect
  <2>4. CASE RemoveStale(s)
    BY <2>4 DEF RemoveStale
  <2>5. CASE Fork(s)
    BY <2>5 DEF Fork
  <2> QED
    BY <1>1, <2>1, <2>2, <2>3, <2>4, <2>5 DEF Starting
<1>2. ASSUME NEW d \in Starters, Running(d) \/ Finish(d) \/ Abort(d) \/ Killed(d) PROVE TypeOK'
  <2>1. CASE CreateTempFiles(d)
    BY <2>1 DEF CreateTempFiles
  <2>2. CASE Bind(d)
    BY <2>2 DEF Bind
  <2>3. CASE Listen(d)
    BY <2>3 DEF Listen
  <2>4. CASE CleanUp(d)
    <3>1. temps' \in [Starters -> BOOLEAN]
      BY <2>4 DEF CleanUp, Removes
    <3> QED
      BY <2>4, <3>1 DEF CleanUp, Removes
  <2>5. CASE Finish(d)
    BY <2>5 DEF Finish
  <2>6. CASE Abort(d) \/ Killed(d)
    BY <2>6 DEF Abort, Killed
  <2> QED
    BY <1>2, <2>1, <2>2, <2>3, <2>4, <2>5, <2>6 DEF Running
<1>3. CASE UNCHANGED vars
  BY <1>3 DEF vars
<1> QED
  BY <1>1, <1>2, <1>3, NextStep DEF Step

\* The path, every start and every daemon keep their types, and only a start
\* that forked has a daemon.
THEOREM TypeCorrect == Spec => []TypeOK
  BY TypeInit, TypeStep, PTL DEF Spec

LEMMA TempStep == TypeOK /\ NoTempLeak /\ [Next]_vars => NoTempLeak'
<1> SUFFICES ASSUME TypeOK, NoTempLeak, [Next]_vars PROVE NoTempLeak'
  OBVIOUS
<1> USE DEF TypeOK, NoTempLeak, ComingUp, Listening, Dead
<1>1. ASSUME NEW s \in Starters, Begin(s) \/ Starting(s) PROVE NoTempLeak'
  BY <1>1 DEF Begin, Starting, Exists, Notify, Recheck, Connect, RemoveStale, Fork
<1>2. ASSUME NEW d \in Starters, Running(d) \/ Finish(d) \/ Abort(d) \/ Killed(d) PROVE NoTempLeak'
  <2>1. CASE CreateTempFiles(d)
    BY <2>1 DEF CreateTempFiles
  <2>2. CASE Bind(d) \/ Listen(d)
    BY <2>2 DEF Bind, Listen
  <2>3. CASE CleanUp(d)
    BY <2>3 DEF CleanUp, Removes
  <2>4. CASE Finish(d) \/ Abort(d) \/ Killed(d)
    BY <2>4 DEF Finish, Abort, Killed
  <2> QED
    BY <1>2, <2>1, <2>2, <2>3, <2>4 DEF Running
<1>3. CASE UNCHANGED vars
  BY <1>3 DEF vars
<1> QED
  BY <1>1, <1>2, <1>3, NextStep DEF Step

\* No temporary file outlives its daemon, unless that was killed, left by process::exit
\* or failed on its way up.
THEOREM NoTempLeakHolds == Spec => []NoTempLeak
<1>1. Init => NoTempLeak
  BY DEF Init, NoTempLeak
<1> QED
  BY <1>1, TempStep, TypeCorrect, PTL DEF Spec

LEMMA PathStep == TypeOK /\ NoStaleSocket /\ [Next]_vars => NoStaleSocket'
<1> SUFFICES ASSUME TypeOK, NoStaleSocket, [Next]_vars PROVE NoStaleSocket'
  OBVIOUS
<1> USE NoSocketAssumption DEF TypeOK, NoStaleSocket, ComingUp, Listening, Dead
<1>1. ASSUME NEW s \in Starters, Begin(s) \/ Starting(s) PROVE NoStaleSocket'
  BY <1>1 DEF Begin, Starting, Exists, Notify, Recheck, Connect, RemoveStale, Fork
<1>2. ASSUME NEW d \in Starters, Running(d) \/ Finish(d) \/ Abort(d) \/ Killed(d) PROVE NoStaleSocket'
  <2>1. CASE CreateTempFiles(d) \/ Listen(d)
    BY <2>1 DEF CreateTempFiles, Listen
  <2>2. CASE Bind(d)
    BY <2>2 DEF Bind
  <2>3. CASE CleanUp(d)
    BY <2>3 DEF CleanUp, Removes
  <2>4. CASE Finish(d) \/ Abort(d) \/ Killed(d)
    BY <2>4 DEF Finish, Abort, Killed
  <2> QED
    BY <1>2, <2>1, <2>2, <2>3, <2>4 DEF Running
<1>3. CASE UNCHANGED vars
  BY <1>3 DEF vars
<1> QED
  BY <1>1, <1>2, <1>3, NextStep DEF Step

\* If the daemon that the path names is gone, it was killed or it left by
\* process::exit: however many starts overlap and remove each other's paths, none that
\* ended with its load, lost the path or failed on its way up is at the path.
THEOREM NoStaleSocketHolds == Spec => []NoStaleSocket
<1>1. Init => NoStaleSocket
  BY NoSocketAssumption DEF Init, NoStaleSocket
<1> QED
  BY <1>1, PathStep, TypeCorrect, PTL DEF Spec

-----------------------------------------------------------------------------
(* The load happens, however starts overlap.                               *)

\* A daemon that owned the path at some time: it bound it, and may have served
\* or come to a sudden end since.
Came(d) == daemon[d] \in {"listen", "exited"} \cup Listening \cup Dead

\* A start that left the load to another one: it told its daemon or found it
\* running, or its own daemon lost the path to it.
Relies(s) == start[s] \in {"notified", "running"} \/ daemon[s] \in {"losing", "lost"}

\* Who relies on a daemon relies on one that came.
LoadInv == (\E s \in Starters : Relies(s)) => \E d \in Starters : Came(d)

\* To have come is for ever.
LEMMA CameStays ==
  ASSUME TypeOK, [Next]_vars, NEW d \in Starters, Came(d)
  PROVE  Came(d)'
<1> USE DEF TypeOK, Came, ComingUp, Listening, Dead
<1>1. ASSUME NEW s \in Starters, Begin(s) \/ Starting(s) PROVE Came(d)'
  BY <1>1 DEF Begin, Starting, Exists, Notify, Recheck, Connect, RemoveStale, Fork,
              StartOver
<1>2. ASSUME NEW s \in Starters, Running(s) PROVE Came(d)'
  BY <1>2 DEF Running, CreateTempFiles, Bind, Listen, CleanUp
<1>3. ASSUME NEW s \in Starters, Finish(s) \/ Abort(s) \/ Killed(s) PROVE Came(d)'
  BY <1>3 DEF Finish, Abort, Killed
<1>4. CASE UNCHANGED vars
  BY <1>4 DEF vars
<1> QED
  BY <1>1, <1>2, <1>3, <1>4, NextStep DEF Step

LEMMA LoadStep == TypeOK /\ NoStaleSocket /\ LoadInv /\ [Next]_vars => LoadInv'
<1> SUFFICES ASSUME TypeOK, NoStaleSocket, LoadInv, [Next]_vars,
                    NEW s \in Starters, Relies(s)'
             PROVE  \E d \in Starters : Came(d)'
  BY DEF LoadInv
<1>1. CASE \E d \in Starters : Came(d)
  BY <1>1, CameStays
<1>2. CASE ~\E d \in Starters : Came(d)
  <2>1. \A t \in Starters : ~Relies(t)
    BY <1>2 DEF LoadInv
  \* Nobody came, so that there is nothing to connect to and nothing in the way.
  <2>2. sock = NoSocket /\ ~Accepts
    BY <1>2, NoSocketAssumption DEF TypeOK, NoStaleSocket, Came, Accepts
  <2> USE <2>1, <2>2 DEF TypeOK, Relies, Goto
  <2>3. ASSUME NEW t \in Starters, Begin(t) \/ Starting(t) PROVE FALSE
    BY <2>3 DEF Begin, Starting, Exists, Notify, Recheck, Connect, RemoveStale, Fork
  <2>4. ASSUME NEW t \in Starters, Running(t) PROVE FALSE
    <3>1. CASE CreateTempFiles(t)
      BY <3>1 DEF CreateTempFiles
    <3>2. CASE Bind(t) \/ Listen(t)
      BY <3>2 DEF Bind, Listen
    <3>3. CASE CleanUp(t)
      BY <3>3, <1>2 DEF CleanUp, Came, Listening, Dead
    <3> QED
      BY <2>4, <3>1, <3>2, <3>3 DEF Running
  <2>5. ASSUME NEW t \in Starters, Finish(t) \/ Abort(t) \/ Killed(t) PROVE FALSE
    BY <2>5 DEF Finish, Abort, Killed
  <2>6. CASE UNCHANGED vars
    BY <2>6 DEF vars
  <2> QED
    BY <2>3, <2>4, <2>5, <2>6, NextStep DEF Step
<1> QED
  BY <1>1, <1>2

\* When the starts are over and no daemon is coming up any more, some daemon has
\* served, unless something failed or was killed: starts never leave the load
\* to each other.
THEOREM LoadHappensHolds == Spec => []LoadHappens
<1>1. Init => LoadInv
  BY DEF Init, LoadInv, Relies
<1>2. TypeOK /\ LoadInv => LoadHappens
  BY DEF TypeOK, LoadInv, LoadHappens, Relies, Came, ComingUp, Listening, Dead, DaemonPhases
<1> QED
  BY <1>1, <1>2, LoadStep, TypeCorrect, NoStaleSocketHolds, PTL DEF Spec

-----------------------------------------------------------------------------
(* If starts keep apart.                                                   *)

\* The socket exists and belongs to a live daemon.
Bound(d) == daemon[d] \in {"listen"} \cup Listening

\* A start that has seen no daemon, or the daemon it forked, before it binds.
Committed(s) ==
  start[s] \in {"recheck", "connect", "remove", "fork"} \/ daemon[s] \in {"mkstemp", "bind"}

\* One at a time; the path leads to whoever is bound; nobody is bound while
\* somebody is committed, and nothing is in the way once it has looked.
ApartInv ==
  /\ \A s, t \in Starters : Busy(s) /\ Busy(t) => s = t
  /\ \A d \in Starters : Bound(d) => sock = d
  /\ \A s, d \in Starters : Committed(s) => ~Bound(d)
  /\ \A s \in Starters :
       start[s] = "fork" \/ daemon[s] \in {"mkstemp", "bind"} => sock = NoSocket
  /\ \A s \in Starters : start[s] # "running" /\ daemon[s] \notin {"losing", "lost"}

LEMMA ApartStep ==
  ASSUME ~Overlap
  PROVE  TypeOK /\ NoStaleSocket /\ ApartInv /\ [Next]_vars => ApartInv'
<1> SUFFICES ASSUME TypeOK, NoStaleSocket, ApartInv, [Next]_vars PROVE ApartInv'
  OBVIOUS
<1> USE NoSocketAssumption
    DEF TypeOK, ApartInv, Busy, Bound, Committed, ComingUp, Listening, Dead, StartOver, Goto
<1>1. ASSUME NEW s \in Starters, Begin(s) PROVE ApartInv'
  BY <1>1 DEF Begin
<1>2. ASSUME NEW s \in Starters, Exists(s) PROVE ApartInv'
  BY <1>2 DEF Exists
<1>3. ASSUME NEW s \in Starters, Notify(s) PROVE ApartInv'
  BY <1>3 DEF Notify, Accepts
<1>4. ASSUME NEW s \in Starters, Recheck(s) PROVE ApartInv'
  BY <1>4 DEF Recheck
<1>5. ASSUME NEW s \in Starters, Connect(s) PROVE ApartInv'
  BY <1>5 DEF Connect, Accepts
<1>6. ASSUME NEW s \in Starters, RemoveStale(s) PROVE ApartInv'
  BY <1>6 DEF RemoveStale
<1>7. ASSUME NEW s \in Starters, Fork(s) PROVE ApartInv'
  BY <1>7 DEF Fork
<1>8. ASSUME NEW d \in Starters, CreateTempFiles(d) PROVE ApartInv'
  BY <1>8 DEF CreateTempFiles
<1>9. ASSUME NEW d \in Starters, Bind(d) PROVE ApartInv'
  BY <1>9 DEF Bind
<1>10. ASSUME NEW d \in Starters, Listen(d) \/ Finish(d) PROVE ApartInv'
  BY <1>10 DEF Listen, Finish
<1>11. ASSUME NEW d \in Starters, CleanUp(d) PROVE ApartInv'
  BY <1>11 DEF CleanUp, Removes
<1>12. ASSUME NEW d \in Starters, Abort(d) \/ Killed(d) PROVE ApartInv'
  BY <1>12 DEF Abort, Killed
<1>13. CASE UNCHANGED vars
  BY <1>13 DEF vars
<1> QED
  BY <1>1, <1>2, <1>3, <1>4, <1>5, <1>6, <1>7, <1>8, <1>9, <1>10, <1>11, <1>12,
     <1>13, NextStep DEF Step, Starting, Running

LEMMA Apart == ASSUME ~Overlap PROVE Spec => []ApartInv
<1>1. Init => ApartInv
  BY DEF Init, ApartInv, Busy, Bound, Committed, ComingUp, Listening, Dead, StartOver
<1> QED
  BY <1>1, ApartStep, TypeCorrect, NoStaleSocketHolds, PTL DEF Spec

\* Starts that keep apart have one daemon at a time, which is where they look
\* for it, and each start is served: by that daemon or by its own.
THEOREM OneDaemon ==
  ASSUME ~Overlap PROVE Spec => [](ServesAtPath /\ NoBystander)
<1>1. ApartInv => ServesAtPath /\ NoBystander
  BY DEF ApartInv, Bound, ServesAtPath, NoBystander
<1> QED
  BY <1>1, Apart, PTL

\* And what they remove as stale is stale.
THEOREM StaleMeansStale == ASSUME ~Overlap PROVE Spec => OnlyStaleRemoved
<1> DEFINE Stale == sock = NoSocket \/ daemon[sock] \in Dead
<1>1. TypeOK /\ NoStaleSocket /\ ApartInv =>
        (\A s \in Starters : RemoveStale(s) => Stale)
  BY DEF TypeOK, NoStaleSocket, ApartInv, RemoveStale, Committed, Bound
<1>2. TypeOK /\ NoStaleSocket /\ ApartInv /\ [Next]_vars =>
        [\A s \in Starters : RemoveStale(s) => Stale]_vars
  BY <1>1
<1> QED
  BY <1>2, Apart, TypeCorrect, NoStaleSocketHolds, PTL DEF Spec, OnlyStaleRemoved

-----------------------------------------------------------------------------
(* If starts keep apart, Launch implements Rendezvous: the successful       *)
(* notify is Join, listen is Serve, the end or the death of a listening     *)
(* daemon is End, and nothing else that is seen happens to a start.         *)

\* What Rendezvous sees of the calls of a start and of its daemon.
Hidden(s) == UNCHANGED <<Busy(s), start[s] = "notified", daemon[s] \in Listening>>

LEMMA HiddenStep ==
  ASSUME \A s \in Starters : Hidden(s) PROVE UNCHANGED Meeting!vars
BY DEF Hidden, Meeting!vars

\* A step of one start and its daemon leaves the others as they are.
LEMMA OthersHidden ==
  ASSUME TypeOK, NEW s \in Starters, Step(s) PROVE \A t \in Starters \ {s} : Hidden(t)
<1> SUFFICES \A t \in Starters \ {s} : start'[t] = start[t] /\ daemon'[t] = daemon[t]
  BY DEF Hidden, Busy
<1> USE DEF TypeOK, Goto
<1>1. CASE Begin(s) \/ Starting(s)
  BY <1>1 DEF Begin, Starting, Exists, Notify, Recheck, Connect, RemoveStale, Fork
<1>2. CASE Running(s)
  BY <1>2 DEF Running, CreateTempFiles, Bind, Listen, CleanUp
<1>3. CASE Finish(s) \/ Abort(s) \/ Killed(s)
  BY <1>3 DEF Finish, Abort, Killed
<1> QED
  BY <1>1, <1>2, <1>3 DEF Step

LEMMA MeetingInit == Init => Meeting!Init
  BY DEF Init, Meeting!Init, Busy, StartOver, ComingUp, Listening, Dead

\* A step that is not seen of its own start either.
LEMMA HiddenCalls ==
  ASSUME TypeOK, ApartInv, NEW s \in Starters,
         \/ Exists(s) \/ Recheck(s) \/ Connect(s) \/ RemoveStale(s) \/ Finish(s)
         \/ Notify(s) /\ ~Accepts
         \/ Bind(s)
         \/ CreateTempFiles(s) /\ daemon'[s] = "bind"
         \/ Fork(s) /\ daemon'[s] = "mkstemp"
         \/ Begin(s) /\ start'[s] = "sync"
         \/ (Killed(s) \/ Abort(s)) /\ daemon[s] = "losing"
         \/ CleanUp(s) /\ daemon[s] = "losing"
  PROVE  Hidden(s)
<1> USE DEF TypeOK, Goto, Hidden, Busy, StartOver, ComingUp, Listening, Dead
<1>1. CASE Exists(s) \/ Recheck(s) \/ RemoveStale(s) \/ (Notify(s) /\ ~Accepts)
  BY <1>1 DEF Exists, Recheck, RemoveStale, Notify
<1>2. CASE Connect(s)
  <2>1. ~Accepts
    BY <1>2, NoSocketAssumption DEF Connect, Accepts, ApartInv, Committed, Bound
  <2> QED
    BY <1>2, <2>1 DEF Connect
<1>3. CASE Bind(s)
  <2>1. sock = NoSocket
    BY <1>3 DEF Bind, ApartInv
  <2> QED
    BY <1>3, <2>1 DEF Bind
<1>4. CASE Finish(s)
  BY <1>4 DEF Finish
<1>5. CASE CreateTempFiles(s) /\ daemon'[s] = "bind"
  BY <1>5 DEF CreateTempFiles
<1>6. CASE Fork(s) /\ daemon'[s] = "mkstemp"
  BY <1>6 DEF Fork
<1>7. CASE Begin(s) /\ start'[s] = "sync"
  BY <1>7 DEF Begin
<1>8. CASE (Abort(s) \/ Killed(s) \/ CleanUp(s)) /\ daemon[s] = "losing"
  BY <1>8 DEF ApartInv
<1> QED
  BY <1>1, <1>2, <1>3, <1>4, <1>5, <1>6, <1>7, <1>8

\* Where a start asks, Rendezvous sees that it is the only one.
LEMMA Alone ==
  ASSUME ApartInv, NEW s \in Starters, Busy(s) PROVE {t \in Starters : Busy(t)} = {s}
BY DEF ApartInv

\* Nobody serves once a start has seen that, until its own daemon listens.
LEMMA NobodyServes ==
  ASSUME TypeOK, ApartInv, NEW s \in Starters,
         Committed(s) \/ daemon[s] = "listen"
  PROVE  {d \in Starters : daemon[d] \in Listening} = {}
<1> SUFFICES ASSUME NEW d \in Starters, daemon[d] \in Listening PROVE FALSE
  OBVIOUS
<1>1. CASE Committed(s)
  BY <1>1 DEF ApartInv, Bound
<1>2. CASE daemon[s] = "listen"
  BY <1>2 DEF ApartInv, Bound, Listening, Dead
<1> QED
  BY <1>1, <1>2

LEMMA AskStep ==
  ASSUME ~Overlap, TypeOK, ApartInv, NEW s \in Starters, Begin(s), start'[s] = "exists"
  PROVE  Meeting!Ask(s)
<1> USE DEF TypeOK, Goto, Busy, StartOver, ComingUp, Listening, Dead
<1>1. \A t \in Starters : ~Busy(t)
  BY DEF Begin
<1>2. Busy(s)' /\ UNCHANGED <<start[s] = "notified", daemon[s] \in Listening>>
  BY DEF Begin
<1>3. daemon[s] \notin Listening /\ start[s] # "notified"
  BY DEF Begin
<1>4. \A t \in Starters \ {s} : Hidden(t)
  BY OthersHidden DEF Step
<1> QED
  BY <1>1, <1>2, <1>3, <1>4 DEF Hidden, Meeting!Ask

\* The start or its daemon stops asking, and nothing else changes but as said.
LEMMA AnswerStep ==
  ASSUME TypeOK, ApartInv, NEW s \in Starters, Step(s), Busy(s), ~Busy(s)'
  PROVE  /\ Meeting!Answered(s)
         /\ UNCHANGED (start[s] = "notified") =>
              UNCHANGED {t \in Starters : start[t] = "notified"}
         /\ UNCHANGED (daemon[s] \in Listening) =>
              UNCHANGED {d \in Starters : daemon[d] \in Listening}
BY Alone, OthersHidden DEF Hidden, Meeting!Answered

LEMMA JoinStep ==
  ASSUME TypeOK, ApartInv, NEW s \in Starters, Notify(s), Accepts
  PROVE  Meeting!Join(s)
<1> USE DEF TypeOK, Goto, Notify
<1>1. Busy(s) /\ ~Busy(s)'
  BY DEF Busy, StartOver, ComingUp
<1>2. start'[s] = "notified" /\ start[s] # "notified" /\ daemon' = daemon
  OBVIOUS
<1>3. {t \in Starters : start'[t] = "notified"} = {t \in Starters : start[t] = "notified"} \cup {s}
  BY <1>2
<1>4. {d \in Starters : daemon[d] \in Listening} # {}
  BY NoSocketAssumption DEF Accepts
<1> QED
  BY <1>1, <1>2, <1>3, <1>4, AnswerStep DEF Step, Starting, Meeting!Join

LEMMA ServeStep ==
  ASSUME TypeOK, ApartInv, NEW s \in Starters, Listen(s)
  PROVE  Meeting!Serve(s)
<1> USE DEF TypeOK, Listen, ComingUp, Listening, Dead
<1>1. Busy(s) /\ ~Busy(s)'
  BY DEF Busy, StartOver
<1>2. {d \in Starters : daemon[d] \in Listening} = {}
  BY NobodyServes
<1>3. {d \in Starters : daemon'[d] \in Listening} = {s}
  BY <1>2
<1>4. start' = start
  OBVIOUS
<1> QED
  BY <1>1, <1>2, <1>3, <1>4, AnswerStep DEF Step, Running, Meeting!Serve

\* The fork or the temporary files fail, or the daemon is killed on its way up.
LEMMA FailStep ==
  ASSUME TypeOK, ApartInv, NEW s \in Starters,
         \/ Fork(s) /\ daemon'[s] # "mkstemp"
         \/ CreateTempFiles(s) /\ daemon'[s] # "bind"
         \/ (Killed(s) \/ Abort(s)) /\ daemon[s] \in ComingUp
  PROVE  Meeting!Fail(s)
<1> USE DEF TypeOK, Goto, ComingUp, Listening, Dead
<1>1. Busy(s) /\ ~Busy(s)' /\ UNCHANGED <<start[s] = "notified", daemon[s] \in Listening>>
  BY DEF Busy, StartOver, Fork, CreateTempFiles, Abort, Killed
<1>2. {d \in Starters : daemon[d] \in Listening} = {}
  BY NobodyServes DEF Committed, Fork, CreateTempFiles, Abort, Killed
<1>3. Faults # {}
  BY DEF Fork, CreateTempFiles, Abort, Killed
<1>4. Step(s)
  BY DEF Step, Starting, Running
<1> QED
  BY <1>1, <1>2, <1>3, <1>4, AnswerStep DEF Meeting!Fail

LEMMA EndStep ==
  ASSUME TypeOK, ApartInv, NEW s \in Starters,
         daemon[s] \in Listening, CleanUp(s) \/ Abort(s) \/ Killed(s)
  PROVE  Meeting!End
<1> USE DEF TypeOK, Listening, Dead
<1>1. {d \in Starters : daemon[d] \in Listening} = {s}
  BY DEF ApartInv, Bound
<1>2. /\ start' = start
      /\ daemon'[s] \notin Listening \cup ComingUp
      /\ \A t \in Starters \ {s} : daemon'[t] = daemon[t]
  BY DEF CleanUp, Abort, Killed, ComingUp
<1>3. {d \in Starters : daemon'[d] \in Listening} = {}
  BY <1>1, <1>2
<1>4. \A t \in Starters : Busy(t)' <=> Busy(t)
  BY <1>2 DEF Busy, ComingUp
<1> QED
  BY <1>1, <1>2, <1>3, <1>4 DEF Meeting!End

LEMMA MeetingStep ==
  ASSUME ~Overlap
  PROVE  TypeOK /\ ApartInv /\ [Next]_vars => [Meeting!Next]_(Meeting!vars)
<1> SUFFICES ASSUME TypeOK, ApartInv, [Next]_vars PROVE [Meeting!Next]_(Meeting!vars)
  OBVIOUS
<1>1. ASSUME NEW s \in Starters, Step(s), Hidden(s) PROVE UNCHANGED Meeting!vars
  BY <1>1, OthersHidden, HiddenStep
<1>2. ASSUME NEW s \in Starters, Begin(s) PROVE [Meeting!Next]_(Meeting!vars)
  <2>1. start'[s] \in {"exists", "sync"}
    BY <1>2 DEF Begin, Goto, TypeOK
  <2> QED
    BY <1>1, <1>2, <2>1, AskStep, HiddenCalls DEF Step, Meeting!Next
<1>3. ASSUME NEW s \in Starters, Starting(s) PROVE [Meeting!Next]_(Meeting!vars)
  <2>1. CASE Notify(s) /\ Accepts
    BY <2>1, JoinStep DEF Meeting!Next
  <2>2. CASE Fork(s) /\ daemon'[s] # "mkstemp"
    BY <2>2, FailStep DEF Meeting!Next
  <2> QED
    BY <1>1, <1>3, <2>1, <2>2, HiddenCalls DEF Step, Starting
<1>4. ASSUME NEW s \in Starters, Running(s) PROVE [Meeting!Next]_(Meeting!vars)
  <2>1. CASE Listen(s)
    BY <2>1, ServeStep DEF Meeting!Next
  <2>2. CASE CreateTempFiles(s) /\ daemon'[s] # "bind"
    BY <2>2, FailStep DEF Meeting!Next
  <2>3. CASE CleanUp(s) /\ daemon[s] = "cleanup"
    BY <2>3, EndStep DEF Listening, Dead, Meeting!Next
  <2>4. CleanUp(s) => daemon[s] \in {"cleanup", "losing"}
    BY DEF CleanUp
  <2> QED
    BY <1>1, <1>4, <2>1, <2>2, <2>3, <2>4, HiddenCalls DEF Step, Running
<1>5. ASSUME NEW s \in Starters, Finish(s) PROVE [Meeting!Next]_(Meeting!vars)
  BY <1>1, <1>5, HiddenCalls DEF Step
<1>6. ASSUME NEW s \in Starters, Abort(s) \/ Killed(s) PROVE [Meeting!Next]_(Meeting!vars)
  <2>1. daemon[s] \in ComingUp \cup Listening \cup {"losing"}
    BY <1>6 DEF Abort, Killed, Listening
  <2> QED
    BY <1>1, <1>6, <2>1, FailStep, EndStep, HiddenCalls DEF Step, Meeting!Next
<1>7. CASE UNCHANGED vars
  BY <1>7 DEF vars, Meeting!vars, Busy
<1> QED
  BY <1>2, <1>3, <1>4, <1>5, <1>6, <1>7, NextStep DEF Step

\* Starts that keep apart meet in one step: each joins the daemon that serves or
\* serves, although nothing locks the path and any of these processes may be killed
\* or leave by process::exit between any two calls.
THEOREM RendezvousImplemented == ASSUME ~Overlap PROVE Spec => ImplementsRendezvous
<1>1. Spec => Meeting!Init /\ [][Meeting!Next]_(Meeting!vars)
  BY MeetingInit, MeetingStep, Apart, TypeCorrect, PTL DEF Spec
<1> QED
  BY <1>1 DEF ImplementsRendezvous, Meeting!Spec

-----------------------------------------------------------------------------
(* Every start is served.  The prover has no rules for ENABLED: what it    *)
(* has to know of the guards, that no system call here waits for anybody,  *)
(* is an hypothesis of the theorem.                                        *)

Seeking == {"exists", "notify", "recheck", "connect", "remove", "fork"}

NeverBlocks(s) ==
  /\ start[s] \in Seeking => ENABLED <<Starting(s)>>_vars
  /\ daemon[s] \in ComingUp => ENABLED <<Running(s)>>_vars
NobodyBlocks == \A s \in Starters : NeverBlocks(s)

UnderWay(s) == start[s] \in Seeking \/ daemon[s] \in ComingUp

Served(s) ==
  \/ start[s] \in {"notified", "failed"}
  \/ daemon[s] \in Listening \cup Dead \cup {"exited", "failed"}

\* How many calls a start and its daemon are away from serving.
Calls(s) ==
  IF start[s] = "exists" THEN 9
  ELSE IF start[s] = "notify" THEN 8
  ELSE IF start[s] = "recheck" THEN 7
  ELSE IF start[s] = "connect" THEN 6
  ELSE IF start[s] = "remove" THEN 5
  ELSE IF start[s] = "fork" THEN 4
  ELSE IF daemon[s] = "mkstemp" THEN 3
  ELSE IF daemon[s] = "bind" THEN 2 ELSE 1

\* Each call of its own leads closer, the calls of others and their failures do
\* not lead away, and the daemon is never refused its path.
LEMMA CallLeadsCloser ==
  ASSUME TypeOK, ApartInv, NEW s \in Starters, UnderWay(s), Starting(s) \/ Running(s)
  PROVE  Served(s)' \/ (UnderWay(s)' /\ Calls(s)' < Calls(s))
<1> USE DEF UnderWay, Served, Seeking, Calls, Goto, TypeOK, ComingUp, Listening, Dead
<1>1. CASE Exists(s) \/ Notify(s)
  BY <1>1 DEF Exists, Notify
<1>2. CASE Recheck(s)
  BY <1>2 DEF Recheck
<1>3. CASE Connect(s)
  <2>1. ~Accepts
    BY <1>3, NoSocketAssumption DEF Connect, Accepts, ApartInv, Committed, Bound
  <2> QED
    BY <1>3, <2>1 DEF Connect
<1>4. CASE RemoveStale(s)
  BY <1>4 DEF RemoveStale
<1>5. CASE Fork(s)
  BY <1>5 DEF Fork
<1>6. CASE CreateTempFiles(s)
  BY <1>6 DEF CreateTempFiles
<1>7. CASE Bind(s)
  <2>1. sock = NoSocket
    BY <1>7 DEF Bind, ApartInv
  <2> QED
    BY <1>7, <2>1 DEF Bind
<1>8. CASE Listen(s)
  BY <1>8 DEF Listen
<1>9. CASE CleanUp(s)
  BY <1>9 DEF CleanUp, StartOver
<1> QED
  BY <1>1, <1>2, <1>3, <1>4, <1>5, <1>6, <1>7, <1>8, <1>9 DEF Starting, Running

LEMMA OthersKeepCalls ==
  ASSUME TypeOK, NEW s \in Starters, UnderWay(s), [Next]_vars, ~(Starting(s) \/ Running(s))
  PROVE  Served(s)' \/ (UnderWay(s)' /\ Calls(s)' = Calls(s))
<1> USE DEF UnderWay, Served, Seeking, Calls, Goto, TypeOK, ComingUp, Listening, Dead
<1>1. CASE UNCHANGED <<start[s], daemon[s]>>
  BY <1>1
<1>2. CASE Abort(s) \/ Killed(s)
  BY <1>2 DEF Abort, Killed
<1>3. ASSUME NEW t \in Starters, t # s, Begin(t) \/ Starting(t)
      PROVE  UNCHANGED <<start[s], daemon[s]>>
  BY <1>3 DEF Begin, Starting, Exists, Notify, Recheck, Connect, RemoveStale, Fork
<1>4. ASSUME NEW t \in Starters, t # s, Running(t) \/ Finish(t) \/ Abort(t) \/ Killed(t)
      PROVE  UNCHANGED <<start[s], daemon[s]>>
  BY <1>4 DEF Running, CreateTempFiles, Bind, Listen, CleanUp, Finish, Abort, Killed
<1>5. ~Begin(s) /\ ~Finish(s)
  BY DEF Begin, Finish
<1> QED
  BY <1>1, <1>2, <1>3, <1>4, <1>5, NextStep DEF Step, vars

Nearer(s, n) == UnderWay(s) /\ Calls(s) < n
ComesNearer(s, m, n) == Nearer(s, m) ~> Served(s) \/ Nearer(s, n)

LEMMA Closer ==
  ASSUME ~Overlap
  PROVE  \A s \in Starters, m, n \in Nat :
           m = n + 1 => (FairSpec /\ []NobodyBlocks => ComesNearer(s, m, n))
<1> TAKE s \in Starters, m, n \in Nat
<1> HAVE m = n + 1
<1> DEFINE P == UnderWay(s) /\ Calls(s) = n
           Q == Served(s) \/ Nearer(s, n)
<1> USE DEF Nearer
<1>1. Calls(s) \in Nat /\ (P /\ n > 3 => start[s] \in Seeking)
                       /\ (P /\ ~(n > 3) => daemon[s] \in ComingUp)
  BY DEF Calls, UnderWay, Seeking
<1>2. TypeOK /\ ApartInv /\ P /\ [Next]_vars => P' \/ Q'
  BY <1>1, CallLeadsCloser, OthersKeepCalls
<1>3. TypeOK /\ ApartInv /\ P /\ <<Starting(s) \/ Running(s)>>_vars => Q'
  BY <1>1, CallLeadsCloser
<1>4. Nearer(s, m) => P \/ Q
  BY <1>1
<1>5. FairSpec => Spec /\ Fairness(s)
  BY DEF FairSpec
<1>6. CASE n > 3
  <2>1. TypeOK /\ ApartInv /\ P /\ <<Starting(s)>>_vars => Q'
    BY <1>3
  <2>2. NobodyBlocks /\ P => ENABLED <<Starting(s)>>_vars
    BY <1>1, <1>6 DEF NobodyBlocks, NeverBlocks
  <2> HIDE DEF P, Q
  <2>3. FairSpec /\ []NobodyBlocks => (Nearer(s, m) ~> Q)
    BY <1>2, <1>4, <1>5, <2>1, <2>2, Apart, TypeCorrect, PTL DEF Spec, Fairness
  <2> QED
    BY <2>3 DEF Q, ComesNearer
<1>7. CASE ~(n > 3)
  <2>1. TypeOK /\ ApartInv /\ P /\ <<Running(s)>>_vars => Q'
    BY <1>3
  <2>2. NobodyBlocks /\ P => ENABLED <<Running(s)>>_vars
    BY <1>1, <1>7 DEF NobodyBlocks, NeverBlocks
  <2> HIDE DEF P, Q
  <2>3. FairSpec /\ []NobodyBlocks => (Nearer(s, m) ~> Q)
    BY <1>2, <1>4, <1>5, <2>1, <2>2, Apart, TypeCorrect, PTL DEF Spec, Fairness
  <2> QED
    BY <2>3 DEF Q, ComesNearer
<1> QED
  BY <1>6, <1>7

\* A start that keeps apart from the others gets its shell served whatever an
\* earlier daemon left behind: it joins a daemon, or its own comes up, unless one
\* of its own calls fails or its daemon comes to a sudden end.
THEOREM EveryStartServedHolds ==
  ASSUME ~Overlap PROVE FairSpec /\ []NobodyBlocks => EveryStartServed
<1>1. ASSUME NEW s \in Starters
      PROVE  FairSpec /\ []NobodyBlocks =>
               (start[s] = "exists" ~>
                  start[s] \in {"notified", "failed"}
                  \/ daemon[s] \in Listening \cup Dead \cup {"exited", "failed"})
  <2>1. FairSpec /\ []NobodyBlocks =>
          /\ ComesNearer(s, 10, 9) /\ ComesNearer(s, 9, 8) /\ ComesNearer(s, 8, 7)
          /\ ComesNearer(s, 7, 6) /\ ComesNearer(s, 6, 5) /\ ComesNearer(s, 5, 4)
          /\ ComesNearer(s, 4, 3) /\ ComesNearer(s, 3, 2) /\ ComesNearer(s, 2, 1)
    BY Closer
  <2>2. (start[s] = "exists" => Nearer(s, 10)) /\ ~Nearer(s, 1)
    BY DEF Nearer, UnderWay, Seeking, Calls
  <2> QED
    BY <2>1, <2>2, PTL DEF ComesNearer, Served
<1> QED
  BY <1>1 DEF EveryStartServed

\* So that Launch implements all of Rendezvous: whoever asks is answered.
THEOREM RendezvousAnswers ==
  ASSUME ~Overlap
  PROVE  FairSpec /\ []NobodyBlocks => ImplementsRendezvous /\ Meeting!Answers
<1>1. ASSUME NEW s \in Starters
      PROVE  FairSpec /\ []NobodyBlocks => Meeting!Answer(s)
  <2> DEFINE Asks == s \in {t \in Starters : Busy(t)}
             Answered == s \notin {t \in Starters : Busy(t)}
  <2>1. FairSpec /\ []NobodyBlocks =>
          /\ ComesNearer(s, 10, 9) /\ ComesNearer(s, 9, 8) /\ ComesNearer(s, 8, 7)
          /\ ComesNearer(s, 7, 6) /\ ComesNearer(s, 6, 5) /\ ComesNearer(s, 5, 4)
          /\ ComesNearer(s, 4, 3) /\ ComesNearer(s, 3, 2) /\ ComesNearer(s, 2, 1)
    BY Closer
  <2>2. TypeOK /\ Asks => Nearer(s, 10)
    BY DEF TypeOK, StartPhases, StartOver, Busy, Nearer, UnderWay, Seeking, Calls
  <2>3. ~Nearer(s, 1) /\ (TypeOK /\ Served(s) => Answered)
    BY DEF Nearer, UnderWay, Seeking, Calls, TypeOK, Served, Busy, StartOver, ComingUp, Listening, Dead
  <2> QED
    BY <2>1, <2>2, <2>3, TypeCorrect, PTL DEF ComesNearer, FairSpec, Meeting!Answer
<1>2. FairSpec /\ []NobodyBlocks => Meeting!Answers
  BY <1>1 DEF Meeting!Answers
<1> QED
  BY <1>2, RendezvousImplemented DEF FairSpec
=============================================================================
