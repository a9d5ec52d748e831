----------------------------- MODULE WatchProofs -----------------------------
(***************************************************************************)
(* Theorems about module Watch, for any amount of output, any number of    *)
(* resizes and any faults: what the loop keeps true, and that it ends,     *)
(* after an interrupt and after the daemon.                                *)
(***************************************************************************)
EXTENDS Watch, TLAPS

(***************************************************************************)
(* The type invariant in parts: the process, and what is counted.          *)
(***************************************************************************)
ProgTyped ==
  /\ pc \in Phases
  /\ running \in BOOLEAN /\ winch \in BOOLEAN /\ handler \in BOOLEAN
  /\ pty \in BOOLEAN /\ guard \in BOOLEAN /\ raw \in BOOLEAN
  /\ conn \in {"none", "backlog", "accepted", "lost"}
  /\ ended \in {"no", "eof", "reset", "other"}
  /\ told \in BOOLEAN /\ missed \in BOOLEAN

CountsTyped ==
  /\ daemon \in {"loading", "published", "unlinked", "gone"}
  /\ written \in 0 .. MaxChunks /\ shown \in 0 .. written
  /\ pane \in 1 .. MaxResizes + 1 /\ size \in 0 .. pane

(***************************************************************************)
(* A loop that ended because the daemon did has read the log when nobody   *)
(* could write to it any more.                                             *)
(***************************************************************************)
EndInv ==
  /\ ended # "no" => pc \in {"left", "drop", "exited"}
  /\ ended = "eof" => daemon = "gone" /\ shown = written

(***************************************************************************)
(* A raw terminal has a guard until main is over.                          *)
(***************************************************************************)
RawInv ==
  /\ raw /\ pc # "exited" => guard
  /\ pc = "exited" /\ ended # "no" => ~raw

(***************************************************************************)
(* With the PTY in hand, there is a handler by the time of raw mode.       *)
(***************************************************************************)
SizeInv ==
  /\ pc \in {"open", "connect", "await"} => ~pty
  /\ pty => handler \/ pc \in {"propagate", "handler", "exited"}
  /\ SizeTracked

Inv == ProgTyped /\ CountsTyped /\ EndInv /\ RawInv /\ SizeInv

USE TerminalAssumption, BoundsAssumption, FaultsAssumption

-----------------------------------------------------------------------------

LEMMA InitInv == Init => Inv
<1> SUFFICES ASSUME Init PROVE Inv
  OBVIOUS
<1>1. ProgTyped
  BY DEF Init, ProgTyped, Phases
<1>2. CountsTyped
  <2>1. /\ daemon = "loading" /\ written \in 0 .. MaxChunks
        /\ shown = 0 /\ pane = 1 /\ size = 0
    BY DEF Init
  <2>2. 0 \in 0 .. written /\ 1 \in 1 .. MaxResizes + 1 /\ 0 \in 0 .. 1
    BY <2>1
  <2>3. QED BY <2>1, <2>2 DEF CountsTyped
<1>3. EndInv /\ RawInv /\ SizeInv
  BY DEF Init, EndInv, RawInv, SizeInv, SizeTracked
<1>4. QED BY <1>1, <1>2, <1>3 DEF Inv

LEMMA OutsideKeeps == ASSUME Inv, Outside PROVE Inv'
<1> USE DEF Inv
<1>1. CASE DaemonWrites
  <2>1. /\ daemon = "loading" /\ written < MaxChunks /\ written' = written + 1
        /\ UNCHANGED <<pc, running, winch, handler, pty, guard, conn, shown, ended,
                       raw, pane, size, daemon, told, missed>>
    BY <1>1 DEF DaemonWrites, progVars, termVars
  <2>2. ProgTyped'
    BY <2>1 DEF ProgTyped
  <2>3. CountsTyped'
    <3>1. written + 1 \in 0 .. MaxChunks /\ shown \in 0 .. written + 1
      BY <2>1 DEF CountsTyped
    <3>2. QED BY <2>1, <3>1 DEF CountsTyped
  <2>4. EndInv' /\ RawInv' /\ SizeInv'
    BY <2>1 DEF EndInv, RawInv, SizeInv, SizeTracked
  <2>5. QED BY <2>2, <2>3, <2>4
<1>2. CASE DaemonAccepts
  <2>1. /\ conn' = "accepted"
        /\ UNCHANGED <<pc, running, winch, handler, pty, guard, shown, ended, raw,
                       pane, size, daemon, written, told, missed>>
    BY <1>2 DEF DaemonAccepts, termVars, daemonVars
  <2>2. ProgTyped'
    BY <2>1 DEF ProgTyped
  <2>3. EndInv' /\ RawInv' /\ SizeInv'
    BY <2>1 DEF EndInv, RawInv, SizeInv, SizeTracked
  <2>4. CountsTyped'
    BY <2>1 DEF CountsTyped
  <2>5. QED BY <2>2, <2>3, <2>4
<1>3. CASE DaemonEnds
  <2>1. /\ daemon' \in {"published", "unlinked", "gone"} /\ daemon # "gone"
        /\ UNCHANGED <<pc, running, winch, handler, pty, guard, conn, shown, ended,
                       raw, pane, size, written, told, missed>>
    BY <1>3 DEF DaemonEnds, progVars, termVars
  <2>2. ProgTyped' /\ RawInv' /\ SizeInv'
    BY <2>1 DEF ProgTyped, RawInv, SizeInv, SizeTracked
  <2>3. CountsTyped' /\ EndInv'
    BY <2>1 DEF CountsTyped, EndInv
  <2>4. QED BY <2>2, <2>3
<1>4. CASE Interrupt
  <2>1. /\ running' = FALSE
        /\ UNCHANGED <<pc, winch, handler, pty, guard, conn, shown, ended, raw, pane,
                       size, daemon, written, told, missed>>
    BY <1>4 DEF Interrupt, termVars, daemonVars
  <2>2. ProgTyped'
    BY <2>1 DEF ProgTyped
  <2>3. EndInv' /\ RawInv' /\ SizeInv'
    BY <2>1 DEF EndInv, RawInv, SizeInv, SizeTracked
  <2>4. CountsTyped'
    BY <2>1 DEF CountsTyped
  <2>5. QED BY <2>2, <2>3, <2>4
<1>5. CASE Resize
  <2>1. ProgTyped' /\ CountsTyped'
    BY <1>5 DEF Resize, daemonVars, ProgTyped, CountsTyped
  <2>2. EndInv' /\ RawInv'
    BY <1>5 DEF Resize, daemonVars, EndInv, RawInv
  <2>3. SizeInv'
    BY <1>5 DEF Resize, ProgTyped, SizeInv, SizeTracked
  <2>4. QED BY <2>1, <2>2, <2>3
<1>6. QED BY <1>1, <1>2, <1>3, <1>4, <1>5 DEF Outside

LEMMA SetupKeeps == ASSUME Inv, Setup PROVE Inv'
<1> USE DEF Inv, termVars, daemonVars, Abort
<1>1. CASE Open
  <2>1. ProgTyped' /\ CountsTyped'
    <3>1. ProgTyped'
      BY <1>1 DEF Open, ProgTyped, Phases
    <3>2. CountsTyped'
      BY <1>1 DEF Open, CountsTyped
    <3>3. QED BY <3>1, <3>2
  <2>2. EndInv' /\ RawInv'
    BY <1>1 DEF Open, ProgTyped, CountsTyped, EndInv, RawInv
  <2>3. SizeInv'
    BY <1>1 DEF Open, ProgTyped, CountsTyped, SizeInv, SizeTracked
  <2>4. QED BY <2>1, <2>2, <2>3
<1>2. CASE Connect
  <2>1. ProgTyped' /\ CountsTyped'
    <3>1. ProgTyped'
      BY <1>2 DEF Connect, ProgTyped, Phases
    <3>2. CountsTyped'
      BY <1>2 DEF Connect, CountsTyped
    <3>3. QED BY <3>1, <3>2
  <2>2. EndInv' /\ RawInv'
    BY <1>2 DEF Connect, ProgTyped, CountsTyped, EndInv, RawInv
  <2>3. SizeInv'
    BY <1>2 DEF Connect, ProgTyped, CountsTyped, SizeInv, SizeTracked
  <2>4. QED BY <2>1, <2>2, <2>3
<1>3. CASE Await
  <2>1. ProgTyped' /\ CountsTyped'
    <3>1. ProgTyped'
      <4>1. /\ pc' \in {"propagate", "monitor"} /\ (pty' = TRUE \/ pty' = pty)
            /\ UNCHANGED <<running, winch, handler, guard, conn, ended, raw, told,
                           missed>>
        BY <1>3 DEF Await
      <4>2. pty' \in BOOLEAN
        BY <4>1, Zenon DEF ProgTyped
      <4>3. pc' \in Phases
        BY <4>1 DEF Phases
      <4>4. QED BY <4>1, <4>2, <4>3 DEF ProgTyped
    <3>2. CountsTyped'
      BY <1>3 DEF Await, CountsTyped
    <3>3. QED BY <3>1, <3>2
  <2>2. EndInv' /\ RawInv'
    BY <1>3 DEF Await, ProgTyped, CountsTyped, EndInv, RawInv
  <2>3. SizeInv'
    BY <1>3 DEF Await, ProgTyped, CountsTyped, SizeInv, SizeTracked
  <2>4. QED BY <2>1, <2>2, <2>3
<1>4. CASE PropagateFirst
  <2>1. ProgTyped' /\ CountsTyped'
    <3>1. ProgTyped'
      <4>1. pc' \in Phases /\ missed' \in BOOLEAN
        BY <1>4 DEF PropagateFirst, PropagateWinsize, ProgTyped, Phases
      <4>2. QED BY <1>4, <4>1 DEF PropagateFirst, ProgTyped
    <3>2. CountsTyped'
      BY <1>4 DEF PropagateFirst, PropagateWinsize, CountsTyped
    <3>3. QED BY <3>1, <3>2
  <2>2. EndInv' /\ RawInv'
    BY <1>4 DEF PropagateFirst, ProgTyped, CountsTyped, EndInv, RawInv
  <2>3. SizeInv'
    BY <1>4 DEF PropagateFirst, PropagateWinsize, ProgTyped, CountsTyped, SizeInv,
                  SizeTracked
  <2>4. QED BY <2>1, <2>2, <2>3
<1>5. CASE InstallHandler
  <2>1. ProgTyped' /\ CountsTyped'
    <3>1. ProgTyped'
      BY <1>5 DEF InstallHandler, ProgTyped, Phases
    <3>2. CountsTyped'
      BY <1>5 DEF InstallHandler, CountsTyped
    <3>3. QED BY <3>1, <3>2
  <2>2. EndInv' /\ RawInv'
    BY <1>5 DEF InstallHandler, ProgTyped, CountsTyped, EndInv, RawInv
  <2>3. SizeInv'
    BY <1>5 DEF InstallHandler, ProgTyped, CountsTyped, SizeInv, SizeTracked
  <2>4. QED BY <2>1, <2>2, <2>3
<1>6. CASE EnterRaw
  <2>1. ProgTyped' /\ CountsTyped'
    <3>1. ProgTyped'
      <4>1. pc' \in Phases /\ raw' \in BOOLEAN /\ guard' \in BOOLEAN
        BY <1>6 DEF EnterRaw, ProgTyped, Phases
      <4>2. QED BY <1>6, <4>1 DEF EnterRaw, ProgTyped
    <3>2. CountsTyped'
      BY <1>6 DEF EnterRaw, CountsTyped
    <3>3. QED BY <3>1, <3>2
  <2>2. EndInv' /\ RawInv'
    BY <1>6 DEF EnterRaw, ProgTyped, CountsTyped, EndInv, RawInv
  <2>3. SizeInv'
    BY <1>6 DEF EnterRaw, ProgTyped, CountsTyped, SizeInv, SizeTracked
  <2>4. QED BY <2>1, <2>2, <2>3
<1>7. CASE Monitor
  <2>1. ProgTyped' /\ CountsTyped'
    <3>1. ProgTyped'
      BY <1>7 DEF Monitor, ProgTyped, Phases
    <3>2. CountsTyped'
      BY <1>7 DEF Monitor, CountsTyped
    <3>3. QED BY <3>1, <3>2
  <2>2. EndInv' /\ RawInv'
    BY <1>7 DEF Monitor, ProgTyped, CountsTyped, EndInv, RawInv
  <2>3. SizeInv'
    BY <1>7 DEF Monitor, ProgTyped, CountsTyped, SizeInv, SizeTracked
  <2>4. QED BY <2>1, <2>2, <2>3
<1>8. QED BY <1>1, <1>2, <1>3, <1>4, <1>5, <1>6, <1>7 DEF Setup

LEMMA LoopingKeeps == ASSUME Inv, Looping PROVE Inv'
<1> USE DEF Inv, termVars, daemonVars
<1>1. CASE Loop
  <2>1. ProgTyped' /\ CountsTyped'
    <3>1. ProgTyped'
      <4>1. pc' \in Phases /\ winch' \in BOOLEAN
        BY <1>1 DEF Loop, ProgTyped, Phases
      <4>2. ended' \in {"no", "eof", "reset", "other"}
        BY <1>1 DEF Loop, ProgTyped
      <4>3. QED BY <1>1, <4>1, <4>2 DEF Loop, ProgTyped
    <3>2. CountsTyped'
      BY <1>1 DEF Loop, CountsTyped
    <3>3. QED BY <3>1, <3>2
  <2>2. EndInv' /\ RawInv'
    BY <1>1 DEF Loop, ProgTyped, CountsTyped, EndInv, RawInv
  <2>3. SizeInv'
    BY <1>1 DEF Loop, ProgTyped, CountsTyped, SizeInv, SizeTracked
  <2>4. QED BY <2>1, <2>2, <2>3
<1>2. CASE Propagate
  <2>1. ProgTyped' /\ CountsTyped'
    <3>1. ProgTyped'
      <4>1. pc' \in Phases /\ missed' \in BOOLEAN
        BY <1>2 DEF Propagate, PropagateWinsize, ProgTyped, Phases
      <4>2. QED BY <1>2, <4>1 DEF Propagate, ProgTyped
    <3>2. CountsTyped'
      BY <1>2 DEF Propagate, PropagateWinsize, CountsTyped
    <3>3. QED BY <3>1, <3>2
  <2>2. EndInv' /\ RawInv'
    BY <1>2 DEF Propagate, ProgTyped, CountsTyped, EndInv, RawInv
  <2>3. SizeInv'
    BY <1>2 DEF Propagate, PropagateWinsize, ProgTyped, CountsTyped, SizeInv,
                  SizeTracked
  <2>4. QED BY <2>1, <2>2, <2>3
<1>3. CASE Select
  <2>1. ProgTyped' /\ CountsTyped'
    <3>1. ProgTyped'
      BY <1>3 DEF Select, ProgTyped, Phases
    <3>2. CountsTyped'
      BY <1>3 DEF Select, CountsTyped
    <3>3. QED BY <3>1, <3>2
  <2>2. EndInv' /\ RawInv'
    BY <1>3 DEF Select, ProgTyped, CountsTyped, EndInv, RawInv
  <2>3. SizeInv'
    BY <1>3 DEF Select, ProgTyped, CountsTyped, SizeInv, SizeTracked
  <2>4. QED BY <2>1, <2>2, <2>3
<1>4. CASE Socket
  <2>1. ProgTyped' /\ CountsTyped'
    <3>1. ProgTyped'
      BY <1>4 DEF Socket, ProgTyped, Phases
    <3>2. CountsTyped'
      BY <1>4 DEF Socket, CountsTyped, Rest
    <3>3. QED BY <3>1, <3>2
  <2>2. EndInv' /\ RawInv'
    BY <1>4 DEF Socket, ProgTyped, CountsTyped, EndInv, RawInv, Rest
  <2>3. SizeInv'
    BY <1>4 DEF Socket, ProgTyped, CountsTyped, SizeInv, SizeTracked, Rest
  <2>4. QED BY <2>1, <2>2, <2>3
<1>5. CASE Poll
  <2>1. ProgTyped' /\ CountsTyped'
    <3>1. ProgTyped'
      BY <1>5 DEF Poll, ProgTyped, Phases
    <3>2. CountsTyped'
      BY <1>5 DEF Poll, CountsTyped
    <3>3. QED BY <3>1, <3>2
  <2>2. EndInv' /\ RawInv'
    BY <1>5 DEF Poll, ProgTyped, CountsTyped, EndInv, RawInv
  <2>3. SizeInv'
    BY <1>5 DEF Poll, ProgTyped, CountsTyped, SizeInv, SizeTracked
  <2>4. QED BY <2>1, <2>2, <2>3
<1>6. CASE Finish
  <2>1. ProgTyped' /\ CountsTyped'
    <3>1. ProgTyped'
      BY <1>6 DEF Finish, ProgTyped, Phases
    <3>2. CountsTyped'
      BY <1>6 DEF Finish, CountsTyped
    <3>3. QED BY <3>1, <3>2
  <2>2. EndInv' /\ RawInv'
    BY <1>6 DEF Finish, ProgTyped, CountsTyped, EndInv, RawInv
  <2>3. SizeInv'
    BY <1>6 DEF Finish, ProgTyped, CountsTyped, SizeInv, SizeTracked
  <2>4. QED BY <2>1, <2>2, <2>3
<1>7. CASE Drop
  <2>1. ProgTyped' /\ CountsTyped'
    <3>1. ProgTyped'
      BY <1>7 DEF Drop, ProgTyped, Phases
    <3>2. CountsTyped'
      BY <1>7 DEF Drop, CountsTyped
    <3>3. QED BY <3>1, <3>2
  <2>2. EndInv' /\ RawInv'
    BY <1>7 DEF Drop, ProgTyped, CountsTyped, EndInv, RawInv
  <2>3. SizeInv'
    BY <1>7 DEF Drop, ProgTyped, CountsTyped, SizeInv, SizeTracked
  <2>4. QED BY <2>1, <2>2, <2>3
<1>8. QED BY <1>1, <1>2, <1>3, <1>4, <1>5, <1>6, <1>7 DEF Looping

LEMMA StepKeeps == Inv /\ [Next]_vars => Inv'
<1> SUFFICES ASSUME Inv, [Next]_vars PROVE Inv'
  OBVIOUS
<1>1. CASE UNCHANGED vars
  BY <1>1 DEF vars, progVars, termVars, daemonVars, Inv, ProgTyped, CountsTyped, EndInv,
     RawInv, SizeInv, SizeTracked
<1>2. CASE Next
  BY <1>1, <1>2, OutsideKeeps, SetupKeeps, LoopingKeeps DEF Next, Over
<1>3. QED BY <1>1, <1>2

-----------------------------------------------------------------------------

THEOREM InvHolds == Spec => []Inv
BY InitInv, StepKeeps, PTL DEF Spec

\* The state of a watch keeps its type, and no more is shown than was written.
THEOREM TypeCorrect == Spec => []TypeOK
<1>1. Inv => TypeOK
  BY DEF Inv, ProgTyped, CountsTyped, TypeOK
<1>2. QED BY InvHolds, <1>1, PTL

\* Whatever the load printed is on the screen when the watch sees its daemon end.
THEOREM OutputCompleteHolds == Spec => []OutputComplete
<1>1. Inv => OutputComplete
  BY DEF Inv, EndInv, OutputComplete
<1>2. QED BY InvHolds, <1>1, PTL

\* A watch whose loop came to an end leaves no terminal in raw mode, whatever
\* ended it and whatever failed.
THEOREM TerminalRestoredHolds == Spec => []TerminalRestored
<1>1. Inv => TerminalRestored
  BY DEF Inv, RawInv, TerminalRestored
<1>2. QED BY InvHolds, <1>1, PTL

\* No resize that finds a handler is lost between the flag and the ioctl, and the next
\* one makes up for a size that could not be read.
THEOREM SizeTrackedHolds == Spec => []SizeTracked
<1>1. Inv => SizeTracked
  BY DEF Inv, SizeInv
<1>2. QED BY InvHolds, <1>1, PTL

-----------------------------------------------------------------------------
(* A watch comes to its end.  The prover has no rules for ENABLED: that    *)
(* none of its calls waits for ever, which is what the guards say, is an   *)
(* hypothesis of the theorems.                                             *)

NothingBlocks == pc # "exited" => ENABLED <<Setup \/ Looping>>_vars

LEMMA GoneStays == [Next]_vars /\ daemon = "gone" => daemon' = "gone"
<1> SUFFICES ASSUME [Next]_vars, daemon = "gone" PROVE daemon' = "gone"
  OBVIOUS
<1>1. CASE Outside
  BY <1>1 DEF Outside, DaemonWrites, DaemonAccepts, DaemonEnds, Interrupt, Resize, daemonVars
<1>2. CASE Setup
  BY <1>2 DEF Setup, Open, Connect, Await, PropagateFirst, InstallHandler, EnterRaw, Monitor,
              daemonVars
<1>3. CASE Looping
  BY <1>3 DEF Looping, Loop, Propagate, Select, Socket, Poll, Finish, Drop, daemonVars
<1>4. CASE UNCHANGED vars
  BY <1>4 DEF vars, daemonVars
<1> QED
  BY <1>1, <1>2, <1>3, <1>4 DEF Next, Over

SetupPhases == {"open", "connect", "await", "propagate", "handler", "raw", "monitor"}

\* What is left of the setup.
SetupLeft ==
  IF pc = "open" THEN 7 ELSE IF pc = "connect" THEN 6 ELSE IF pc = "await" THEN 5
  ELSE IF pc = "propagate" THEN 4 ELSE IF pc = "handler" THEN 3 ELSE IF pc = "raw" THEN 2
  ELSE 1

LEMMA SetupGoesOn ==
  ASSUME Setup
  PROVE  /\ pc \in SetupPhases
         /\ \/ pc' \in SetupPhases /\ SetupLeft' < SetupLeft
            \/ pc' = "loop" /\ Reachable
            \/ pc' = "exited" /\ daemon # "loading"
<1> USE DEF SetupPhases, SetupLeft, Reachable, LogExists, Abort
<1>1. CASE Open
  BY <1>1 DEF Open
<1>2. CASE Connect \/ Await
  BY <1>2 DEF Connect, Await
<1>3. CASE PropagateFirst \/ InstallHandler
  BY <1>3 DEF PropagateFirst, InstallHandler
<1>4. CASE EnterRaw
  BY <1>4 DEF EnterRaw
<1>5. CASE Monitor
  BY <1>5 DEF Monitor
<1> QED
  BY <1>1, <1>2, <1>3, <1>4, <1>5 DEF Setup

\* How far an interrupted watch is from telling its daemon.
ToTelling ==
  IF pc \in SetupPhases THEN 6 + SetupLeft
  ELSE IF pc = "swapped" THEN 6 ELSE IF pc = "select" THEN 5 ELSE IF pc = "socket" THEN 4
  ELSE IF pc = "poll" THEN 3 ELSE IF pc = "loop" THEN 2 ELSE 1

Untold == ~running /\ pc \notin {"drop", "exited"} /\ ~told /\ daemon = "loading"

LEMMA InterruptLeads ==
  ASSUME Inv, Untold, Setup \/ Looping, daemon' = "loading"
  PROVE  told' \/ (Untold' /\ ToTelling' < ToTelling)
<1> USE DEF Inv, ProgTyped, Phases, Untold, ToTelling, SetupPhases, SetupLeft
<1>1. CASE Setup
  <2>1. UNCHANGED <<running, told>>
    BY <1>1 DEF Setup, Open, Connect, Await, PropagateFirst, InstallHandler, EnterRaw, Monitor,
                daemonVars
  <2> QED
    BY <1>1, <2>1, SetupGoesOn DEF Reachable
<1>2. CASE Loop \/ Propagate
  BY <1>2 DEF Loop, Propagate, daemonVars
<1>3. CASE Select
  BY <1>3 DEF Select, daemonVars
<1>4. CASE Socket \/ Poll
  BY <1>4 DEF Socket, Poll, daemonVars
<1>5. CASE Finish
  BY <1>5 DEF Finish, Reachable
<1>6. CASE Drop
  BY <1>6 DEF Drop
<1> QED
  BY <1>1, <1>2, <1>3, <1>4, <1>5, <1>6 DEF Looping

\* The user cannot take an interrupt back, and what the daemon was told stays told.
LEMMA OthersWait ==
  ASSUME Inv, Untold, [Next]_vars, ~(Setup \/ Looping), daemon' = "loading"
  PROVE  told' \/ (Untold' /\ ToTelling' = ToTelling)
<1>1. UNCHANGED <<pc, running>>
  BY DEF Next, Outside, DaemonWrites, DaemonAccepts, DaemonEnds, Interrupt, Resize, Over,
         progVars, vars, Untold
<1>2. told' \in BOOLEAN
  BY StepKeeps DEF Inv, ProgTyped
<1> QED
  BY <1>1, <1>2 DEF Untold, ToTelling, SetupLeft

Informed == told \/ daemon # "loading"
NearTelling(n) == Untold /\ ToTelling < n
TellingNears(m, n) == NearTelling(m) ~> Informed \/ NearTelling(n)

LEMMA TellingCloser ==
  \A m, n \in Nat : m = n + 1 => (FairSpec /\ []NothingBlocks => TellingNears(m, n))
<1> TAKE m, n \in Nat
<1> HAVE m = n + 1
<1> DEFINE P == Untold /\ ToTelling = n
           Q == Informed \/ NearTelling(n)
<1> USE DEF NearTelling, Informed
<1>1. ToTelling \in Nat /\ ToTelling' \in Nat
  BY DEF ToTelling, SetupLeft
<1>2. Inv /\ P /\ [Next]_vars => P' \/ Q'
  BY <1>1, InterruptLeads, OthersWait
<1>3. Inv /\ P /\ <<Setup \/ Looping>>_vars => Q'
  BY <1>1, InterruptLeads
<1>4. NearTelling(m) => P \/ Q
  BY <1>1
<1>5. NothingBlocks /\ P => ENABLED <<Setup \/ Looping>>_vars
  BY DEF NothingBlocks, Untold
<1> HIDE DEF P, Q
<1>6. FairSpec /\ []NothingBlocks => (NearTelling(m) ~> Q)
  BY <1>2, <1>3, <1>4, <1>5, InvHolds, PTL DEF FairSpec, Spec
<1> QED
  BY <1>6 DEF Q, TellingNears

\* An interrupted watch stops the load, unless that comes to its end before.
THEOREM InterruptStopsHolds == FairSpec /\ []NothingBlocks => InterruptStops
<1>1. FairSpec /\ []NothingBlocks =>
        /\ TellingNears(14, 13) /\ TellingNears(13, 12) /\ TellingNears(12, 11)
        /\ TellingNears(11, 10) /\ TellingNears(10, 9) /\ TellingNears(9, 8)
        /\ TellingNears(8, 7) /\ TellingNears(7, 6) /\ TellingNears(6, 5)
        /\ TellingNears(5, 4) /\ TellingNears(4, 3) /\ TellingNears(3, 2)
        /\ TellingNears(2, 1)
  BY TellingCloser
<1>2. ~running /\ pc \notin {"drop", "exited"} => Informed \/ NearTelling(14)
  BY DEF Informed, NearTelling, Untold, ToTelling, SetupLeft, SetupPhases
<1>3. ~NearTelling(1)
  BY DEF NearTelling, ToTelling, SetupLeft
<1> QED
  BY <1>1, <1>2, <1>3, PTL DEF TellingNears, Informed, InterruptStops

\* How far a watch whose daemon is gone is from its exit, if the pane keeps its size.
\* A resize that is still to be dealt with takes one more round.
ToExit ==
  IF pc \in SetupPhases THEN 9 + SetupLeft
  ELSE IF pc = "poll" THEN 9
  ELSE IF pc = "swapped" THEN IF winch THEN 8 ELSE 5
  ELSE IF pc = "select" THEN IF winch /\ running THEN 7 ELSE 4
  ELSE IF pc = "loop" THEN IF ~running THEN 3 ELSE IF winch THEN 6 ELSE 5
  ELSE IF pc = "socket" THEN 3 ELSE IF pc = "left" THEN 2 ELSE IF pc = "drop" THEN 1
  ELSE 0

LEMMA ExitCloser ==
  ASSUME Inv, daemon = "gone", Setup \/ Looping
  PROVE  ToExit' < ToExit
<1> USE DEF Inv, ProgTyped, Phases, ToExit, SetupPhases, SetupLeft
<1>1. CASE Setup
  BY <1>1, SetupGoesOn DEF Reachable
<1>2. CASE Loop
  BY <1>2 DEF Loop
<1>3. CASE Propagate
  BY <1>3 DEF Propagate
<1>4. CASE Select
  BY <1>4 DEF Select
<1>5. CASE Socket \/ Poll
  BY <1>5 DEF Socket, Poll
<1>6. CASE Finish \/ Drop
  BY <1>6 DEF Finish, Drop
<1> QED
  BY <1>1, <1>2, <1>3, <1>4, <1>5, <1>6 DEF Looping

LEMMA OthersKeepExit ==
  ASSUME Inv, [Next]_vars, ~(Setup \/ Looping), ~Resize
  PROVE  ToExit' <= ToExit
<1> USE DEF Inv, ProgTyped, Phases, ToExit, SetupPhases, SetupLeft
<1>1. CASE Interrupt
  BY <1>1 DEF Interrupt
<1>2. CASE UNCHANGED <<pc, winch, running>>
  BY <1>2
<1>3. UNCHANGED <<pc, winch, running>> \/ Interrupt
  BY DEF Next, Outside, DaemonWrites, DaemonAccepts, DaemonEnds, Over, progVars, vars
<1> QED
  BY <1>1, <1>2, <1>3

\* Nobody resizes the pane any more.
Calm == [][~Resize]_vars

NearExit(n) == daemon = "gone" /\ ToExit < n
ExitNears(m, n) == NearExit(m) ~> pc = "exited" \/ NearExit(n)
Runs == [][Next]_vars /\ []Inv /\ WF_vars(Setup \/ Looping) /\ []NothingBlocks

LEMMA ExitNearsStep == \A m, n \in Nat : m = n + 1 => (Runs /\ Calm => ExitNears(m, n))
<1> TAKE m, n \in Nat
<1> HAVE m = n + 1
<1> DEFINE P == daemon = "gone" /\ ToExit = n /\ ~(pc = "exited")
           Q == pc = "exited" \/ NearExit(n)
<1> USE DEF NearExit
<1>1. ToExit \in Nat /\ ToExit' \in Nat
  BY DEF ToExit, SetupLeft
<1>2. Inv /\ P /\ [Next]_vars /\ [~Resize]_vars => P' \/ Q'
  <2>1. CASE UNCHANGED vars
    BY <2>1 DEF vars, progVars, daemonVars, ToExit, SetupLeft
  <2>2. CASE ~UNCHANGED vars
    BY <1>1, <2>2, ExitCloser, OthersKeepExit, GoneStays
  <2> QED
    BY <2>1, <2>2
<1>3. Inv /\ P /\ <<Setup \/ Looping>>_vars /\ [Next]_vars => Q'
  BY <1>1, ExitCloser, GoneStays
<1>4. NearExit(m) => P \/ Q
  BY <1>1
<1>5. NothingBlocks /\ P => ENABLED <<Setup \/ Looping>>_vars
  BY DEF NothingBlocks
<1> HIDE DEF P, Q
<1>6. Runs /\ Calm => (NearExit(m) ~> Q)
  BY <1>2, <1>3, <1>4, <1>5, PTL DEF Runs, Calm
<1> QED
  BY <1>6 DEF Q, ExitNears

\* The pane closes when the daemon is gone, unless the user goes on resizing it: each
\* resize interrupts select before the socket is looked at.
THEOREM WatchEndsHolds == FairSpec /\ []NothingBlocks /\ <>Calm => WatchEnds
<1>1. Runs /\ Calm =>
        /\ ExitNears(17, 16) /\ ExitNears(16, 15) /\ ExitNears(15, 14) /\ ExitNears(14, 13)
        /\ ExitNears(13, 12) /\ ExitNears(12, 11) /\ ExitNears(11, 10) /\ ExitNears(10, 9)
        /\ ExitNears(9, 8) /\ ExitNears(8, 7) /\ ExitNears(7, 6) /\ ExitNears(6, 5)
        /\ ExitNears(5, 4) /\ ExitNears(4, 3) /\ ExitNears(3, 2) /\ ExitNears(2, 1)
        /\ ExitNears(1, 0)
  BY ExitNearsStep
<1>2. (daemon = "gone" => NearExit(17)) /\ ~NearExit(0)
  BY DEF NearExit, ToExit, SetupLeft, SetupPhases
<1>3. Runs /\ Calm => WatchEnds
  BY <1>1, <1>2, PTL DEF ExitNears, WatchEnds
<1>4. [Next]_vars /\ daemon = "gone" => (daemon = "gone")'
  BY GoneStays
<1> QED
  BY <1>3, <1>4, InvHolds, PTL DEF FairSpec, Spec, Runs, Calm, WatchEnds
=============================================================================
