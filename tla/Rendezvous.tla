----------------------------- MODULE Rendezvous -----------------------------
(***************************************************************************)
(* What the starts of one directory promise their shells, without a path,  *)
(* without processes, without calls that can fall between two others: a    *)
(* start joins the daemon that serves or, where none does, serves itself,  *)
(* in one step.  The loads of module Shell begin and are joined like this. *)
(* Module Launch implements it if starts keep apart.                       *)
(***************************************************************************)
CONSTANTS
  Starters,  \* the starts
  Faulty     \* may the daemon of a start fail to come up?

VARIABLES
  asking,    \* the start that is looking for a daemon, if any
  joined,    \* the starts that told a daemon of their shell
  serving    \* whose daemon serves, if any: it answers until its process ends, also
             \* when its load is over

vars == <<asking, joined, serving>>

Init == asking = {} /\ joined = {} /\ serving = {}

Ask(s) ==
  /\ asking = {} /\ s \notin joined \cup serving
  /\ asking' = {s}
  /\ UNCHANGED <<joined, serving>>

Answered(s) == s \in asking /\ asking' = asking \ {s}

Join(s) ==
  /\ serving # {}
  /\ Answered(s) /\ joined' = joined \cup {s}
  /\ UNCHANGED serving

Serve(s) ==
  /\ serving = {}
  /\ Answered(s) /\ serving' = {s}
  /\ UNCHANGED joined

\* Whoever finds a daemon is not turned away.
Fail(s) ==
  /\ Faulty /\ serving = {}
  /\ Answered(s)
  /\ UNCHANGED <<joined, serving>>

\* The load is over, or its daemon was killed or left by process::exit.
End ==
  /\ serving # {} /\ serving' = {}
  /\ UNCHANGED <<asking, joined>>

Next == End \/ \E s \in Starters : Ask(s) \/ Join(s) \/ Serve(s) \/ Fail(s)

Spec == Init /\ [][Next]_vars

\* Nobody asks for ever.
Answer(s) == s \in asking ~> s \notin asking
Answers == \A s \in Starters : Answer(s)
=============================================================================
