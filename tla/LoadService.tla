----------------------------- MODULE LoadService -----------------------------
(***************************************************************************)
(* What one load promises to the shells of its directory, without sockets, *)
(* threads, terminals or files: shells join and leave, the load is         *)
(* cancelled or publishes in one step, and then tells everybody who waits, *)
(* in one step and once.  Module Daemon implements this.                   *)
(***************************************************************************)
CONSTANTS
  Shells,   \* who may wait
  Exports   \* what a load may publish

VARIABLES
  phase,    \* "loading", "cancelled", "published", "over"
  waiting,  \* the shells to be told
  doomed,   \* everybody left, or somebody insisted: the load should end
  cache,    \* what a shell of this directory finds published
  news,     \* is there anything to tell?
  told      \* who was told

vars == <<phase, waiting, doomed, cache, news, told>>

Init ==
  /\ phase = "loading" /\ waiting \in SUBSET Shells /\ doomed = FALSE
  /\ cache \in {"absent", "old"} /\ news = FALSE /\ told = {}

\* Accepted as long as there is somebody to ask, in time or not.
Join(p) ==
  /\ waiting' = waiting \cup {p}
  /\ UNCHANGED <<phase, doomed, cache, news, told>>

\* The last one out dooms the load.
Leave(p) ==
  /\ p \in waiting
  /\ waiting' = waiting \ {p}
  /\ doomed' = (doomed \/ waiting' = {})
  /\ UNCHANGED <<phase, cache, news, told>>

Insist ==
  /\ doomed' = TRUE
  /\ UNCHANGED <<phase, waiting, cache, news, told>>

\* Only a doomed load is cancelled, and nothing comes of it.
Cancel ==
  /\ phase = "loading" /\ doomed
  /\ phase' = "cancelled"
  /\ UNCHANGED <<waiting, doomed, cache, news, told>>

\* All of an export, no change, or (the load failed) nothing left.
Publish ==
  /\ phase = "loading"
  /\ phase' = "published"
  /\ cache' \in Exports \cup {cache, "absent"}
  /\ news' \in BOOLEAN
  /\ cache' \in Exports => news'
  /\ UNCHANGED <<waiting, doomed, told>>

Tell ==
  /\ phase = "published"
  /\ phase' = "over"
  /\ told' = IF news THEN waiting ELSE {}
  /\ UNCHANGED <<waiting, doomed, cache, news>>

\* The daemon cannot even begin.
GiveUp ==
  /\ phase = "loading"
  /\ phase' = "over"
  /\ UNCHANGED <<waiting, doomed, cache, news, told>>

Next ==
  \/ \E p \in Shells : Join(p) \/ Leave(p)
  \/ Insist \/ Cancel \/ Publish \/ Tell \/ GiveUp

Spec == Init /\ [][Next]_vars
=============================================================================
