------------------------------- MODULE Direnv -------------------------------
(***************************************************************************)
(* direnv as its callers know it: what `direnv export` prints, and what    *)
(* evaluating that does to an environment.  direnv is external.            *)
(*                                                                         *)
(* An environment is the set of directories whose variables are in it and  *)
(* the one direnv has loaded, which it keeps there, too (DIRENV_DIFF).     *)
(***************************************************************************)
CONSTANTS
  Dirs,     \* the directories with an .envrc
  Outside,  \* any directory without one
  Nothing   \* direnv printed nothing, the file does not exist

Places == Dirs \cup {Outside}

\* Changes to an environment: forget `from`, load `to`.
Change == [from : Places, to : Places]

ASSUME OutsideAssumption == Outside \notin Dirs
ASSUME NothingAssumption == Nothing \notin Change

\* What `direnv export` may print in place p when x is loaded and the .envrc of p
\* is ok: nothing if x is what p needs; if the .envrc is broken, at most the way back.
Export(x, p, ok) ==
  IF p = Outside
  THEN {IF x = Outside THEN Nothing ELSE [from |-> x, to |-> Outside]}
  ELSE IF ok
  THEN {[from |-> x, to |-> p]} \cup (IF x = p THEN {Nothing} ELSE {})
  ELSE {Nothing, [from |-> x, to |-> Outside]}

\* The variables P and the directory loaded x once c was evaluated.
Variables(P, c) == IF c = Nothing THEN P ELSE (P \ {c.from}) \cup ({c.to} \cap Dirs)
Knows(x, c) == IF c = Nothing THEN x ELSE c.to
=============================================================================
