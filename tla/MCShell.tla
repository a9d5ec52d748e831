------------------------------- MODULE MCShell -------------------------------
(* Instances of Shell for TLC.                                             *)
EXTENDS Shell

CONSTANTS a, b,    \* shells; b is never in a multiplexer
          d1, d2   \* directories with an .envrc

JustA == {a}
Both == {a, b}
OneDir == {d1}
TwoDirs == {d1, d2}
NoDir == {}
=============================================================================
