------------------------------ MODULE MCNushell ------------------------------
(* The instance of Nushell for TLC.                                        *)
EXTENDS Nushell

CONSTANTS n1,      \* a nushell
          d1, d2   \* directories with an .envrc

OneNu == {n1}
OneDir == {d1}
OneVisit == {<<Outside, d1>>}
OtherDir == {d2}
TwoDirs == {d1, d2}
=============================================================================
