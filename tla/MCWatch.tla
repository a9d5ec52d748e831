------------------------------- MODULE MCWatch -------------------------------
(* Instances of Watch for TLC.                                             *)
EXTENDS Watch

NoFault == {}
AnyFault == {"tcattr", "winsize", "select"}
=============================================================================
