------------------------------ MODULE MCLaunch ------------------------------
(* Instances of Launch for TLC.                                            *)
EXTENDS Launch, TLC

CONSTANTS s1, s2, s3, s4

ThreeStarters == {s1, s2, s3}
FourStarters == {s1, s2, s3, s4}
\* The starts are interchangeable.
Symmetry == Permutations({s1, s2, s3, s4})

NoFault == {}
AnyFault == {"dir", "fork", "mkstemp", "exit", "kill"}
=============================================================================
