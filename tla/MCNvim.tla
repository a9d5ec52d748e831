------------------------------- MODULE MCNvim -------------------------------
(* The instance of Nvim for TLC.                                           *)
EXTENDS Nvim

\* direnv succeeds, fails, is interrupted, is terminated.
ExitCodes == {0, 1, 130, 143}
AnyFault == {"spawn", "quit"}
=============================================================================
