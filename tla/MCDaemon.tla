------------------------------ MODULE MCDaemon ------------------------------
(* Instances of Daemon for TLC.                                            *)
EXTENDS Daemon

CONSTANTS p1, p2,    \* two shells; p1 starts the daemon
          w1, w2     \* two watch processes; the pane runs w1

OneShell == {p1}
TwoShells == {p1, p2}
OneWatcher == {w1}
TwoWatchers == {w1, w2}

NoFiles == {"absent"}
SomeFiles == {"absent", "old"}

NoFault == {}
AllMessages == {"NOTIFY", "STOP_PID", "STOP", "WATCH"}
FromShells == {"NOTIFY", "STOP_PID"}
FromWatches == {"STOP", "WATCH"}
AnyFault == {"forkpty", "dup", "log", "write", "pty", "rename", "direnv"}

OnePane == {"pane"}
Herdr == {"herdr"}
AnyMultiplexer == {"none", "pane", "herdr", "nvim"}
=============================================================================
