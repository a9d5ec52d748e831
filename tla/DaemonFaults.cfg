SPECIFICATION Spec
CONSTANTS
  p1 = p1
  p2 = p2
  w1 = w1
  w2 = w2
  Shells <- OneShell
  Parent = p1
  Watchers <- TwoWatchers
  Pane = w1
  PtyCapacity = 1
  Multiplexers <- AnyMultiplexer
  Faults <- AnyFault
  Messages <- FromWatches
  Earlier <- NoFiles
  Slow = TRUE
  Background = TRUE
INVARIANTS
  NoTornCache
  OwnPaneServed
  OnlyKnownWaits
