SPECIFICATION Spec
CONSTANTS
  p1 = p1
  p2 = p2
  w1 = w1
  w2 = w2
  Shells <- TwoShells
  Parent = p1
  Watchers <- OneWatcher
  Pane = w1
  PtyCapacity = 1
  Multiplexers <- OnePane
  Faults <- NoFault
  Messages <- FromShells
  Earlier <- SomeFiles
  Slow = TRUE
  Background = TRUE
INVARIANTS
  TypeOK
  SignalAfterPublication
  OncePerShell
  OnlyOwnersCancel
  CancelledLeavesNoTrace
  LogComplete
  CleanExit
PROPERTY
  EmptyExportPreservesCache
  ImplementsService
