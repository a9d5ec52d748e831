SPECIFICATION FairSpec
CONSTANTS
  Terminal = TRUE
  MaxChunks = 2
  MaxResizes = 2
  Faults <- AnyFault
INVARIANTS
  TypeOK
  OutputComplete
  TerminalRestored
  SizeTracked
PROPERTIES
  WatchEnds
  InterruptStops
