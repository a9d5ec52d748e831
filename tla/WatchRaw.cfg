SPECIFICATION Spec
CONSTANTS
  Terminal = TRUE
  MaxChunks = 2
  MaxResizes = 2
  Faults <- NoFault
INVARIANT AlwaysRestored
