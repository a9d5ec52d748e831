SPECIFICATION Spec
CONSTANTS
  a = a
  b = b
  d1 = d1
  d2 = d2
  Shells <- JustA
  Dirs <- TwoDirs
  Outside = Outside
  Multiplexed <- JustA
  UseCache = TRUE
  Fragile <- NoDir
  DirFails = FALSE
  Nothing = Nothing
  Idle = Idle
INVARIANTS
  LoadsWholeEnvironment
