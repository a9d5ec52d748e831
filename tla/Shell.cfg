SPECIFICATION FairSpec
CONSTANTS
  a = a
  b = b
  d1 = d1
  d2 = d2
  Shells <- JustA
  Dirs <- TwoDirs
  Outside = Outside
  Multiplexed <- JustA
  UseCache = TRUE
  Fragile <- OneDir
  DirFails = FALSE
  Nothing = Nothing
  Idle = Idle
INVARIANT
  TypeOK
PROPERTIES
  OwnPlaceOnly
  Converges
