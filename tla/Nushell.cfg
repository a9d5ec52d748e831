SPECIFICATION FairSpec
CONSTANTS
  n1 = n1
  d1 = d1
  d2 = d2
  Nus <- OneNu
  Dirs <- TwoDirs
  Outside = Outside
  Visits <- OneVisit
  Fragile <- OneDir
  Failing <- OtherDir
  Nothing = Nothing
  Idle = Idle
  Unannounced = Unannounced
INVARIANTS
  TypeOK
  SyncWhole
PROPERTY
  Converges
