SPECIFICATION FairSpec
CONSTANTS
  s1 = s1
  s2 = s2
  s3 = s3
  s4 = s4
  Starters <- ThreeStarters
  NoSocket = NoSocket
  Overlap = FALSE
  Faults <- AnyFault
PROPERTIES
  ImplementsRendezvous
  OnlyStaleRemoved
  EveryStartServed
