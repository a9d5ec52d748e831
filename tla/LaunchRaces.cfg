SPECIFICATION Spec
CONSTANTS
  s1 = s1
  s2 = s2
  s3 = s3
  s4 = s4
  Starters <- FourStarters
  NoSocket = NoSocket
  Overlap = TRUE
  Faults <- AnyFault
SYMMETRY Symmetry
INVARIANTS
  TypeOK
  LoadHappens
  NoTempLeak
  NoStaleSocket
