SPECIFICATION FairSpec
CONSTANTS
  Codes <- ExitCodes
  Faults <- AnyFault
INVARIANTS
  TypeOK
  ClientsReaped
  AcknowledgedEnd
  ToldApart
PROPERTY
  ReportsEnd
