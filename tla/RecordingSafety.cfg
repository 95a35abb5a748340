CONSTANTS
  Sessions <- Fours
  MaxInputs = 4
  MaxInbox = 2
SPECIFICATION Spec
INVARIANTS
  TypeOK
  MicIsOwned
  IdleIsClean
  DeliveredOnce
  StartedBusIsOwned
  PublishedMatches
  QuiescedStays
PROPERTIES
  TerminalLineFinal
CHECK_DEADLOCK FALSE
