CONSTANTS
  Sessions <- FairSessions
  MaxInputs = 6
  MaxInbox = 2
SPECIFICATION FairSpec
PROPERTIES
  BusyResolves
  GestureSettles
  StopSettles
  StopNamesCapture
CHECK_DEADLOCK FALSE
