SPECIFICATION FairSpec
CONSTANTS
  NoTurn = NoTurn
  Turns = {t1, t2, t3}
  MaxSubs = 3
  Capacity = 2
  MaxCrashes = 0
  MaxFails = 0
CHECK_DEADLOCK FALSE
PROPERTIES
  NextStaysServiceable
