CONSTANTS
  Threads = {th1, th2}
  CallIds = {c1}
  MaxCalls = 2
SPECIFICATION FairSpec
INVARIANTS
  TypeOK
  WaitingIsReachable
PROPERTIES
  KeepsPromise
  CardsConverge
CHECK_DEADLOCK FALSE
