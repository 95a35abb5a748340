CONSTANTS
  NoTurn = NoTurn
  Turns = {t1, t2}
  MaxSubs = 3
  Capacity = 2
  MaxCrashes = 1
  MaxFails = 2
SPECIFICATION FairSpec
INVARIANTS
  TypeOK
  EffectsAtMostOnce
  DiskWellFormed
  AnsweredIsDurable
PROPERTIES
  ResolvedForLife
  EveryTurnAnswered
CHECK_DEADLOCK FALSE
