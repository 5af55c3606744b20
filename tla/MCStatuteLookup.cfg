SPECIFICATION LookupSpec
CONSTANTS
  Shapes = 2
  Worlds <- MCWorlds
  Versions = {v1, v2}
  MaxTries = 3
INVARIANTS
  NotFoundIsTrue
  DoubleSignalIsTrue
  BestAnswerWins
  LinkBelongsToText
PROPERTIES
  LookupLeadsOn
  LookupReturns
CHECK_DEADLOCK FALSE
