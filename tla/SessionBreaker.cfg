SPECIFICATION Spec
CONSTANTS
  Limit = 3
  UnreachableLimit = 2
  Window = 1
  SharePct = 100
  Spread = 1
  BatchSize = 2
  Batches = 6
INVARIANTS
  TypeOK
  CountersAreStreaks
  DeadStopWasAnswered
  PoolIsSpared
  NoVerdictIsSilence
PROPERTIES
  FirstReasonWins
  ImplementsCellVerdict
CHECK_DEADLOCK FALSE
