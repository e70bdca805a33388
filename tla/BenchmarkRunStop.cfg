SPECIFICATION Spec
CONSTANTS
  c1 = c1
  c2 = c2
  q1 = q1
  q2 = q2
  q3 = q3
  CellOrder <- MCCells
  QueryOrder <- MCTwoQueries
  Limit = 2
  UnreachableLimit = 2
  Window = 2
  SharePct = 100
  Spread = 2
  Downloads <- MCNoDownload
  BatchSize = 1
  MaxRuns = 1
  Faults <- MCGarbled
  Sees <- MCTwoOutcomes
INVARIANT
  StopFileIsAStop
CHECK_DEADLOCK FALSE
