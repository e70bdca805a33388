SPECIFICATION FairSpec
CONSTANTS
  c1 = c1
  c2 = c2
  q1 = q1
  q2 = q2
  q3 = q3
  CellOrder <- MCCells
  QueryOrder <- MCThreeQueries
  Limit = 1
  UnreachableLimit = 2
  Window = 2
  SharePct = 100
  Spread = 2
  Downloads <- MCOneDownload
  BatchSize = 2
  MaxRuns = 1
  Faults <- MCFaultsOnce
  Sees <- MCThreeOutcomes
INVARIANTS
  TypeOK
  SessionRowsAgree
  CellStopIsRecorded
  NothingSilentlyMissing
  WatchStopIsEvidence
  CellsInterleave
  StopIsPrompt
  UnmeasuredMeansUnanswered
PROPERTY
  RunEnds
CHECK_DEADLOCK FALSE
