SPECIFICATION Spec
CONSTANTS
  Plans <- Plans_
  Limit = 1
  UnreachableLimit = 1
  Window = 3
  SharePct = 85
  Spread = 2
  InertLimit = 2
  LocateGiveUp = 2
  MinIdentities = 1
  Retries = 1
  Traffic = 2
  SampleOk = 1
INVARIANTS TypeOK EveryIdentityAccounted RedrawIsNext StopsAreEarned StopIsPrompt OneWindow
  RowsAreTrue BytesAreOnce NothingLeftOpen NoArmIsTheControl
PROPERTY LadderEnds
