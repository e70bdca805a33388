SPECIFICATION Spec
CONSTANTS
  Providers = {p1}
  Headed = {p1}
  Addresses = {a1}
  NoAddress = NoAddress
  GiveUp = 2
  BatchSizes = {1}
  MaxSessions = 2
INVARIANT
  LatchMeansReplies
CHECK_DEADLOCK FALSE
