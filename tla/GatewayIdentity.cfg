SPECIFICATION Spec
CONSTANTS
  Providers = {p1, p2, p3}
  Headed = {p1, p2}
  Addresses = {a1, a2}
  NoAddress = NoAddress
  GiveUp = 2
  BatchSizes = {1, 3}
  MaxSessions = 3
INVARIANTS
  TypeOK
  MissesAreOwn
  ExitIsNotWarmed
PROPERTIES
  VerdictIsTheSessions
  LatchSavesHandshakes
SYMMETRY Exits
CHECK_DEADLOCK FALSE
