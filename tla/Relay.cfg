SPECIFICATION Spec
CONSTANTS
  Conns = {k1, k2}
  Exits = {e1, e2}
  Prints = {j1, j2}
  NoExit = NoExit
  Attempts = 2
  Chunks = 1
SYMMETRY ConnSymmetry
INVARIANTS
  TypeOK
  CountedIsDelivered
  RowsPartition
  VendorNeverDialled
  MovesAreVisible
  FirstPrintIsStable
CHECK_DEADLOCK FALSE
