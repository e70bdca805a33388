SPECIFICATION Spec
CONSTANTS
  Conns = {k1, k2}
  Exits = {e1, e2}
  Prints = {j1}
  NoExit = NoExit
  Attempts = 1
  Chunks = 1
INVARIANT
  ExitsInOrderNamed
CHECK_DEADLOCK FALSE
