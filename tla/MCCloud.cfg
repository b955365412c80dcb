SPECIFICATION Spec
CONSTANTS
  P1 = P1
  P2 = P2
  P3 = P3
  Pushes <- MCPushes
  Contents = {c1, c2}
  Keys = {k1, k2}
  Networks = {n1, n2}
SYMMETRY Symmetry
INVARIANT PushedIsStored
PROPERTY RowsKept
CHECK_DEADLOCK FALSE
