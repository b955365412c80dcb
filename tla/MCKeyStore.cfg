SPECIFICATION Spec
CONSTANTS
  Runs = {r1, r2, r3}
  Keys = {k1, k2, k3}
  NoKey = NoKey
  Bad = Bad
  MaxRuns = 5
INVARIANTS StableUnlessRaced PinnedUnlessRaced
PROPERTY SettlesOnOneKey
CHECK_DEADLOCK FALSE
