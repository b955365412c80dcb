SPECIFICATION Spec
CONSTANTS
  Names = {d1, d2}
  NoName = NoName
  IPs = {ip1}
  NoIP = NoIP
  Writers = {w1, w2, w3}
  Inodes = {i1, i2, i3, i4}
  NoFile = NoFile
  Empty = Empty
  Torn = Torn
  MaxCalls = 5
SYMMETRY Symmetry
INVARIANT WholeUnlessOverlapped
PROPERTY Implements
CHECK_DEADLOCK FALSE
