SPECIFICATION LiveSpec
CONSTANTS
  Domains <- MCDomains
  NoDomain = NoDomain
  Goroutines = {g1, g2}
  Concurrency = 2
  HasEnforcer = TRUE
  TapEvents <- MCHello
  Answers = {"DNS_TAMPERING"}
  NilVerdict = NilVerdict
  MaxCount = 1
  MaxChanges = 0
  IPs = {ip1}
  NoIP = NoIP
  Inodes = {i1, i2}
  NoFile = NoFile
  Empty = Empty
  Torn = Torn
  MaxCalls = 3
SYMMETRY Symmetry
INVARIANT AppliedRowInFile
