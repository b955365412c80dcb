SPECIFICATION FairSpec
CONSTANTS
  Domains <- MCDomains
  NoDomain = NoDomain
  Goroutines = {g1, g2}
  Concurrency = 1
  HasEnforcer = TRUE
  TapEvents <- MCTapEvents
  Answers = {"DNS_TAMPERING", NilVerdict}
  NilVerdict = NilVerdict
  MaxCount = 1
  MaxChanges = 0
INVARIANTS SlotsAccounted QuietAfterReturn
PROPERTY BadgeResolves
