SPECIFICATION FairSpec
CONSTANTS
  Domains <- MCOneDomain
  NoDomain = NoDomain
  Goroutines = {g1, g2}
  Concurrency = 2
  HasEnforcer = TRUE
  TapEvents <- MCHello
  Answers = {"OK", "DNS_TAMPERING", NilVerdict}
  NilVerdict = NilVerdict
  MaxCount = 1
  MaxChanges = 2
INVARIANTS OneDiagnosisPerDomain EnforcedUnderItsVerdict
PROPERTIES NoStaleOverwrite BadgeResolves ShutdownCompletes ChangePickedUp
