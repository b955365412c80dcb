SPECIFICATION Spec
CONSTANTS
  Trials = 3
  Providers = 3
  TTLs <- MCTTLs
  HopMargin = 3
  Rates <- MCRates
  Floor = 4
  Ratio = 5
  MaxMessage = 2
  Navigations <- MCNavigations
  Inputs <- MCInputs
  Pool <- MCPool
  JSONTimeout = 25
  Window = 10
  Grace = 2
  Networks <- MCNetworks
  Budgets <- MCBudgets
  Replies <- MCReplies
  Records <- MCRecords
  Schema <- MCSchema
  OmitEmpty = {"attribution"}
  Nullable = {"evidence"}
  OtherCase <- MCOtherCase
  Contents = {"a"}
  Holders = {k1, k2}
  Nobody = Nobody
  Texts <- MCTexts
INVARIANT RSTInPath
CHECK_DEADLOCK FALSE
