\* Two profiles; up to three changes by the bank to the items while they are read.
SPECIFICATION FairSpec
CHECK_DEADLOCK FALSE
CONSTANTS
  Profiles = 2
  Accounts = {"checking", "card"}
  AccountType <- MCAccountType
  Kinds <- MCKinds
  Today = 2
  PageSize = 1
  MaxUpdates = 3
INVARIANTS
  BundleIsExact
  BalancesExplained
PROPERTY
  ExtractionEnds
