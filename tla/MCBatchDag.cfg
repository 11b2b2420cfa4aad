\* Two runs, one after the other or overlapping; every task is tried twice.
\* Runs that are over or failed stay so: the model stops.
SPECIFICATION Spec
CHECK_DEADLOCK FALSE
CONSTANTS
  Runs = {r1, r2}
  Datasets <- AccountsAndTransactions
  Layers <- OnlyGold
  Attempts = 2
  MaxFailures = 2
SYMMETRY SymmetricRuns
INVARIANTS
  OwnExtractionThrough
  MetadataMeansData
  PublishedReadable
  FactsHaveAccounts
  SuiteFailsOnlyTogether
