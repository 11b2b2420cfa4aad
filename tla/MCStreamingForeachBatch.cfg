\* Three records of two ids at two times, in any batches, one crash, restarted or not.
CONSTANTS
  Ids = {"e1", "e2"}
  Times = {1, 3}
  RowKinds <- MCRowKindsFair
  NEvents = 3
  WatermarkDelay = 2
  MaxCrashes = 1
SPECIFICATION FairSpec
INVARIANTS
  CommittedLands
  CopiesBounded
  OneVerdictPerBatch
  FactsFollowSilver
PROPERTY
  StreamAdvances
