\* Two runs that may overlap, two tries of each task.
CONSTANTS
  Runs = {r1, r2}
  NoRun = NoRun
  MaxActiveRuns = 2
  Attempts = 2
  MaxRecords = 1
  StreamCapacity = 1
SPECIFICATION FairSpec
INVARIANTS
  OwnBatchValidated
  BadOnlyFromFailures
  ReadOnce
PROPERTY RunsEnd
