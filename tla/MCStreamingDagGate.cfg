\* Two runs one after the other: does transform read what failed validation?
CONSTANTS
  Runs = {r1, r2}
  NoRun = NoRun
  MaxActiveRuns = 1
  Attempts = 2
  MaxRecords = 1
  StreamCapacity = 2
SPECIFICATION Spec
INVARIANT OnlyAcceptedTransformed
