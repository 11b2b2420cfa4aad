\* Two runs one after the other: does one consume what it has captured?
CONSTANTS
  Runs = {r1, r2}
  NoRun = NoRun
  MaxActiveRuns = 1
  Attempts = 1
  MaxRecords = 1
  StreamCapacity = 2
SPECIFICATION Spec
INVARIANT OwnCaptureConsumed
