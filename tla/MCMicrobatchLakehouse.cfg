\* Two runs one after the other, two tries of each task.
CONSTANTS
  Runs = {r1, r2}
  MaxActiveRuns = 1
  Attempts = 2
  Ids = {e1}
  Times = {1, 2}
  RowKinds <- MCRowKinds
  GoldTables <- MCGoldTables
  MaxBronze = 2
  MaxKills = 1
SPECIFICATION Spec
INVARIANTS
  GenerationAgrees
  AuditTrail
  DoneMeansPublished
SYMMETRY MCRunSymmetry
