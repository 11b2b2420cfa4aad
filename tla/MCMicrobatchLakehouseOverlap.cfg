\* Two runs that may overlap, one of them failing once.
CONSTANTS
  Runs = {r1, r2}
  MaxActiveRuns = 2
  Attempts = 3
  Ids = {e1}
  Times = {1, 2}
  RowKinds <- MCGoodOnly
  GoldTables <- MCNoGoldTables
  MaxBronze = 2
  MaxKills = 1
SPECIFICATION Spec
PROPERTY
  ImplementsTradeBook
SYMMETRY MCRunSymmetry
