\* Frames of one row, of every row there can be and every mapped record, and
\* every synthetic frame of up to six records.  A frame is split once: the run
\* stops there.
SPECIFICATION FrameSpec
CHECK_DEADLOCK FALSE
CONSTANTS
  Keys <- MCKeys
  RecordIds <- MCRecordIds
  Lengths = {1}
  Amounts <- MCAmounts
  Sizes = {0, 99, 100}
  Prices = {0, 99, 200}
  DefaultScores = {0, 75, 100}
INVARIANTS
  LostOnlyUndecided
  ReasonApplies
  MicrobatchKeepsTrades
  VerdictAsMade
