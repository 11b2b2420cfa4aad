--------------------------- MODULE MCSplitFrames ---------------------------
(* Six ids; amounts and sizes on both sides of every threshold.            *)
EXTENDS SplitFrames

MCRecordIds == <<"R1", "R2", "R3", "R4", "R5", "R6">>
MCKeys == {MCRecordIds[i] : i \in 1..6}
MCAmounts == {-5001, -1, 0, 1000, 1001}

=============================================================================
