----------------------------- MODULE MCBatchDag -----------------------------
(* The three files, and two of them where only pairs matter.               *)
EXTENDS BatchDag, TLC

AllDatasets == <<"customers", "accounts", "transactions">>
OnlyGold == <<"gold">>
SilverAndGold == <<"silver", "gold">>
SymmetricRuns == Permutations(Runs)
AccountsAndTransactions == <<"accounts", "transactions">>

=============================================================================
