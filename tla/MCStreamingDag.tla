--------------------------- MODULE MCStreamingDag ---------------------------
(* TLC instances of StreamingDag.                                           *)
EXTENDS StreamingDag, TLC

MCRunSymmetry == Permutations(Runs)

=============================================================================
