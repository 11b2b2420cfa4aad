------------------------- MODULE MCKinesisProducer -------------------------
(* TLC instances of KinesisProducer: two shards, the first and the last    *)
(* event on the same one.                                                  *)
EXTENDS KinesisProducer, TLC

MCShardOf == (1 :> "shard0") @@ (2 :> "shard1") @@ (3 :> "shard0") @@ (4 :> "shard1")

=============================================================================
