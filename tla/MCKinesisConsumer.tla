------------------------- MODULE MCKinesisConsumer -------------------------
(* Two runs, one from each end of the stream, over one shard.  While both  *)
(* take part the shard gets one event and one record that is none; once    *)
(* one of them was killed before it read anything, it gets any records,    *)
(* more than the other may read.                                           *)
EXTENDS KinesisConsumer, TLC

OneShardList == <<"shard0">>
BothTypes == ("r1" :> "LATEST") @@ ("r2" :> "TRIM_HORIZON")

Polling(r) == pc[r] \in {"start", "open", "poll"}

OneLeft ==
  \E r \in Runs : pc[r] = "failed" /\ iterator[r] = NoIterator /\ batch[r] = <<>>

(* The bounds on the environment; a run takes every step it may.  What the *)
(* stream gets once nobody polls is seen by nobody, and time matters only  *)
(* between two names of files.                                             *)
MayArrive(s, kind) ==
  OneLeft \/ Append(stream[s], kind) \in {<<"event">>, <<"event", "garbled">>}

Surroundings ==
  \/ \E s \in Shards : Seal(s) /\ \E r \in Runs : Polling(r)
  \/ \E s \in Shards : \E kind \in RecordKinds :
       Arrive(s, kind) /\ MayArrive(s, kind) /\ \E r \in Runs : Polling(r)
  \/ Tick /\ \E r \in Runs : stamp[r] # NotStamped

MCNext == Surroundings \/ Finished \/ \E r \in Runs : Step(r) \/ Failure(r)

MCSpec == Init /\ [][MCNext]_vars

=============================================================================
