----------------------- MODULE StreamingForeachBatch -----------------------
(***************************************************************************)
(* The Structured Streaming query of                                       *)
(* databricks/streaming/financial_streaming_pipeline.py: Spark cuts the    *)
(* stream into batches, drops late and repeated events, and hands each     *)
(* batch to foreach_batch_processor, which appends it to seven Delta       *)
(* tables one after the other.  The query may die at any step, and is      *)
(* restarted from its checkpoint.                                          *)
(*                                                                         *)
(* Spark is external: the end of a batch is logged before the batch runs   *)
(* and the batch is run again, with the same bounds and the same dedup     *)
(* state, until it is committed.  batch_df is not persisted, so each write *)
(* evaluates it anew and may keep another one of the batch's rows with the *)
(* same event_id.                                                          *)
(***************************************************************************)
EXTENDS Integers, FiniteSets, FiniteSetsExt, StreamSplit

CONSTANTS
  Ids,            \* event ids
  Times,          \* event times
  RowKinds,       \* the rows that arrive
  NEvents,        \* how many events arrive
  WatermarkDelay,
  MaxCrashes      \* bound: how often the query dies

Events == [id : Ids, time : Times, row : RowKinds]
Positions == 1..NEvents

ASSUME ForeachBatchAssumption ==
  /\ RowKinds \subseteq Row /\ Times \subseteq Nat \ {0}
  /\ NEvents \in Nat /\ WatermarkDelay \in Nat /\ MaxCrashes \in Nat

(* Mutant of WriteOrder: the facts are appended first.                     *)
FactsFirst ==
  <<"rejected_events", "fact_transaction", "fact_payment", "fact_trade",
    "silver_transactions", "silver_payments", "silver_trades">>

WriteOrder ==
  <<"rejected_events", "silver_transactions", "silver_payments", "silver_trades",
    "fact_transaction", "fact_payment", "fact_trade">>

Tables == ToSet(WriteOrder)

VARIABLES
  source,       \* the parsed records, in the order the stream holds them
  committed,    \* checkpoint: records up to here are done
  planned,      \* checkpoint: end of the batch logged last
  seen,         \* checkpoint: ids dropDuplicates remembers
  watermark,    \* checkpoint
  pc,           \* "idle", "batch" or "down"
  step,         \* next write of _process
  rows,         \* per table, the records its rows were made from
  copies,       \* per table and event id, how many rows it holds
  crashes,
  batchEnd,     \* history: end of the batch each record was planned in
  late          \* history: records dropped by the watermark

checkpoint == <<committed, planned, seen, watermark>>
tables == <<rows, copies>>
vars == <<source, checkpoint, pc, step, tables, crashes, batchEnd, late>>

Init ==
  /\ source \in [Positions -> Events]
  /\ committed = 0 /\ planned = 0 /\ seen = {} /\ watermark = 0
  /\ pc = "idle" /\ step = 1
  /\ rows = [t \in Tables |-> {}] /\ copies = [t \in Tables |-> [id \in Ids |-> 0]]
  /\ crashes = 0
  /\ batchEnd = [i \in Positions |-> 0] /\ late = {}

-----------------------------------------------------------------------------
BatchPositions == (committed + 1)..planned
OnTime == {i \in BatchPositions : source[i].time > watermark}
IdsOf(positions) == {source[i].id : i \in positions}

(* prepare_stream: the records dropDuplicates may keep, and the ways to    *)
(* keep one for each id.                                                   *)
Fresh == {i \in OnTime : source[i].id \notin seen}
Deduplicated ==
  {kept \in SUBSET Fresh :
     /\ IdsOf(kept) = IdsOf(Fresh)
     /\ \A i, j \in kept : source[i].id = source[j].id => i = j}

(* A new batch ends anywhere, and its end goes to the offset log.          *)
PlanBatch(end) ==
  /\ pc = "idle" /\ planned = committed /\ committed < end
  /\ planned' = end
  /\ batchEnd' = [i \in Positions |-> IF i \in (committed + 1)..end THEN end ELSE batchEnd[i]]
  /\ pc' = "batch" /\ step' = 1
  /\ UNCHANGED <<source, committed, seen, watermark, tables, crashes, late>>

(* A logged batch that was not committed is run again.                     *)
ReplayBatch ==
  /\ pc = "idle" /\ planned > committed
  /\ pc' = "batch" /\ step' = 1
  /\ UNCHANGED <<source, checkpoint, tables, crashes, batchEnd, late>>

(* The frame each table is appended from.                                  *)
Belongs(table, row) ==
  CASE table = "rejected_events" -> IsRejected(row)
    [] table \in {"silver_transactions", "fact_transaction"} -> ProjectedTo("transaction", row)
    [] table \in {"silver_payments", "fact_payment"} -> ProjectedTo("payment", row)
    [] table \in {"silver_trades", "fact_trade"} -> ProjectedTo("trade", row)

Appended(table, kept) == {i \in kept : Belongs(table, source[i].row)}

(* Mutant of WriteTable: a write that raises is caught and the batch begun *)
(* over in place, instead of ending the query.                             *)
WriteTableOver ==
  /\ pc = "batch" /\ step <= Len(WriteOrder) /\ Fresh # {}
  /\ \/ step' = 1 /\ UNCHANGED tables
     \/ /\ \E kept \in Deduplicated :
             LET table == WriteOrder[step]
                 added == Appended(table, kept)
             IN /\ rows' = [rows EXCEPT ![table] = @ \cup added]
                /\ copies' = [copies EXCEPT ![table] =
                     [id \in Ids |-> @[id] + IF id \in IdsOf(added) THEN 1 ELSE 0]]
        /\ step' = step + 1
  /\ UNCHANGED <<source, checkpoint, pc, crashes, batchEnd, late>>

(* One append: a Delta commit, all of it or nothing.  No two of the rows   *)
(* have the same id.                                                       *)
WriteTable ==
  /\ pc = "batch" /\ step <= Len(WriteOrder) /\ Fresh # {}
  /\ \E kept \in Deduplicated :
       LET table == WriteOrder[step]
           added == Appended(table, kept)
       IN /\ rows' = [rows EXCEPT ![table] = @ \cup added]
          /\ copies' = [copies EXCEPT ![table] =
               [id \in Ids |-> @[id] + IF id \in IdsOf(added) THEN 1 ELSE 0]]
  /\ step' = step + 1
  /\ UNCHANGED <<source, checkpoint, pc, crashes, batchEnd, late>>

(* Mutant of Written: the batch is committed after the first write.        *)
FirstWritten == step > 1 \/ Fresh = {}

(* _process has returned, at once if nothing was left of the batch.        *)
Written == step > Len(WriteOrder) \/ Fresh = {}

(* Mutant of Remembered: the dedup state is not kept across batches.       *)
RememberedNothing == seen

Remembered == seen \cup IdsOf(Fresh)

NextWatermark ==
  Max({watermark} \cup {source[i].time - WatermarkDelay : i \in BatchPositions})

(* The checkpoint moves past the batch.                                    *)
CommitBatch ==
  /\ pc = "batch" /\ Written
  /\ committed' = planned
  /\ seen' = Remembered
  /\ watermark' = NextWatermark
  /\ late' = late \cup (BatchPositions \ OnTime)
  /\ pc' = "idle"
  /\ UNCHANGED <<source, planned, step, tables, crashes, batchEnd>>

(* The driver dies, or validate_spark_dataframe or a write raises an       *)
(* exception, which ends the query.  A failed expectation raises none: the *)
(* verdict is written to a file, and nothing reads it before the appends.  *)
(* Nothing says that the next try fares better: a fault of the data or of  *)
(* the plan is back at every replay.                                       *)
Crash ==
  /\ pc # "down" /\ crashes < MaxCrashes
  /\ crashes' = crashes + 1 /\ pc' = "down"
  /\ UNCHANGED <<source, checkpoint, step, tables, batchEnd, late>>

(* Somebody starts the job again on the same checkpoint (the job runbook), *)
(* some time or never.                                                     *)
Restart ==
  /\ pc = "down"
  /\ pc' = "idle" /\ step' = 1
  /\ UNCHANGED <<source, checkpoint, tables, crashes, batchEnd, late>>

(* Waiting for data.                                                       *)
Drained ==
  /\ pc = "idle" /\ committed = NEvents
  /\ UNCHANGED vars

Query == (\E end \in Positions : PlanBatch(end)) \/ ReplayBatch \/ WriteTable \/ CommitBatch

Next == Query \/ Crash \/ Restart \/ Drained

Spec == Init /\ [][Next]_vars

(* A query that is up keeps running.  Nobody is obliged to start it again. *)
FairSpec == Spec /\ WF_vars(Query)

-----------------------------------------------------------------------------
SameId(i) == {j \in Positions : source[j].id = source[i].id}
Rows(i, table) == copies[table][source[i].id]

(* Records of an id that are all alike: no matter which one is kept.       *)
Alike(i) == \A j \in SameId(i) : source[j].row = source[i].row

TypeOK ==
  /\ source \in [Positions -> Events]
  /\ committed \in 0..NEvents /\ planned \in committed..NEvents
  /\ seen \subseteq Ids
  /\ watermark \in Nat
  /\ pc \in {"idle", "batch", "down"}
  /\ step \in 1..(Len(WriteOrder) + 1)
  /\ rows \in [Tables -> SUBSET Positions] /\ copies \in [Tables -> [Ids -> Nat]]
  /\ crashes \in 0..MaxCrashes
  /\ batchEnd \in [Positions -> 0..NEvents]
  /\ late \subseteq Positions

(* Nothing a committed batch held is missing: every record that was not    *)
(* late, and whose id stands for one row only, is in each table it belongs *)
(* to, whatever crashes came in between.                                   *)
CommittedLands ==
  \A i \in 1..committed : i \notin late /\ Alike(i) =>
    \A t \in Tables : Belongs(t, source[i].row) => Rows(i, t) >= 1

(* Replaying a batch repeats its rows: an id is in a table once, and once  *)
(* more for each crash at most, although its record came several times.    *)
CopiesBounded ==
  \A i \in Positions, t \in Tables : Rows(i, t) <= 1 + crashes

(* Only rows that met in one batch can give an event two verdicts: neither *)
(* a replay nor a duplicate in a later batch can.                          *)
OneVerdictPerBatch ==
  \A i, j \in Positions :
    /\ source[i].id = source[j].id
    /\ i \in rows["rejected_events"]
    /\ \E t \in Tables \ {"rejected_events"} : j \in rows[t]
    => batchEnd[i] = batchEnd[j]

(* The facts never run ahead of the silver tables, and fall behind them by *)
(* the batch in hand and one more row for each crash at most.              *)
FactsFollowSilver ==
  \A i \in Positions :
    Alike(i) =>
      \A pair \in {<<"silver_transactions", "fact_transaction">>,
                   <<"silver_payments", "fact_payment">>,
                   <<"silver_trades", "fact_trade">>} :
        /\ Rows(i, pair[2]) <= Rows(i, pair[1])
        /\ Rows(i, pair[1]) <= Rows(i, pair[2]) + crashes + IF pc = "batch" THEN 1 ELSE 0

(* A query that stays up from some time on commits every record, wherever  *)
(* it was killed before and whichever batch it has to replay.  It says     *)
(* nothing of a query that fails for ever, as one does whose batch makes a *)
(* write raise at every replay: then nothing moves past that batch.        *)
StreamAdvances == <>[](pc # "down") => <>(committed = NEvents)

=============================================================================
