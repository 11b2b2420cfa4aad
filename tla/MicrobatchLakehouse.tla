------------------------ MODULE MicrobatchLakehouse ------------------------
(***************************************************************************)
(* The transform and publish tasks of the streaming DAG, as run by DAG     *)
(* runs that retry and may overlap: financial_streaming_microbatch_        *)
(* pipeline.py rewrites five local parquet tables from all bronze files,   *)
(* then stream_publisher uploads whatever the local directories hold to    *)
(* S3, where nothing is ever deleted.                                      *)
(*                                                                         *)
(* Spark is external.  An overwrite first empties the table's directory,   *)
(* evaluates its frame, and moves its files in at the end; two overwrites  *)
(* of one directory share its temporary files.  The frame is evaluated     *)
(* anew for each table, so equal processing timestamps may be ranked       *)
(* differently each time.  Every part file has a name of its own.          *)
(***************************************************************************)
EXTENDS Integers, FiniteSets, FiniteSetsExt, StreamSplit

CONSTANTS
  Runs,             \* DAG runs
  MaxActiveRuns,    \* airflow.cfg: max_active_runs_per_dag
  Attempts,         \* tries of one task: the default retries plus one
  Ids,              \* event ids
  Times,            \* processing timestamps
  RowKinds,         \* the rows that arrive
  GoldTables,       \* the gold tables, in the order they are written
  MaxBronze,        \* bound: versions in the bronze files
  MaxKills          \* bound: tasks killed or timed out, of all runs together

Versions == [id : Ids, ptime : Times, row : RowKinds]

GoldByName == <<"customer_trade_exposure", "fact_trade", "trade_minute_metrics">>
GoldNames == ToSet(GoldByName)

ASSUME LakehouseAssumption ==
  /\ GoldTables \in Seq(GoldNames) /\ IsInjective(GoldTables)
  /\ RowKinds \subseteq Row /\ Times \subseteq Nat \ {0} /\ IsFiniteSet(Times)
  /\ MaxActiveRuns \in Nat \ {0} /\ Attempts \in Nat \ {0} /\ MaxBronze \in Nat
  /\ MaxKills \in Nat

WriteOrder == <<"rejected_events", "silver_trades">> \o GoldTables

Tables == ToSet(WriteOrder)
TradeTables == Tables \ {"rejected_events"}

VARIABLES
  bronze,       \* the versions in the local bronze files
  task,         \* per run, "waiting", "transform", "publish", "done", "failed"
  attempt,      \* per run, the try its task is in
  step,         \* per run, position in the task
  snapshot,     \* per run, the versions in the files spark.read listed
  writing,      \* per run, "no", "open" or "disturbed"
  queue,        \* per run, the files its publisher has listed, table and part
  local,        \* per table, the parts in its local directory
  s3,           \* per table, the parts under its S3 prefix
  s3raw,        \* the versions in the raw files on S3
  kills,        \* tasks killed so far
  overlapped    \* history: two runs have been active at once

vars == <<bronze, task, attempt, step, snapshot, writing, queue, local, s3, s3raw, kills, overlapped>>

Init ==
  /\ bronze \in {landed \in SUBSET Versions : Cardinality(landed) <= MaxBronze}
  /\ task = [r \in Runs |-> "waiting"]
  /\ attempt = [r \in Runs |-> 1]
  /\ step = [r \in Runs |-> 0]
  /\ snapshot = [r \in Runs |-> {}]
  /\ writing = [r \in Runs |-> "no"]
  /\ queue = [r \in Runs |-> {}]
  /\ local = [t \in Tables |-> {}]
  /\ s3 = [t \in Tables |-> {}]
  /\ s3raw = {}
  /\ kills = 0 /\ overlapped = FALSE

-----------------------------------------------------------------------------
(* The consumer of another run writes a bronze file.                       *)
Land(v) ==
  /\ v \notin bronze /\ Cardinality(bronze) < MaxBronze
  /\ bronze' = bronze \cup {v}
  /\ UNCHANGED <<task, attempt, step, snapshot, writing, queue, local, s3, s3raw, kills, overlapped>>

Active == {r \in Runs : task[r] \in {"transform", "publish"}}

Begin(r, name) ==
  /\ task' = [task EXCEPT ![r] = name]
  /\ attempt' = [attempt EXCEPT ![r] = 1]
  /\ step' = [step EXCEPT ![r] = 0]

StartRun(r) ==
  /\ task[r] = "waiting" /\ Cardinality(Active) < MaxActiveRuns
  /\ Begin(r, "transform")
  /\ overlapped' = (overlapped \/ Active # {})
  /\ UNCHANGED <<bronze, snapshot, writing, queue, local, s3, s3raw, kills>>

-----------------------------------------------------------------------------
(* The transform task.                                                     *)

(* spark.read lists the files; with none of them it raises.                *)
ReadEvents(r) ==
  /\ task[r] = "transform" /\ step[r] = 0 /\ bronze # {}
  /\ snapshot' = [snapshot EXCEPT ![r] = bronze]
  /\ step' = [step EXCEPT ![r] = 1]
  /\ UNCHANGED <<bronze, task, attempt, writing, queue, local, s3, s3raw, kills, overlapped>>

(* The ways to keep one version of each id: the latest, whichever of them  *)
(* row_number puts first.                                                  *)
LatestOf(versions) ==
  {v \in versions : \A w \in versions : w.id = v.id => w.ptime <= v.ptime}

OneEach(versions) ==
  {kept \in SUBSET versions :
     /\ \A v \in versions : \E w \in kept : w.id = v.id
     /\ \A v, w \in kept : v.id = w.id => v = w}

(* Mutant of Deduplicated: the files are listed again for each table.      *)
DeduplicatedFromDisk(r) == OneEach(LatestOf(bronze))

(* Mutant of Deduplicated: the window is not ordered.                      *)
DeduplicatedUnordered(r) == OneEach(snapshot[r])

Deduplicated(r) == OneEach(LatestOf(snapshot[r]))

(* The versions a table is made from, read with the micro-batch schema:    *)
(* the two aggregates are summed from the projected trades.                *)
RowsFor(table, kept) ==
  IF table = "rejected_events" THEN {v \in kept : IsRejected(MicrobatchRow(v.row))}
  ELSE {v \in kept : ProjectedTo("trade", MicrobatchRow(v.row))}

Writes(r, table) ==
  /\ task[r] = "transform" /\ step[r] \in 1..Len(WriteOrder)
  /\ WriteOrder[step[r]] = table

(* Another run at work in the same directory loses its temporary files.    *)
Disturb(r, table, own) ==
  writing' = [q \in Runs |->
    IF q = r THEN own
    ELSE IF Writes(q, table) /\ writing[q] = "open" THEN "disturbed" ELSE writing[q]]

(* mode("overwrite"): the directory is emptied first.                      *)
OpenTable(r, table) ==
  /\ Writes(r, table) /\ writing[r] = "no"
  /\ local' = [local EXCEPT ![table] = {}]
  /\ Disturb(r, table, "open")
  /\ UNCHANGED <<bronze, task, attempt, step, snapshot, queue, s3, s3raw, kills, overlapped>>

(* The files are moved in, beside what another run may have moved in since;*)
(* of a disturbed write any part may be missing.                           *)
CommitTable(r, table) ==
  /\ Writes(r, table) /\ writing[r] # "no"
  /\ \E kept \in Deduplicated(r) :
     \E moved \in IF writing[r] = "disturbed" THEN SUBSET RowsFor(table, kept)
                  ELSE {RowsFor(table, kept)} :
       local' = [local EXCEPT ![table] =
                   @ \cup {[generation |-> <<r, attempt[r]>>, rows |-> moved]}]
  /\ Disturb(r, table, "no")
  /\ step' = [step EXCEPT ![r] = @ + 1]
  /\ UNCHANGED <<bronze, task, attempt, snapshot, queue, s3, s3raw, kills, overlapped>>

(* The transform has returned and the publish task begins.                 *)
Hand(r) ==
  /\ task[r] = "transform" /\ step[r] > Len(WriteOrder)
  /\ Begin(r, "publish")
  /\ UNCHANGED <<bronze, snapshot, writing, queue, local, s3, s3raw, kills, overlapped>>

-----------------------------------------------------------------------------
(* The publish task: layer after layer, the files under the layer's root   *)
(* are listed, then uploaded in the order of their paths.                  *)

(* Mutant of LayerOrder: the raw layer goes last.                          *)
LayerOrderRawLast ==
  << <<"silver_trades">>, GoldByName, <<"rejected_events">>, <<"raw">> >>

(* The layers, each with the tables under its root.                        *)
LayerOrder ==
  << <<"raw">>, <<"silver_trades">>, GoldByName, <<"rejected_events">> >>

Layer(r) == LayerOrder[step[r]]

ListLayer(r) ==
  /\ task[r] = "publish" /\ step[r] < Len(LayerOrder) /\ queue[r] = {}
  /\ step' = [step EXCEPT ![r] = @ + 1]
  /\ LET listed == ToSet(LayerOrder[step[r] + 1]) IN
       /\ queue' = [queue EXCEPT ![r] =
                      UNION {{<<t, part>> : part \in local[t]} : t \in listed \cap Tables}]
       /\ s3raw' = IF "raw" \in listed THEN s3raw \cup bronze ELSE s3raw
  /\ UNCHANGED <<bronze, task, attempt, snapshot, writing, local, s3, kills, overlapped>>

(* The file whose turn it is: one of the first directory not done yet.     *)
IsNext(r, table) ==
  \E k \in DOMAIN Layer(r) :
    /\ Layer(r)[k] = table
    /\ \A file \in queue[r] : file[1] \notin ToSet(SubSeq(Layer(r), 1, k - 1))

(* Mutant of Stored: the upload replaces what the prefix held.             *)
StoredAlone(table, part) == [s3 EXCEPT ![table] = {part}]

Stored(table, part) == [s3 EXCEPT ![table] = @ \cup {part}]

(* upload_file raises when the file has gone since it was listed.          *)
Upload(r, table, part) ==
  /\ task[r] = "publish" /\ <<table, part>> \in queue[r] /\ IsNext(r, table)
  /\ part \in local[table]
  /\ s3' = Stored(table, part)
  /\ queue' = [queue EXCEPT ![r] = @ \ {<<table, part>>}]
  /\ UNCHANGED <<bronze, task, attempt, step, snapshot, writing, local, s3raw, kills, overlapped>>

FinishRun(r) ==
  /\ task[r] = "publish" /\ step[r] = Len(LayerOrder) /\ queue[r] = {}
  /\ task' = [task EXCEPT ![r] = "done"]
  /\ UNCHANGED <<bronze, attempt, step, snapshot, writing, queue, local, s3, s3raw, kills, overlapped>>

-----------------------------------------------------------------------------
Exhausted(r) == attempt[r] = Attempts

(* Airflow runs a failed task again from its start, or fails the run.      *)
Fail(r) ==
  /\ IF Exhausted(r) THEN task' = [task EXCEPT ![r] = "failed"] /\ UNCHANGED attempt
     ELSE attempt' = [attempt EXCEPT ![r] = @ + 1] /\ UNCHANGED task
  /\ step' = [step EXCEPT ![r] = 0]
  /\ writing' = [writing EXCEPT ![r] = "no"]
  /\ queue' = [queue EXCEPT ![r] = {}]
  /\ UNCHANGED <<bronze, snapshot, local, s3, s3raw, overlapped>>

TaskKilled(r) ==
  /\ r \in Active /\ kills < MaxKills
  /\ kills' = kills + 1
  /\ Fail(r)

(* There is no bronze file to read, a write misses its temporary files, or *)
(* the next file to upload is gone.                                        *)
TaskRaises(r) ==
  /\ \/ task[r] = "transform" /\ step[r] = 0 /\ bronze = {}
     \/ writing[r] = "disturbed"
     \/ \E file \in queue[r] : IsNext(r, file[1]) /\ file[2] \notin local[file[1]]
  /\ Fail(r) /\ UNCHANGED kills

RunStep(r) ==
  \/ StartRun(r) \/ ReadEvents(r) \/ Hand(r) \/ ListLayer(r) \/ FinishRun(r)
  \/ TaskKilled(r) \/ TaskRaises(r)
  \/ \E table \in Tables :
       \/ OpenTable(r, table) \/ CommitTable(r, table)
       \/ \E part \in local[table] : Upload(r, table, part)

(* Every run is over.                                                      *)
Over == (\A r \in Runs : task[r] \in {"done", "failed"}) /\ UNCHANGED vars

Next == (\E v \in Versions : Land(v)) \/ (\E r \in Runs : RunStep(r)) \/ Over

Spec == Init /\ [][Next]_vars

-----------------------------------------------------------------------------
Accepted == {v \in Versions : ProjectedTo("trade", MicrobatchRow(v.row))}

(* stg_stream_trades: of each id the version with the latest processing    *)
(* timestamp, among all parts ever published.                              *)
Shown == UNION {part.rows : part \in s3["silver_trades"]}
Book == [id \in Ids |-> Max({0} \cup {v.ptime : v \in {w \in Shown : w.id = id}})]

Parts == [generation : Runs \X (1..Attempts), rows : SUBSET Versions]

TypeOK ==
  /\ bronze \subseteq Versions
  /\ task \in [Runs -> {"waiting", "transform", "publish", "done", "failed"}]
  /\ attempt \in [Runs -> 1..Attempts]
  /\ step \in [Runs -> 0..Max({Len(WriteOrder) + 1, Len(LayerOrder)})]
  /\ \A r \in Runs : snapshot[r] \subseteq bronze
  /\ writing \in [Runs -> {"no", "open", "disturbed"}]
  /\ \A t \in Tables : local[t] \cup s3[t] \subseteq [generation : Runs \X (1..Attempts), rows : SUBSET bronze]
  /\ \A r \in Runs : queue[r] \subseteq Tables \X Parts
  /\ s3raw \subseteq bronze
  /\ kills \in 0..MaxKills
  /\ overlapped \in BOOLEAN

PartsOf(table) == local[table] \cup s3[table]

(* The five tables of one generation tell one story although each of them  *)
(* evaluates the events again while bronze files keep arriving: the trade  *)
(* tables hold the same versions and no event of them is rejected as well. *)
(* Equal processing timestamps of an id, and overlapping runs, break it.   *)
Untied == \A v, w \in bronze : v.id = w.id /\ v.ptime = w.ptime => v = w

GenerationAgrees ==
  ~overlapped /\ Untied =>
    \A t, u \in Tables : \A p \in PartsOf(t), q \in PartsOf(u) :
      p.generation = q.generation =>
        IF {t, u} \subseteq TradeTables \/ t = u THEN p.rows = q.rows
        ELSE \A v \in p.rows, w \in q.rows : v.id # w.id

(* Whatever a table on S3 was made from is on S3 as raw events too, unless *)
(* runs overlapped and one published what another had just written.        *)
AuditTrail ==
  ~overlapped => \A t \in Tables : \A part \in s3[t] : part.rows \subseteq s3raw

(* A run that succeeds has published every event its transform read: of    *)
(* each id whose latest versions are acceptable, that one or a later one is*)
(* shown.  An overlapping run may empty the tables between the two tasks.  *)
DoneMeansPublished ==
  \A r \in Runs :
    ~overlapped /\ task[r] = "done" =>
      \A v \in LatestOf(snapshot[r]) :
        (\A w \in LatestOf(snapshot[r]) : w.id = v.id => w \in Accepted)
          => Book[v.id] >= v.ptime

(* fct_stream_trades implements TradeBook, overlapping runs, retries and   *)
(* stale publishers included.                                              *)
AbstractBook == INSTANCE TradeBook WITH landed <- bronze \cap Accepted, book <- Book

ImplementsTradeBook == AbstractBook!Spec

=============================================================================
