------------------------------ MODULE BatchDag ------------------------------
(***************************************************************************)
(* financial_batch_workflow: its runs, the tasks of a run and their        *)
(* retries, over the directories and the bucket all runs share.  An        *)
(* extraction (PlaidExtraction) is its stamp, the second in the names of   *)
(* its files; a table is reduced to the extractions its rows come from.    *)
(* The tasks after publish_curated_batch that only ask Athena are left     *)
(* out, and so are the datasets that are always empty in this workflow.    *)
(***************************************************************************)
EXTENDS Naturals, Sequences, FiniteSets, SequencesExt

CONSTANTS
  Runs,
  Datasets,     \* accounts and transactions, after the customers if they are modelled
  Layers,       \* of silver, gold, in this order; gold is the last
  Attempts,     \* the tries of a task: one and `retries` more
  MaxFailures   \* kills, refused calls and late deliveries of the bank

ASSUME DatasetsAssumption ==
  Datasets \in {<<"accounts", "transactions">>, <<"customers", "accounts", "transactions">>}
ASSUME LayersAssumption == Layers \in {<<"gold">>, <<"silver", "gold">>}
ASSUME AttemptsAssumption == Attempts \in Nat \ {0} /\ MaxFailures \in Nat

VARIABLES
  clock,        \* the stamp of the last extraction
  empty,        \* the stamps whose transactions file is empty
  files,        \* data/external_sources/canonical: <<dataset, stamp>>
  suites,       \* the expectation suites on disk, by dataset
  raw,          \* batch/raw in S3: <<"data" or "metadata", dataset, stamp>>
  bronze,       \* data/lakehouse/batch/raw: <<dataset, stamp>>
  lake,         \* data/lakehouse/batch: by layer and table, a Delta table
  s3,           \* its copy in S3: the versions whose log and data are there
  run,          \* the state of each run
  failures,
  overlapped    \* the runs that were active while another was

disk == <<clock, empty, files, suites, bronze, lake>>
vars == <<disk, raw, s3, run, failures, overlapped>>

Balances == "daily_account_balances"
Tables == Append(Datasets, Balances)

Idle == [task |-> "none", todo |-> <<>>, attempt |-> 0, own |-> 0, staged |-> {},
         frame |-> {}, seen |-> <<>>, wrote |-> 0, report |-> <<>>, clashed |-> FALSE]

Init ==
  /\ clock = 0 /\ empty = {} /\ files = {} /\ suites = {} /\ raw = {} /\ bronze = {}
  /\ lake = [layer \in Range(Layers) |-> [t \in Range(Tables) |-> [version |-> 0, of |-> {}]]]
  /\ s3 = [layer \in Range(Layers) |-> [t \in Range(Tables) |-> [log |-> 0, data |-> 0]]]
  /\ run = [r \in Runs |-> Idle] /\ failures = 0 /\ overlapped = {}

-----------------------------------------------------------------------------
(* The runs, their tasks and the retries.                                  *)
TaskOrder ==
  <<"extract", "validate", "upload", "stage", "spark", "publish", "report", "done">>

Following(task) == TaskOrder[1 + CHOOSE i \in DOMAIN TaskOrder : TaskOrder[i] = task]

Active(r) == run[r].task \notin {"none", "done", "failed"}

(* A run is started by the schedule or by hand, whatever the others do.    *)
StartRun(r) ==
  /\ run[r].task = "none"
  /\ run' = [run EXCEPT ![r].task = "extract", ![r].attempt = 1]
  /\ overlapped' = overlapped \cup
       (IF \E q \in Runs : Active(q) THEN {q \in Runs : Active(q)} \cup {r} ELSE {})
  /\ UNCHANGED <<disk, raw, s3, failures>>

(* A task first finds its work, then does it piece by piece.  A piece is   *)
(* <<phase, dataset or table, stamp>>.                                     *)
Begins(r, task) == run[r].task = task /\ run[r].todo = <<>>
Works(r, task) == run[r].task = task /\ run[r].todo # <<>>
Piece(r) == Head(run[r].todo)

Planned(r, task, work) ==
  /\ Begins(r, task) /\ work # <<>>
  /\ run' = [run EXCEPT ![r].todo = work]

Turned(state, phase) ==
  [state EXCEPT !.todo = << <<phase, @[1][2], @[1][3]>> >> \o Tail(@)]

(* Mutant of SparkOrder: the transactions before the accounts.             *)
Backwards == Reverse(Tables)

SparkOrder == Tables

(* What a task does whatever it finds; the others look first.              *)
FixedWork(task) ==
  CASE task = "spark" -> [i \in DOMAIN SparkOrder |-> <<Layers[1], SparkOrder[i], 0>>]
    [] task = "publish" -> [i \in DOMAIN Layers |-> <<"list", Layers[i], 0>>]
    [] OTHER -> <<>>

Restarted(state) ==
  [state EXCEPT !.todo = FixedWork(state.task), !.frame = {}, !.seen = <<>>]

Finished(state) ==
  Restarted([state EXCEPT !.task = Following(@), !.attempt = 1])

Advanced(state) ==
  IF Len(state.todo) > 1 THEN [state EXCEPT !.todo = Tail(@)] ELSE Finished(state)

(* A task that fails is tried again from its beginning.                    *)
Retried(state) ==
  Restarted(IF state.attempt >= Attempts THEN [state EXCEPT !.task = "failed"]
            ELSE [state EXCEPT !.attempt = @ + 1])

FailsOutside == failures < MaxFailures /\ failures' = failures + 1

(* A kill, a timeout, a service that refuses: between any two pieces.      *)
TaskKilled(r) ==
  /\ Active(r) /\ FailsOutside
  /\ run' = [run EXCEPT ![r] = Retried(@)]
  /\ UNCHANGED <<disk, raw, s3, overlapped>>

Stamps(dataset) == {f[2] : f \in {g \in files : g[1] = dataset}}

(* Mutant of Latest: the oldest file.                                      *)
Oldest(dataset) == IF Stamps(dataset) = {} THEN 0 ELSE Min(Stamps(dataset))

(* The newest file of a dataset by the stamp in its name, 0 if there is    *)
(* none: discover_batch_files with latest_only, find_latest_dataset_file   *)
(* and _latest_file agree on it.                                           *)
Latest(dataset) == IF Stamps(dataset) = {} THEN 0 ELSE Max(Stamps(dataset))

(* The newest file of each dataset, in the order of the names.             *)
Discovered(phase) ==
  LET NewestOf(dataset) ==
        IF Stamps(dataset) = {} THEN <<>> ELSE << <<phase, dataset, Latest(dataset)>> >>
  IN NewestOf("accounts") \o NewestOf("customers") \o NewestOf("transactions")

-----------------------------------------------------------------------------
(* extract_plaid_batch: everything is read before the first file is        *)
(* written; the bank may not have delivered any transaction yet.           *)
Extract(r) ==
  /\ Begins(r, "extract")
  /\ clock' = clock + 1
  /\ \/ UNCHANGED <<empty, failures>>
     \/ FailsOutside /\ empty' = empty \cup {clock'}
  /\ run' = [run EXCEPT ![r].own = clock',
       ![r].todo = [i \in DOMAIN Datasets |-> <<"write", Datasets[i], clock'>>]]
  /\ UNCHANGED <<files, suites, bronze, lake, raw, s3, overlapped>>

WriteFile(r) ==
  /\ Works(r, "extract")
  /\ files' = files \cup {<<Piece(r)[2], Piece(r)[3]>>}
  /\ run' = [run EXCEPT ![r] = Advanced(@)]
  /\ UNCHANGED <<clock, empty, suites, bronze, lake, raw, s3, failures, overlapped>>

-----------------------------------------------------------------------------
(* validate_extracted_batch.                                               *)
PlanValidation(r) ==
  /\ Planned(r, "validate", Discovered("clear"))
  /\ UNCHANGED <<disk, raw, s3, failures, overlapped>>

(* Mutant of Cleared: the suite that is there is left.                     *)
NotCleared(dataset) == suites

(* ensure_suite up to the add: what is there, whole or corrupt, goes.      *)
Cleared(dataset) == suites \ {dataset}

ClearSuite(r) ==
  /\ Works(r, "validate") /\ Piece(r)[1] = "clear"
  /\ suites' = Cleared(Piece(r)[2])
  /\ run' = [run EXCEPT ![r] = Turned(@, "add")]
  /\ UNCHANGED <<clock, empty, files, bronze, lake, raw, s3, failures, overlapped>>

HoldsNothing(piece) == piece[2] = "transactions" /\ piece[3] \in empty

(* suites.add raises when another validation was faster; a file that holds *)
(* nothing fails its suite, and a suite that failed the command.           *)
AddSuiteAndRun(r) ==
  /\ Works(r, "validate") /\ Piece(r)[1] = "add"
  /\ suites' = suites \cup {Piece(r)[2]}
  /\ run' = [run EXCEPT ![r] =
       IF Piece(r)[2] \in suites THEN [Retried(@) EXCEPT !.clashed = TRUE]
       ELSE IF HoldsNothing(Piece(r)) THEN Retried(@) ELSE Advanced(@)]
  /\ UNCHANGED <<clock, empty, files, bronze, lake, raw, s3, failures, overlapped>>

-----------------------------------------------------------------------------
(* upload_bronze_batch.                                                    *)

(* Mutant of PutOrder: the metadata goes up first.                         *)
MetadataFirst == <<"metadata", "data">>

PutOrder == <<"data", "metadata">>

PlanUpload(r) ==
  /\ Planned(r, "upload", Discovered(PutOrder[1]))
  /\ UNCHANGED <<disk, raw, s3, failures, overlapped>>

(* A file without records raises before its first put.                     *)
Put(r) ==
  /\ Works(r, "upload")
  /\ raw' = IF HoldsNothing(Piece(r)) THEN raw ELSE raw \cup {Piece(r)}
  /\ run' = [run EXCEPT ![r] =
       IF HoldsNothing(Piece(r)) THEN Retried(@)
       ELSE IF Piece(r)[1] = PutOrder[1] THEN Turned(@, PutOrder[2]) ELSE Advanced(@)]
  /\ UNCHANGED <<disk, s3, failures, overlapped>>

(* A put that is given up may have been done: its answer was lost.         *)
PutGivenUp(r) ==
  /\ Works(r, "upload") /\ ~HoldsNothing(Piece(r)) /\ FailsOutside
  /\ raw' = raw \cup {Piece(r)}
  /\ run' = [run EXCEPT ![r] = Retried(@)]
  /\ UNCHANGED <<disk, s3, overlapped>>

-----------------------------------------------------------------------------
(* stage_local_bronze: the three files are looked for at once, then copied *)
(* one after the other; the balances are derived from the same files and   *)
(* named after the transactions.                                           *)
PlanStage(r) ==
  /\ Begins(r, "stage")
  /\ run' = [run EXCEPT ![r] =
       IF \E i \in DOMAIN Datasets : Latest(Datasets[i]) = 0 THEN Retried(@)
       ELSE [@ EXCEPT !.staged = {},
               !.todo = Append([i \in DOMAIN Datasets |->
                                  <<"copy", Datasets[i], Latest(Datasets[i])>>],
                               <<"derive", Balances,
                                 <<Latest("accounts"), Latest("transactions")>>>>)]]
  /\ UNCHANGED <<disk, raw, s3, failures, overlapped>>

Overwritten(piece) ==
  IF piece[1] = "copy" THEN {}
  ELSE {f \in bronze : f[1] = Balances /\ f[2][2] = piece[3][2]}

StageFile(r) ==
  /\ Works(r, "stage")
  /\ LET file == <<Piece(r)[2], Piece(r)[3]>> IN
       /\ bronze' = (bronze \ Overwritten(Piece(r))) \cup {file}
       /\ run' = [run EXCEPT ![r] = Advanced([run[r] EXCEPT !.staged = run[r].staged \cup {file}])]
  /\ UNCHANGED <<clock, empty, files, suites, lake, raw, s3, failures, overlapped>>

-----------------------------------------------------------------------------
(* run_spark_batch.                                                        *)

(* The bronze directory is never emptied: every extraction staged so far   *)
(* is in the frame.                                                        *)
FrameOf(table) == {f[2] : f \in {g \in bronze : g[1] = table}}

(* deduplicate_latest: accounts, transactions and their balances have ids  *)
(* of their own in every extraction; customers have the same, tie on the   *)
(* ingestion time, and any of them is kept.                                *)
Deduplications(table, frame) ==
  IF table = "customers" THEN {{stamp} : stamp \in frame} ELSE {frame}

(* write_delta: one commit that replaces the table.                        *)
WriteDelta(layer, table, rows) ==
  lake' = [lake EXCEPT ![layer][table] = [version |-> @.version + 1, of |-> rows]]

(* One table of one layer.  The files are listed for the first layer; gold *)
(* is built from the same frame, not from the silver table, and so it is   *)
(* deduplicated again.                                                     *)
WriteTable(r) ==
  /\ Works(r, "spark")
  /\ LET layer == Piece(r)[1]
         table == Piece(r)[2]
         frame == IF layer = Layers[1] THEN FrameOf(table) ELSE run[r].frame
         state == [run[r] EXCEPT !.frame = frame,
                     !.wrote = IF <<layer, table>> = <<"gold", "transactions">>
                               THEN lake[layer][table].version + 1 ELSE @]
     IN /\ \E rows \in Deduplications(table, frame) : WriteDelta(layer, table, rows)
        /\ run' = [run EXCEPT ![r] =
             IF layer = "gold" THEN Advanced(state) ELSE Turned(state, "gold")]
  /\ UNCHANGED <<clock, empty, files, suites, bronze, raw, s3, failures, overlapped>>

-----------------------------------------------------------------------------
(* publish_curated_batch, layer by layer: the files are listed, then put   *)
(* by name, a table's _delta_log before its data.                          *)

Named(table) == IF table \in Range(Tables) THEN <<table>> ELSE <<>>

(* Mutant of PublishOrder: the table named last is passed over.            *)
LastLeftOut == Named("accounts") \o Named("customers") \o Named(Balances)

PublishOrder ==
  Named("accounts") \o Named("customers") \o Named(Balances) \o Named("transactions")

Versions(layer) == [t \in Range(Tables) |-> lake[layer][t].version]

(* rglob walks the directories of a layer in any order while another run   *)
(* may be writing: the logs and the data are not seen at one time.         *)
ListFirst(r) ==
  /\ Works(r, "publish") /\ Piece(r)[1] = "list"
  /\ LET now == Versions(Piece(r)[2]) IN
       run' = [run EXCEPT ![r] = Turned([@ EXCEPT !.seen = [log |-> now, data |-> now]],
                                        "list on")]
  /\ UNCHANGED <<disk, raw, s3, failures, overlapped>>

ListSecond(r) ==
  /\ Works(r, "publish") /\ Piece(r)[1] = "list on"
  /\ LET layer == Piece(r)[2] IN
       \E second \in {"log", "data"} :
         run' = [run EXCEPT
           ![r].seen = [@ EXCEPT ![second] = Versions(layer)],
           ![r].todo = [i \in DOMAIN PublishOrder |-> <<"log", PublishOrder[i], layer>>]
                       \o Tail(@)]
  /\ UNCHANGED <<disk, raw, s3, failures, overlapped>>

(* A file put again or put late is the same file: versions only add.       *)
UploadFiles(r) ==
  /\ Works(r, "publish") /\ Piece(r)[1] \in {"log", "data"}
  /\ LET part == Piece(r)[1]
         version == run[r].seen[part][Piece(r)[2]]
     IN /\ s3' = [s3 EXCEPT ![Piece(r)[3]][Piece(r)[2]][part] =
                    IF version > @ THEN version ELSE @]
        /\ run' = [run EXCEPT ![r] =
             IF part = "log" THEN Turned(@, "data") ELSE Advanced(@)]
  /\ UNCHANGED <<disk, raw, failures, overlapped>>

-----------------------------------------------------------------------------
(* generate_run_report: what it finds on disk when its turn comes.         *)
Report(r) ==
  /\ Begins(r, "report")
  /\ run' = [run EXCEPT ![r] = Finished([@ EXCEPT
       !.report = [accounts |-> Latest("accounts"), transactions |-> Latest("transactions"),
                   fact_transaction |-> lake.gold["transactions"].version]])]
  /\ UNCHANGED <<disk, raw, s3, failures, overlapped>>

Work(r) ==
  \/ Extract(r) \/ WriteFile(r)
  \/ PlanValidation(r) \/ ClearSuite(r) \/ AddSuiteAndRun(r)
  \/ PlanUpload(r) \/ Put(r)
  \/ PlanStage(r) \/ StageFile(r)
  \/ WriteTable(r)
  \/ ListFirst(r) \/ ListSecond(r) \/ UploadFiles(r)
  \/ Report(r)

Next == \E r \in Runs : StartRun(r) \/ Work(r) \/ PutGivenUp(r) \/ TaskKilled(r)

Spec == Init /\ [][Next]_vars

-----------------------------------------------------------------------------
(* Files, rows and work are of extractions known by their stamps, whichever*)
(* run made them, and a task has only the work that task knows.            *)
SourceFiles(known) == Range(Datasets) \X known
BronzeFiles(known) == SourceFiles(known) \cup ({Balances} \X (known \X known))
Rows(table, known) == IF table = Balances THEN known \X known ELSE known

WorkOf(task, known) ==
  CASE task = "extract" -> {"write"} \X Range(Datasets) \X known
    [] task = "validate" -> {"clear", "add"} \X Range(Datasets) \X known
    [] task = "upload" -> {"data", "metadata"} \X Range(Datasets) \X known
    [] task = "stage" -> ({"copy"} \X Range(Datasets) \X known)
                           \cup ({"derive"} \X {Balances} \X (known \X known))
    [] task = "spark" -> Range(Layers) \X Range(Tables) \X {0}
    [] task = "publish" -> ({"list", "list on"} \X Range(Layers) \X {0})
                             \cup ({"log", "data"} \X Range(Tables) \X Range(Layers))
    [] OTHER -> {}

StateOK(state, known) ==
  /\ state.task \in Range(TaskOrder) \cup {"none", "failed"}
  /\ state.todo \in Seq(WorkOf(state.task, known))
  /\ state.attempt \in 0..Attempts /\ state.own \in {0} \cup known /\ state.wrote \in Nat
  /\ state.staged \subseteq BronzeFiles(known)
  /\ state.task = "spark" /\ state.todo # <<>> /\ state.todo[1][1] # Layers[1] =>
       state.frame \subseteq Rows(state.todo[1][2], known)
  /\ state.seen \in {<<>>} \cup [{"log", "data"} -> [Range(Tables) -> Nat]]
  /\ state.report \in {<<>>} \cup [accounts : {0} \cup known, transactions : {0} \cup known,
                                  fact_transaction : Nat]
  /\ state.clashed \in BOOLEAN

(* What the disk, the lake, S3 and the runs hold is of extractions that    *)
(* took place.                                                             *)
TypeOK ==
  LET known == 1..clock IN
  /\ clock \in Nat /\ empty \subseteq known
  /\ files \subseteq SourceFiles(known) /\ suites \subseteq Range(Datasets)
  /\ raw \subseteq {"data", "metadata"} \X Range(Datasets) \X known
  /\ bronze \subseteq BronzeFiles(known)
  /\ \A layer \in Range(Layers), table \in Range(Tables) :
       /\ lake[layer][table] \in [version : Nat, of : SUBSET Rows(table, known)]
       /\ s3[layer][table] \in [log : Nat, data : Nat]
  /\ DOMAIN run = Runs /\ \A r \in Runs : StateOK(run[r], known)
  /\ failures \in 0..MaxFailures /\ overlapped \subseteq Runs

(* A run no other overlaps carries its own extraction through: what it     *)
(* stages is of the extraction its last try wrote, whole, not empty and on *)
(* S3 with its metadata, the balances derived from the same files, however *)
(* many tries came before; and its report is about that extraction and the *)
(* tables made of it.  Every task only asks for the newest files.          *)
OwnExtractionThrough ==
  \A r \in Runs \ overlapped :
    LET own == {<<d, run[r].own>> : d \in Range(Datasets)} IN
      run[r].task \in {"spark", "publish", "report", "done"} =>
        /\ run[r].staged = own \cup {<<Balances, <<run[r].own, run[r].own>>>>}
        /\ run[r].own \notin empty
        /\ \A f \in own : \A kind \in {"data", "metadata"} : <<kind, f[1], f[2]>> \in raw
        /\ run[r].task = "done" =>
             run[r].report = [accounts |-> run[r].own, transactions |-> run[r].own,
                              fact_transaction |-> run[r].wrote]

(* Metadata in batch/raw is about a file that is there, whatever was given *)
(* up or done again.                                                       *)
MetadataMeansData ==
  \A object \in raw :
    object[1] = "metadata" => <<"data", object[2], object[3]>> \in raw

(* A table in S3 names data that is not there only while some run is       *)
(* between the first commit and the last put, or was given up: at rest the *)
(* readers find every version whole, and what a finished run wrote.        *)
PublishedReadable ==
  /\ \A layer \in Range(Layers) : \A t \in Range(Tables) :
       s3[layer][t].log > s3[layer][t].data =>
         \E r \in Runs : run[r].task \in {"spark", "publish", "failed"}
  /\ \A r \in Runs :
       run[r].task \in {"report", "done"} => s3.gold["transactions"].log >= run[r].wrote

(* As long as no two runs overlapped, every transaction and every balance  *)
(* in the facts has its account in dim_account, at every moment and after  *)
(* every failure: the accounts are written, staged and built first.        *)
FactsHaveAccounts ==
  overlapped = {} =>
    /\ lake.gold["transactions"].of \subseteq lake.gold["accounts"].of
    /\ \A pair \in lake.gold[Balances].of : pair[1] \in lake.gold["accounts"].of

(* A validation fails because a suite is there already only when two runs  *)
(* validate at once.                                                       *)
SuiteFailsOnlyTogether == \A r \in Runs : run[r].clashed => r \in overlapped

=============================================================================
