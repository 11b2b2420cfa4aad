# A TLA+ verification project for the financial data platform

The repository is a data platform with two paths. The **batch path** takes files
from Plaid and Alpha Vantage (or a generator), validates them, uploads them to
S3, stages them locally, turns them into Delta tables with Spark and publishes
those. The **streaming path** takes trades from Alpaca, puts them into Kinesis,
consumes them in micro-batches, validates those, rewrites parquet tables with
Spark, publishes them to S3 and builds dbt models on them. Airflow runs both as
linear chains of tasks.

This directory models both paths from the source to what readers are shown. The
streaming path is where the code meets concurrency first: at-least-once delivery,
iterators into a growing log, retries of half-done tasks, recovery from a
checkpoint. The batch path adds paging through a source that changes meanwhile
and tasks that only ever ask for the newest file. In both, overlapping DAG runs
share local directories. Paths below are relative to the root of the repository.

## Inventory

| part | state it keeps | operations | interacts through |
|---|---|---|---|
| `retry()` (`src/common/retry.py`) | attempt counter | try, sleep, give up | wraps AWS calls |
| producer (`src/stream_producer`) | place in the event list, counters, stop flag | load, put, count, stop | Kinesis |
| Alpaca capture (`src/sources/alpaca_streaming`) | messages buffered so far | stream, fall back to REST, write files, put | Kinesis, local files |
| consumer (`src/stream_consumer`) | iterator, empty polls, batch | list shards, open, poll, write three files | Kinesis, local files |
| validation (`src/validation`, `great_expectations/scripts`) | suites and definitions on disk, result files | replace suite, validate newest file | local files |
| micro-batch transform (`databricks/streaming/..._microbatch_pipeline.py`) | five parquet directories | read all bronze, deduplicate, split, overwrite | local files |
| structured streaming (`databricks/streaming/financial_streaming_pipeline.py`) | offset log, commit log, watermark, seen ids | plan, append, commit, replay | Delta tables, checkpoint |
| publisher (`src/stream_publisher`, `src/batch_publisher`) | none; S3 keeps every part | list a layer, upload | S3 |
| Glue, Athena, dbt (`src/stream_catalog`, `src/stream_athena`, `dbt_financial`) | catalogue, views | create or update, poll, rank by id | S3 |
| Airflow DAGs (`airflow/dags`) | task states, tries | start, retry, fail | all of the others |
| batch ingestion (`src/batch_producer`) | uploaded keys | discover, validate, upload | S3 |
| Plaid, Alpha Vantage (`src/sources`) | cursor, files | page through, map, write | HTTP, local files |
| bronze staging (`src/batch_preparation`) | staged files | find latest, copy, derive balances | local files |
| batch Spark (`databricks/batch`) | Delta tables | read, deduplicate, split, overwrite | local files |
| run report (`src/run_report`) | report files | summarise the newest files and tables | local files |
| generator (`src/generators`) | none | generate, copy, damage | files |

Deployment files, warehouse SQL, the QuickSight hand-off and vendored code keep
no state of the running program. `PROJECT.json` lists every part with
what is and is not modelled, and every hazard with its line.

What makes each part correct, and hard:

- *Producer.* A put whose answer is lost may have landed. The counters must
  still say something true of the stream; duplicates must be bounded by the
  tries; acknowledged events of one shard must keep their order; a stop must
  not lose the event being sent.
- *Consumer.* A batch is a gapless cut through shards that grow while it is
  polled; what a kill leaves behind must be recognisable; two processes may
  choose the same file names.
- *Split.* SQL conditions have three values; a row may satisfy neither the
  filter nor its negation.
- *Structured streaming.* A replayed batch appends again; tables of one batch
  may then disagree.
- *Micro-batch lakehouse.* Each table is evaluated anew, readers see every
  generation ever published, and overlapping runs empty each other's tables.
  Readers must still never see an event go back to an older version.
- *Plaid extraction.* Accounts are read before transactions, transactions page by
  page, and the bank posts and settles in between. The bundle must still be the
  log at some moment, to the entry, and the derived balances the bank's own but
  for what can be told of each transaction.
- *Batch workflow.* No task knows which files are its run's: each takes the newest
  it finds. A run must still carry its own extraction through; what is in the
  bucket must be readable; facts must have their dimensions.

## Modules

| module | models | role |
|---|---|---|
| `AwsRetry` | `common/retry.py` | which errors are retried, when `retry()` gives up |
| `DeliveryLedger` | what a producer promises | abstract: events are delivered at least once, or dropped and counted |
| `KinesisProducer` | `stream_producer/service.py` | detailed; implements `DeliveryLedger` |
| `MicroBatch` | what a batch is | abstract: a batch takes from what has arrived, once closed it is final |
| `KinesisConsumer` | `stream_consumer/service.py` | detailed; implements `MicroBatch` |
| `SqlLogic` | Spark's three-valued logic (external) | pure operators |
| `StreamSplit` | `databricks/common/streaming_transformations.py` | the split of stream events, pure operators |
| `BatchSplit` | `databricks/common/transformations.py` | the split of batch rows, pure operators |
| `PlaidMapping`, `AlpacaMapping` | the two `mapper.py` | what a source's record becomes, pure operators |
| `SyntheticRecords` | `src/generators/synthetic_data.py` | copies and damage of the generated batch data, pure operators |
| `SplitFrames` | reading, duplicate removal and split of all three pipelines | runs the five modules above over frames |
| `StreamingForeachBatch` | `databricks/streaming/financial_streaming_pipeline.py` | query, watermark, crash, replay |
| `TradeBook` | what readers are shown | abstract: per event id the newest processing time, never decreasing |
| `MicrobatchLakehouse` | micro-batch transform and publisher | detailed; composes `StreamSplit`; implements `TradeBook` |
| `AlpacaCapture` | `sources/alpaca_streaming` | the capture task with its tries |
| `StreamingDag` | `airflow/dags`, and of each task what it does to the shared directories | composes capture, consume, validate, transform over overlapping runs |
| `PlaidExtraction` | `src/sources/plaid_batch` | one extraction while the bank changes the items; composes `PlaidMapping` and `DailyBalances` |
| `DailyBalances` | `src/batch_preparation/plaid_bronze_stage.py` | the derived balances, pure operators |
| `BatchDag` | `airflow/dags/financial_batch_workflow.py`, `src/batch_producer`, `src/batch_preparation`, `databricks/batch`, `src/batch_publisher`, `src/run_report` | overlapping runs, their tasks and retries, over the shared directories and the bucket |
| `KinesisProducer_proofs`, `KinesisConsumer_proofs`, `StreamingForeachBatch_proofs`, `MicrobatchLakehouse_proofs`, `AlpacaCapture_proofs`, `StreamingDag_proofs`, `ExtractionAndSplits_proofs`, `BatchDag_proofs` | | theorems about the eight detailed modules and `SplitFrames`, with their proofs |
| `MC*` | | constants for TLC |

### How state and actions correspond to the code

**KinesisProducer.** `pc`, `line` and `attempt` are the place in `send_events`
and `retry`; `attempted`, `succeeded`, `failed` are the fields of
`ProducerResult`; `stopRequested` is the flag of `GracefulStopHandler`.
`BeginEvent` is the top of the `for` loop; `PutSucceeds`, `PutRetried` and
`PutFails` are the three ways `_put_record_operation` under `retry()` can go;
`Finish` is the return. `stream` and `inTransit` are Kinesis and the network:
a put may land and be answered, land and lose its answer, land late or vanish,
and the SDK may resend it on its own.

**KinesisConsumer.** One action per call: `ListShards`, `OpenIterator`,
`GetRecords`, `LeaveShard`, `StampFiles`, and for each file `OpenFile` and
`WriteFile`, the two steps of `write_text`: opening empties the file, and the text
is then written from its start. A second run of the same second may do either in
between, so a file is the sequence of the texts written since it was emptied last,
each laid over the ones before it; where a shorter text lies over a longer one the
end of the longer shows. `together` remembers which runs had a file open at a time.
A record is its shard and sequence number. `get_records` may return fewer records
than there are, also none. `Fail` stands for any exception and for a kill;
`FailWriting` leaves the beginning of a text. `Content` is what one of the three
files gets of the batch: its records of that kind, by their places in the batch.
The pieces in which the system writes one text are not told apart: where two such
writes of one file meet, their order piece by piece is left out.

**StreamSplit.** Each condition of `split_stream_valid_and_rejected` is an
operator on a row whose fields are classes of values (present, `NULL`, inside
or outside a set or range). `Reasons` keeps the order of the `when` chain.

**StreamingForeachBatch.** `PlanBatch` writes the offset log, `WriteTable` is
one Delta append of `foreach_batch_processor`, `CommitBatch` writes the commit
log and with it the watermark and the ids to remember; `Crash` may happen at
any step: it is the driver's death, and any exception of the validation or of a
write. A failed expectation raises none: `validate_spark_dataframe` returns its
verdict, which `_process` does not look at. After `Restart` the planned batch is
replayed; it may crash at the same place again. `rows` is the records a table
was appended, `copies` how many rows it has of an id. The duplicate that survives
`dropDuplicates` is chosen anew at each evaluation. `parse_kinesis_payload`
gives the frame two columns named `partition_key`, which the later selection by
name cannot resolve; the model is of the query once its plan resolves.

**MicrobatchLakehouse.** Per run: the task it is in, its try and its step.
`OpenTable` empties a directory, `CommitTable` moves the files in;
`ListLayer` and `Upload` are `publish_directory`; `Fail` is Airflow's retry or
failure of the task. `local` and `s3` hold parts, each with the generation
(run and try) that wrote it and the versions it was made from. `Book` is what
`stg_stream_trades` shows of `s3`.

**AlpacaCapture.** `Handshake` is the three answers nobody looks at; `Receive` is
the loop over frames, which `Taken` cuts at the limit inside a frame; `WebsocketFails`
drops the buffer and goes to `Fallback`. `PutReturns` and `PutRaises` are the two
ways of one `put_record` call, `Fail` and `RetryDelay` Airflow's next try. With
the DAG's default feed (`iex`) `latest_trades_url` raises, so the fallback fails
the task; `CryptoFeed = TRUE` includes that outcome, as any answer may fail.

**StreamingDag.** A run goes through `capture`, `consume`, `validate`,
`transform`; `step` is the place inside a task. `Opened` is `LATEST`,
`Input` is `resolve_input_file`, `Accepts` the verdict of the suite on a file,
`TransformReads` the glob over all bronze files. `TaskFails` may strike between
any two steps and leaves what was put and written.

**BatchSplit and SplitFrames.** As in `StreamSplit`, a row is a record of classes
of values. `Deduplicate` is `deduplicate_latest`, `SplitBatch` and `SplitStream`
the writes that follow. The initial states are the frames; the constants say how
long a frame may be, which ids, amounts, sizes, prices and scores there are and
how many synthetic records. `MCSplitFrames` gives them: every single row of
each schema, what `map_transaction` makes of every Plaid record its validators
let through, what `map_alpaca_trade_to_stream_event` makes of every trade, and
the frames of `_inject_batch_anomalies` up to six records.

**PlaidExtraction.** `step` is the place in the sandbox branch of `cli.py`:
`CreateItem` makes the token and the item of a profile, `ReadAccounts` and
`ReadPage` are the requests of `fetch_raw_bundle`, `Normalize` is
`map_plaid_bundle`, `WriteBundle` combines and writes, `StageBalances` derives
the balances. `drawn[p].pages` keeps one set of places in the log for each answer,
and the bundle has a transaction for every item, answer and place, so that what
comes twice would be there twice; the order inside an answer is left out, as
nothing that is stated depends on it. Between any two of them `BankPosts`,
`BankSettles` and `BankLinks` change the item; a pending transaction that settles
is replaced by a posted one of another id, as Plaid's API does. `Owed` and `Change`
are Plaid's meaning of `current`: what is held in an account, or what is owed on a
credit or loan account, which rises when money leaves. `MappedAccount` takes either
as it is and both become `CHECKING`. `Refused` is `raise_for_status` or a timeout.

**BatchDag.** Per run: `task`, its try, and `todo`, the pieces of work the task
has found and not done yet. An extraction is its stamp, the second in its file
names, and a table is the set of extractions its rows come from. `Discovered`
and `Latest` are the three searches for the newest file; `ClearSuite` and
`AddSuiteAndRun` the two halves of `ensure_suite`; `Put` one `put_object` of a
file or of its metadata; `StageFile` one copy or the derived balances;
`WriteTable` one Delta overwrite, from all files ever staged; `ListFirst` and
`ListSecond` the walk of `rglob` over a layer another run may be writing;
`UploadFiles` a table's log or its data. `TaskKilled` may strike between any two
pieces and `Retried` starts the task again from its beginning.

## Runs

| run | question | bounds |
|---|---|---|
| `producer` | what the counters say of the stream, duplication, order, graceful stop, refinement of `DeliveryLedger`; the loop ends, at its quota unless stopped | 3 of 4 events, 2 shards, 2 tries, 1 SDK resend |
| `consumer` | what a batch is, what killed and overlapping runs leave in the files, refinement of `MicroBatch`, that `LATEST` never reads the backlog; that polling runs out while there is always another record | 1 shard, 2 runs, one from each end, of 2 records at most; 2 empty answers, 2 seconds; the shard gets 2 records, or 3 of any kind once one run was killed at its start |
| `split` | which rows no table gets, whether the reason is true, what the smaller schema changes, whether mapped and synthetic records get the verdict they were made for | frames of one row, of every row and record there can be (amounts and sizes on both sides of every threshold); synthetic frames up to 6 records |
| `foreach_batch` | nothing committed is missing; how far a replay duplicates and disagrees; a query that stays up commits every record | 3 records of 2 ids, good and bad, any batches, 1 crash |
| `lakehouse` | the tables of a generation agree; S3 holds the raw events of all it shows; success means published | 2 runs in sequence, 2 tries, 1 kill, 2 versions of one event |
| `lakehouse_overlap` | the shown version of an event never goes back | 2 overlapping runs, 3 tries, 1 kill |
| `capture` | a captured batch is gapless; the tries together keep the order of the market; what is in the stream is on disk; the task ends | 2 tries, 3 trades, 2 messages, 1 SDK resend |
| `dag` | the gate checks the run's own batch; whose bad records are transformed; a record is read once per active run; runs end | 2 runs, 2 tries of each task, 1 record, overlapping |
| `dag_capture` | finding: a run does not consume what it captured | 2 runs in sequence, 2 records |
| `dag_gate` | finding: a transform reads what the suite did not accept | 2 runs in sequence, 2 records |
| `plaid` | the bundle is the bank's log as it was read; the opening balances are the bank's but for what each transaction puts them off; the extraction ends | 2 profiles, 2 accounts (checking, card), 4 kinds of transaction, 2 days, pages of 1, 3 changes by the bank |
| `batch_dag` | a run carries its own extraction through; what the bucket holds; facts have accounts; when a suite is in the way | 2 overlapping runs, 2 tries of each task, 2 failures, accounts and transactions with their balances, the gold layer |

The exact constants are in the `.cfg` files. Every property of a passing run is
paired in `PROJECT.json` with a mutant of the code's model that violates it under
the same bounds, so the bounds are large enough for each property to matter.
Each of the eight detailed modules also defines `TypeOK`, which is proved for all
constants (`TypeCorrect`); the runs list only what a type cannot say.

Why the bounds suffice: the producer's events interact only through the order in one
shard, for which two events on one shard and one on another suffice; the consumer
needs a second record for a gap, a second run for a shared file name, and for the
end of polling more records than a run may read. All at once are too many states, so
`MCKinesisConsumer` bounds what surrounds the runs: while both take part the shard
gets two records, and once one was killed before it read anything, three of any
kind, so that the other may find a next record at every call and only its limit ends
it. What a run may do is not bounded, and what is true of any list of shards and any
number of runs and records is proved; a replay needs one batch, one crash and two
copies of an event; the lakehouse needs two versions of one event (newer and older)
and two runs (one to publish stale parts of the other); the DAG needs one bad
record, two tries of a task (one to leave a file behind) and a second run to find
it; an extraction needs two pages for something to settle between them, two profiles
for their bundles to mix, and an account that is held and one that is owed; the
batch workflow needs a file that is newer than the one it belongs with, which two
files and two runs give. `MCBatchDag` also defines the three files with customers
and both layers. With all three files and one failure the same properties hold;
silver repeats, table by table, what gold does. Two tries stand for the code's three
in `producer`, `dag` and `batch_dag`: a third adds another chance to leave something
behind, not another kind of step.

**Fairness.** Where liveness is checked, only the program's own steps are weakly
fair: a process that is not killed keeps running. `foreach_batch` is fair to the
steps of a query that is up, and to nothing else: to start it again is a matter of
somebody who follows `monitoring/runbooks/databricks_job_failures.md`, which says to
fix the data or the configuration first. `StreamAdvances` therefore speaks of a query
that from some time on stays up; of one whose fault comes back at every replay nothing
is claimed, and indeed it stands still. Airflow's scheduler starts runs and tries, and
its `execution_timeout` ends a task that does not end by itself, which is all
that ends an Alpaca capture of a silent market. Nothing obliges records to
arrive, signals to come or calls to fail; crashes are bounded in number. In
`plaid` every request is answered or, by its timeout of 60 seconds, refused; the
loop over the pages ends because the bank's changes are bounded: against a bank
that posts a page between any two requests it has no end. `batch_dag` states no
liveness: its tasks are tried a bounded number of times as those of `dag` are.

## Findings

`dag_capture`: the README says that events are pushed into Kinesis and then
consumed, but the consume task of a run opens its iterators at `LATEST` after the
capture task has put its last event. What a run captures it never reads; only
records that another process puts while it polls get any further.

`dag_gate`: the README puts validation before processing, but the bronze file is
written before validation and is never removed, and the transform reads every
bronze file. A batch that failed validation, or that was left by a killed try and
never validated, is transformed by the next run that gets that far.
`BadOnlyFromFailures` says what does hold without overlap: such records come only
from runs and tries that failed.

## Proofs

Every property of the passing runs but the five on liveness is a theorem: the
invariants, the action properties, the three refinements and what `LATEST` skips.
So is `TypeOK` of each detailed module (`TypeCorrect`). The proofs are for all
values of the constants that meet the named `ASSUME` of the module: any number of
events, records, runs, shards, tries and crashes. Each module of proofs states its
inductive invariant in named parts, each with what it is for.

`KinesisProducer_proofs`, from `ProducerAssumption`:

- `TypeCorrect`: `TypeOK` is an invariant. `LoopInv` ties `pc`, `line` and
  `attempt` together, which bounds the attempt counter.
- `AckedOrderCorrect`: acknowledged events of a shard keep their order. The
  invariant is that the place of an acknowledged event is before anything sent
  later; appending to a log (`AppendToLog`) and landing late (`LandingKeepsOrder`)
  preserve it.
- `ReportCorrect`: the counters agree with the stream, from `CountInv`.
- `DuplicationCorrect`: the copies of an event. The bound on the concluded events
  is not inductive: an event in the middle of its tries may have used any number
  of them. `SentInv` counts, for each event, the copies there and on their way
  against the tries made so far.
- `StopCorrect`: a stop is graceful (an action property), from `LoopInv`.
- `LedgerImplemented`: each step maps to a step of `DeliveryLedger` or a stutter.

`KinesisConsumer_proofs`, from `ConsumerAssumption`:

- `BatchOrderCorrect`: `BatchInOrder` is an invariant. It is not inductive by
  itself: a record is in order only because of where the iterator stood.
  `PollInv` adds, per run, that the batch comes from the shards up to the one
  whose turn it is (`Covered`), that no record of a shard is there before its
  iterator is opened (`Untouched`), and that the iterator then stands right after
  the last record of the batch, or where the shard begins when it has given none
  yet (`Follows`). `GetRecordsKeepsRun` is the step that matters,
  `LeaveShardKeepsRun` the one that needs each shard to be listed once; the other
  steps leave what a run has collected as it is while the shards grow
  (`RunStays`).
- `BacklogSkipped`: what a shard held when a `LATEST` run had not started is never
  in its batch (`LatestSkipsBacklog`, a temporal property of the form
  `[](P => []Q)`). From such a state on `Skips` is kept, on top of `PollInv`: the
  record is there, is not in the batch, and an open iterator of its shard is past
  it. `OpenIterator` establishes the last part because the shard only grows
  (`ShardsGrow`).
- `MicroBatchImplemented`: polling implements `MicroBatch`. An answer must not give
  what the batch has already, which is `Below`: all that was read of the shard lies
  before the iterator.
- `FilesCorrect`: `FilesAccountable`, what the files of killed and overlapping runs
  tell. `FileInv` says of a run that shares its second with no other which files it
  has, which of them it has open and how much is in each (`FilesOf`, `Progress`). Of
  any file it says that each of its texts is of one run of that second, and the whole
  of what that run had to write unless it was killed (`Whose`), that two texts are of
  runs that had it open at a time (`Pairwise`), and that a run with the file open
  overlaps with whoever has written to it since (`HeldOpen`, `OpenTogether`): this is
  what makes the others inductive, as opening empties a file and writing adds to it.
  A text stays what it was because records keep their kinds as shards grow
  (`SameContent`).
- `PollingBounded` (`PollingRunsOut`, an action property): how many `get_records` calls
  a run may still make (`CallsLeft`) falls with every call and never rises. A record
  that is read sets the count of empty answers back, which gives `MaxEmptyPolls` calls,
  but takes one record off the room there is, which costs as many; leaving a shard is
  the same. `CallUsed` is this product's arithmetic. That a run ends follows, as a run
  makes no other loop; it is stated by this bound, which needs no fairness.
- `TypeCorrect`: `TypeOK` is an invariant, on top of the two by `BoundsInv`: shards
  never outgrow what the model lets arrive and empty answers never pass their limit.

`StreamingForeachBatch_proofs`, from `ForeachBatchAssumption`, by one invariant
`BatchesInv` over the batch in hand and the step it is at:

- `LandingCorrect` (`CommittedLands`), from `LandInv`: what is remembered or was
  appended by this run of the batch is in its tables.
- `CopiesCorrect` (`CopiesBounded`), from `CountInv`: before its batch is committed
  an id has one row for each run of the batch that was cut off.
- `VerdictCorrect` (`OneVerdictPerBatch`), from `VerdictInv`: the rows of an id come
  from one batch, although a replay may choose another duplicate.
- `FactsCorrect` (`FactsFollowSilver`), from `FollowInv`: between two appends, three
  writes apart, silver is one row ahead, and it stays ahead by one for each crash
  that falls there.
- `TypeCorrect`, with `BoundsInv` for what the others do not need: the watermark, the
  late records and the ends of the batches.

`MicrobatchLakehouse_proofs`, from `LakehouseAssumption`; the first three are about
runs that do not overlap, the last about any:

- `GenerationCorrect` (`GenerationAgrees`): `SameEventsInv` says that the parts of a
  generation are made from the events one snapshot held, and those of the try at
  work from its own, which needs that no part is of a try yet to come
  (`GenerationInv`) and that no other run empties a table meanwhile (`SoloInv`).
- `AuditCorrect` (`AuditTrail`) and `DoneCorrect` (`DoneMeansPublished`), from
  `PublishInv`: the raw layer is put first, and what is listed and not yet put is in
  the queue. That the latest version of an id exists is `FiniteIsBounded` and
  `GreatestOf`.
- `BookCorrect`: what is shown implements `TradeBook`. The book is a maximum over
  parts; `BookInv` characterises it by its two properties (a time shown, and none is
  later), so that no induction over the fold is needed.
- `TypeCorrect`: also that every part, listed, local or on S3, was made from versions
  that have landed (`ContentInv`).

`AlpacaCapture_proofs`, from `CaptureAssumption`:

- `TypeCorrect`: `TypeOK` is an invariant; no try is past its limit while it receives.
- `GaplessCorrect` (`CaptureIsGapless`): buffer and capture are intervals up to the
  trade heard last.
- `DiskCorrect` (`PublishedOnDisk`): `DiskInv`, a try writes its own file before its
  first put.
- `MarketOrderCorrect` (`StreamInMarketOrder`): `OrderInv` says that before a trade
  in the stream is every earlier one that is there (`EarlierFirst`), and that of all
  late puts one at most can land as something new, the newest. The first copy of a
  trade exists because a set of naturals has a least member (`LeastOf`).

`StreamingDag_proofs`, from `DagAssumption`:

- `OwnBatchCorrect` (`OwnBatchValidated`): as long as runs do not overlap, a batch is
  the newest file from its naming to its validation (`OwnInv`).
- `LeakCorrect` (`BadOnlyFromFailures`), from the same invariant.
- `ReadOnceCorrect` (`ReadOnce`), for overlapping runs too: the bronze files that hold
  a record, and the consumers that may still write it to one, together number no
  more than `MaxActiveRuns` (`HoldInv`). A consumer that starts opens behind the
  record, so it is never added to the count.
- `TypeCorrect`: what a batch holds was passed by its iterator, and the files that are
  validated or transformed are there (`PutInv`, `BoundsInv`).

`ExtractionAndSplits_proofs`, about `PlaidExtraction` from `ExtractionAssumption` and
about `SplitFrames` from `SplitAssumption`:

- `TypeCorrect`: `TypeOK` of `PlaidExtraction` is an invariant.
- `BundleCorrect` (`BundleIsExact`), for any page size and any changes by the bank.
  `ReadTo` says what the answers hold once a log is read up to a place: every entry
  not settled by then is in one of them, none is in two, one that settled before the
  accounts were read is in none. `Logged` is what the bank guarantees: an entry that
  settles another is posted and settles an earlier, pending one, so chains end.
- `BalancesCorrect` (`BalancesExplained`): the opening of a day is what the account had
  by the bank's books, plus the sum over its transactions of what each puts it off
  (`Shift`): nothing, for one of an account that is held, booked before the balance
  was read and of the right sign; what it books or counts, for one that came later; what
  it counts, for one pending; twice what it books, for one taken the wrong way round.
  The last is every ordinary transaction of a credit or loan account: **the openings of
  such an account are off by twice what moved from that day on**, and the theorem says exactly so
  instead of leaving these accounts out. The bank reckons back by a sum over places of
  the log, the program by a sum over rows of the bundle, and both are folds over sets. A
  fold over any finite set needs an induction on sets, for which the library's theorem
  cannot be used; instead `SumsExist` shows by a least counterexample that a function
  gives the sum of every subset, and `Determined` that it is the fold. From these
  follows what the proof needs of sums: they split (`SumSplit`), add up term by term
  (`SumLinear`), may leave out what is zero (`SumPart`), and agree when their terms are
  matched one to one (`SumMatched`). `RowsMatchEntries` matches the rows of an account to
  the entries of its log, `ShiftIs` is the account of one transaction. `BalanceRead`
  strengthens the inductive invariant: the balance that was read lacks what the entries
  that came after it have booked (`After`).
- `OnlyUndecidedLost` (`LostOnlyUndecided`), `ReasonsTrue` (`ReasonApplies`),
  `TradesKept` (`MicrobatchKeepsTrades`) and `VerdictsAsMade` (`VerdictAsMade`), for
  frames of any length. `FrameInv` says only where a frame is in its pipeline, as each
  row is judged alone; the work is in the lemmas about the operators. A conjunction
  is true, false or `NULL` by which of the three its checks take (`StreamAllOf`,
  `BatchAllOf`), so validity and its negation both fail exactly when no check
  is false and some is `NULL` (`BatchVerdict`, `StreamVerdict`). A `when()` chain gives
  the first reason that applies (`StreamFirstReason`, `BatchFirstReason`, by the least
  index). `MicrobatchRow` leaves the common checks and those of a trade as they were
  (`MicrobatchSees`). What each mapper makes of a record passes every check
  (`PlaidAccepted`, `AlpacaAccepted`). In a synthetic frame every row is decided, and
  one row of each key is kept (`SyntheticFrames`, `DefiniteTables`).

`BatchDag_proofs`, of which `OwnExtractionCorrect`, `FactsCorrect`,
`PublishedCorrect` and `TypeCorrect` use `DatasetsAssumption` and
`LayersAssumption` (the datasets and layers in the order of the code, with customers
and silver or without), `TypeCorrect` also `AttemptsAssumption`, and the other two
nothing:

- `MetadataCorrect` (metadata in `batch/raw` is about a file that is there) and
  `SuitesCorrect` (`suites.add` meets a suite only in a run that overlapped another),
  from `DagInv`. `UploadState` says that when it is the metadata's turn
  the file has been put, and that the pieces behind the first are not begun;
  `SuiteGone` that between the two halves of `ensure_suite`, in a run that overlaps
  no other, the suite is not there, which needs that two active runs are both
  marked as overlapping. The lemmas up to `OtherTaskSteps` are about the
  bookkeeping of the tasks (what a retry, a finished piece or a new task leaves of
  `todo`); then there is one lemma for the steps of each task (`ValidationKeeps`
  and `UploadKeeps` are those that matter).
- `PublishedCorrect` (`PublishedReadable`), from `LakeInv`: every version in the lake
  is in S3 with its data, or some run is still going to put it there or was given up
  (`VersionsCarried`). `PublishWork` is the form the publisher's work always has,
  the tables of one listed layer before the layers to come; `PutsLog` is the same for
  the log of what the run itself wrote.
- `OwnExtractionCorrect` (`OwnExtractionThrough`), from `OwnInv`: for a run that
  overlaps no other, what is its own is done or is among the pieces to do, task by
  task (`ToWrite`, `ToValidate`, `ToUpload`, `ToStage`, `ToBuild`), and the newest
  files are of its stamp (`LatestOwn`).
- `FactsCorrect` (`FactsHaveAccounts`), from `FactsInv`: what is staged and what is
  built is explained by the accounts next to it, and where pieces are staged or
  written one by one the accounts come first (`StagingOrder`, `WritingOrder`).
- `TypeCorrect`: `TypeOK` says that the disk, the lake, S3 and the runs hold only files,
  rows and work of extractions that took place, each table rows of its own kind. It
  follows from the invariants above and `TypesInv`, which adds what the disk holds
  (`DiskTyped`), the work of the tasks on files and the frame a run holds between
  silver and gold (`Planning`), and the plain fields of a run (`Outline`). What is
  typed by the extractions so far stays so as more take place (`KnownGrows`).

What is only model-checked, and why:

- The five liveness properties (`RunsToQuota`, `RunsEnd`, `StreamAdvances`,
  `TaskEnds`, `ExtractionEnds`): the provers at hand do not reason about fairness
  and `ENABLED`.
- The two findings: their properties fail, in TLC's runs.

That mutants of the model violate each property is shown by TLC only, under the
bounds of the runs.

## Plan

1. Done: the streaming path up to the published tables and `stg_stream_trades`;
   the batch path from the Plaid extraction to the published Delta tables and the
   run report; the splits of all three pipelines.
2. Next: the sums of the two streaming gold tables, the stream events of the
   generator, the reporting marts over parts that are never deleted.
3. Proofs: done for every property of the passing runs but liveness, and for the
   types. What step 2 adds is to be proved the same way.

## Not modelled

- Contents of amounts, texts and timestamps beyond what decides a branch; logging,
  metrics, HTTP and file formats.
- Two extractions in the same second, and files torn by a kill inside one
  `write_text` of the batch path; the consumer's torn files are modelled.
- Alpha Vantage: a sequential fetch of reference data, which the batch workflow
  does not call; securities, payments and trades are empty in that workflow.
- The dbt, reconciliation and QuickSight tasks of the batch workflow, the Glue
  registration, the Athena check and the later tasks of the streaming DAG: they
  run queries on a service, keep no state of their own, and what they read is
  what the models say S3 holds.
- The Great Expectations validations inside Spark: the script that runs the
  pipeline disables them (`scripts/run_local_batch_pipeline.sh`).
- The projections of the gold builders, the warehouse SQL other than
  `stg_stream_trades`, deployment files, configuration helpers.
