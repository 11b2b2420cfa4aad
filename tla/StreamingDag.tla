----------------------------- MODULE StreamingDag -----------------------------
(***************************************************************************)
(* The first four tasks of the streaming DAG, run after run: capture puts  *)
(* trades into Kinesis, consume writes a micro-batch to the canonical and  *)
(* the bronze directory, validate checks the newest canonical file, and    *)
(* transform reads every bronze file.  The directories are shared by all   *)
(* runs; a failed task is tried again from its start; a run is scheduled   *)
(* every five minutes whether the one before it is over or not.            *)
(*                                                                         *)
(* KinesisConsumer has the polling of the shards, empty answers and names  *)
(* shared within a second; here the stream is one log, a batch may end     *)
(* after any poll and names are distinct.  The raw file, which nothing     *)
(* reads, is left out.  MicrobatchLakehouse has what transform writes.     *)
(***************************************************************************)
EXTENDS Integers, Sequences, FiniteSets, FiniteSetsExt

CONSTANTS
  Runs,             \* DAG runs
  NoRun,            \* the stand-alone producer, which puts records too
  MaxActiveRuns,    \* airflow.cfg: max_active_runs_per_dag
  Attempts,         \* tries of one task: the default retries plus one
  MaxRecords,       \* --max-records of the consume task
  StreamCapacity    \* bound: records put into the stream

ASSUME DagAssumption ==
  /\ NoRun \notin Runs
  /\ MaxActiveRuns \in Nat \ {0} /\ Attempts \in Nat \ {0}
  /\ MaxRecords \in Nat \ {0} /\ StreamCapacity \in Nat

VARIABLES
  stream,       \* the records: who put them and whether the suite accepts them
  task,         \* per run, "waiting", a task, "done" or "failed"
  attempt,      \* per run, the try its task is in
  step,         \* per run, what the task does next
  iterator,     \* per run, the next record its consumer reads
  batch,        \* per run, the records its consumer has collected
  name,         \* per run, the name of its files
  names,        \* how many names have been given
  canonical,    \* the canonical files, by name
  bronze,       \* the bronze files, by name
  validated,    \* the names of the files that passed validation
  transformed,  \* per run, the names of the files its transform has read
  overlapped    \* history: two runs have been active at once

files == <<names, canonical, bronze>>
vars == <<stream, task, attempt, step, iterator, batch, name, files, validated, transformed, overlapped>>

Positions == 1..StreamCapacity
Chain == <<"capture", "consume", "validate", "transform">>
FirstStep == [capture |-> "put", consume |-> "open", validate |-> "check", transform |-> "read"]

Init ==
  /\ stream = <<>>
  /\ task = [r \in Runs |-> "waiting"] /\ attempt = [r \in Runs |-> 1]
  /\ step = [r \in Runs |-> "put"]
  /\ iterator = [r \in Runs |-> 1] /\ batch = [r \in Runs |-> {}]
  /\ name = [r \in Runs |-> 0] /\ names = 0
  /\ canonical = [n \in {} |-> {}] /\ bronze = [n \in {} |-> {}]
  /\ validated = {} /\ transformed = [r \in Runs |-> {}]
  /\ overlapped = FALSE

Put(by, good) ==
  /\ Len(stream) < StreamCapacity
  /\ stream' = Append(stream, [by |-> by, good |-> good])

-----------------------------------------------------------------------------
(* Airflow.                                                                *)

Active == {r \in Runs : task[r] \notin {"waiting", "done", "failed"}}

Begin(r, next) ==
  /\ task' = [task EXCEPT ![r] = next]
  /\ attempt' = [attempt EXCEPT ![r] = 1]
  /\ step' = [step EXCEPT ![r] = FirstStep[next]]

StartRun(r) ==
  /\ task[r] = "waiting" /\ Cardinality(Active) < MaxActiveRuns
  /\ Begin(r, "capture")
  /\ overlapped' = (overlapped \/ Active # {})
  /\ UNCHANGED <<stream, iterator, batch, name, files, validated, transformed>>

(* Mutant of Exhausted: a task is tried again for ever.                    *)
NeverExhausted(r) == FALSE

Exhausted(r) == attempt[r] = Attempts

(* A task that fails starts over, or takes the run down with it.           *)
Retry(r) ==
  /\ IF Exhausted(r)
       THEN task' = [task EXCEPT ![r] = "failed"] /\ UNCHANGED <<attempt, step>>
       ELSE /\ attempt' = [attempt EXCEPT ![r] = IF @ < Attempts THEN @ + 1 ELSE @]
            /\ step' = [step EXCEPT ![r] = FirstStep[task[r]]]
            /\ UNCHANGED task

(* Any call of a task raises, its process is killed, or execution_timeout  *)
(* passes.  What it had put and written stays.                             *)
TaskFails(r) ==
  /\ r \in Active /\ Retry(r)
  /\ UNCHANGED <<stream, iterator, batch, name, files, validated, transformed, overlapped>>

-----------------------------------------------------------------------------
(* capture_alpaca_to_kinesis.                                              *)

CapturePuts(r, good) ==
  /\ task[r] = "capture" /\ Put(r, good)
  /\ UNCHANGED <<task, attempt, step, iterator, batch, name, files, validated, transformed, overlapped>>

(* Every captured event has been put.                                      *)
CaptureEnds(r) ==
  /\ task[r] = "capture" /\ Begin(r, "consume")
  /\ UNCHANGED <<stream, iterator, batch, name, files, validated, transformed, overlapped>>

-----------------------------------------------------------------------------
(* consume_kinesis_microbatch.                                             *)

(* Mutant of Opened: --iterator-type TRIM_HORIZON.                         *)
OpenedAtHorizon == 1

(* The DAG names no --iterator-type, so it is LATEST: after the last record*)
Opened == Len(stream) + 1

ConsumeOpens(r) ==
  /\ task[r] = "consume" /\ step[r] = "open"
  /\ iterator' = [iterator EXCEPT ![r] = Opened]
  /\ batch' = [batch EXCEPT ![r] = {}]
  /\ step' = [step EXCEPT ![r] = "poll"]
  /\ UNCHANGED <<stream, task, attempt, name, files, validated, transformed, overlapped>>

(* get_records returns some records; an empty answer changes nothing here. *)
ConsumePolls(r, count) ==
  /\ task[r] = "consume" /\ step[r] = "poll"
  /\ count <= MaxRecords - Cardinality(batch[r])
  /\ iterator[r] + count - 1 <= Len(stream)
  /\ batch' = [batch EXCEPT ![r] = @ \cup (iterator[r]..(iterator[r] + count - 1))]
  /\ iterator' = [iterator EXCEPT ![r] = @ + count]
  /\ UNCHANGED <<stream, task, attempt, step, name, files, validated, transformed, overlapped>>

(* Enough records or enough empty answers.  The second names the files.    *)
ConsumeStops(r) ==
  /\ task[r] = "consume" /\ step[r] = "poll"
  /\ names' = names + 1 /\ name' = [name EXCEPT ![r] = names + 1]
  /\ step' = [step EXCEPT ![r] = "canonical"]
  /\ UNCHANGED <<stream, task, attempt, iterator, batch, canonical, bronze, validated, transformed, overlapped>>

With(dir, n, records) == [m \in DOMAIN dir \cup {n} |-> IF m = n THEN records ELSE dir[m]]

WriteCanonical(r) ==
  /\ task[r] = "consume" /\ step[r] = "canonical"
  /\ canonical' = With(canonical, name[r], batch[r])
  /\ step' = [step EXCEPT ![r] = "bronze"]
  /\ UNCHANGED <<stream, task, attempt, iterator, batch, name, names, bronze, validated, transformed, overlapped>>

(* The bronze copy is there before anything has been validated.            *)
WriteBronze(r) ==
  /\ task[r] = "consume" /\ step[r] = "bronze"
  /\ bronze' = With(bronze, name[r], batch[r])
  /\ step' = [step EXCEPT ![r] = "return"]
  /\ UNCHANGED <<stream, task, attempt, iterator, batch, name, names, canonical, validated, transformed, overlapped>>

ConsumeReturns(r) ==
  /\ task[r] = "consume" /\ step[r] = "return" /\ Begin(r, "validate")
  /\ UNCHANGED <<stream, iterator, batch, name, files, validated, transformed, overlapped>>

-----------------------------------------------------------------------------
(* validate_stream_microbatch.                                             *)

(* Mutant of Input: the first of the sorted files.                         *)
FirstInput(r) == Min(DOMAIN canonical)

(* resolve_input_file: the last file by name, whoever wrote it.            *)
Input(r) == Max(DOMAIN canonical)

(* The suite's shares (mostly 0.99, 0.94) and its uniqueness are folded    *)
(* into what a bad record is: one is enough to reject these small files.   *)
(* An empty file passes: reindex() gives it the columns, nothing else is   *)
(* checked without rows.                                                   *)
Accepts(n) == \A k \in canonical[n] : stream[k].good

ValidatePasses(r) ==
  /\ task[r] = "validate" /\ DOMAIN canonical # {} /\ Accepts(Input(r))
  /\ validated' = validated \cup {Input(r)}
  /\ Begin(r, "transform")
  /\ UNCHANGED <<stream, iterator, batch, name, files, transformed, overlapped>>

(* The script exits with 1, or raises when there is no file.               *)
ValidateFails(r) ==
  /\ task[r] = "validate" /\ (DOMAIN canonical = {} \/ ~Accepts(Input(r)))
  /\ Retry(r)
  /\ UNCHANGED <<stream, iterator, batch, name, files, validated, transformed, overlapped>>

-----------------------------------------------------------------------------
(* run_stream_spark_transform: every bronze file is read.                  *)
TransformReads(r) ==
  /\ task[r] = "transform" /\ DOMAIN bronze # {}
  /\ transformed' = [transformed EXCEPT ![r] = DOMAIN bronze]
  /\ task' = [task EXCEPT ![r] = "done"]
  /\ UNCHANGED <<stream, attempt, step, iterator, batch, name, files, validated, overlapped>>

RunStep(r) ==
  \/ StartRun(r) \/ CaptureEnds(r)
  \/ ConsumeOpens(r) \/ ConsumeStops(r) \/ WriteCanonical(r) \/ WriteBronze(r) \/ ConsumeReturns(r)
  \/ ValidatePasses(r) \/ ValidateFails(r) \/ TransformReads(r)

Others(r) ==
  \/ TaskFails(r)
  \/ \E good \in BOOLEAN : CapturePuts(r, good)
  \/ \E count \in Positions : ConsumePolls(r, count)

ProducerPuts ==
  /\ \E good \in BOOLEAN : Put(NoRun, good)
  /\ UNCHANGED <<task, attempt, step, iterator, batch, name, files, validated, transformed, overlapped>>

Over == (\A r \in Runs : task[r] \in {"done", "failed"}) /\ UNCHANGED vars

Next == ProducerPuts \/ Over \/ \E r \in Runs : RunStep(r) \/ Others(r)

Spec == Init /\ [][Next]_vars

(* Airflow schedules every run and tries its tasks; a task that does not   *)
(* get on is ended by execution_timeout.                                   *)
FairSpec == Spec /\ \A r \in Runs : WF_vars(RunStep(r))

-----------------------------------------------------------------------------
Files == UNION {[ns -> SUBSET Positions] : ns \in SUBSET (1..names)}

TypeOK ==
  /\ stream \in Seq([by : Runs \cup {NoRun}, good : BOOLEAN])
  /\ task \in [Runs -> {"waiting", "capture", "consume", "validate", "transform", "done", "failed"}]
  /\ attempt \in [Runs -> 1..Attempts]
  /\ step \in [Runs -> {"put", "open", "poll", "canonical", "bronze", "return", "check", "read"}]
  /\ iterator \in [Runs -> 1..(StreamCapacity + 1)]
  /\ \A r \in Runs : batch[r] \subseteq 1..(iterator[r] - 1) /\ Cardinality(batch[r]) <= MaxRecords
  /\ name \in [Runs -> 0..names] /\ names \in Nat
  /\ canonical \in Files /\ bronze \in Files
  /\ validated \subseteq DOMAIN canonical
  /\ \A r \in Runs : transformed[r] \subseteq DOMAIN bronze
  /\ overlapped \in BOOLEAN

Past(r) == task[r] \in {"transform", "done"}

(* As long as runs do not overlap the gate holds for the run itself: one   *)
(* that gets to its transform has validated its own batch, not a file of   *)
(* an earlier run nor of an earlier try of its own.                        *)
OwnBatchValidated ==
  ~overlapped => \A r \in Runs : Past(r) => name[r] \in validated

(* As long as runs do not overlap, a bad record reaches a transform only   *)
(* out of the files of a run that failed or of a try that did: those stay  *)
(* in the bronze directory.                                                *)
BadOnlyFromFailures ==
  ~overlapped =>
    \A r \in Runs : \A n \in transformed[r] : n \notin validated =>
      \A q \in Runs : name[q] = n => task[q] = "failed"

(* A record is in the bronze files at most once for each run that may be   *)
(* active at the same time, however often consume is killed and tried: a   *)
(* try starts after all that was there.                                    *)
ReadOnce ==
  \A k \in DOMAIN stream :
    Cardinality({n \in DOMAIN bronze : k \in bronze[n]}) <= MaxActiveRuns

(* Every run that is scheduled ends, whatever its tasks meet.              *)
RunsEnd == \A r \in Runs : <>(task[r] \in {"done", "failed"})

(* "2. Push events into Amazon Kinesis  3. Consume microbatches into       *)
(* canonical streaming files" (README.md): a run that has captured trades  *)
(* has consumed at least one of them by the time it is done.               *)
OwnCaptureConsumed ==
  \A r \in Runs :
    task[r] = "done" /\ (\E k \in DOMAIN stream : stream[k].by = r) =>
      \E k \in canonical[name[r]] : stream[k].by = r

(* "4. Validate microbatches with Great Expectations  5. Process with      *)
(* PySpark" (README.md): what a transform reads, the suite accepts.        *)
OnlyAcceptedTransformed ==
  \A r \in Runs : \A n \in transformed[r] : Accepts(n)

=============================================================================
