-------------------------- MODULE KinesisProducer --------------------------
(***************************************************************************)
(* KinesisProducerService.send_events (src/stream_producer/service.py):    *)
(* one event at a time is put to its shard under the retry policy of       *)
(* AwsRetry, a signal handler may ask for a stop at any moment, and an     *)
(* event whose put finally fails is counted and skipped.                   *)
(*                                                                         *)
(* The stream is external.  A put the service never answered may still be  *)
(* on its way: it waits in `inTransit` and lands, late, or is lost.        *)
(***************************************************************************)
EXTENDS Integers, Sequences, FiniteSets, AwsRetry

CONSTANTS
  NLines,             \* number of events load_stream_events returned
  Shards,             \* the shards of the stream
  ShardOf,            \* shard each event's partition key hashes to
  Retries,            \* the retries argument send_events passes
  FiniteEventCount,   \* settings.finite_event_count, or None
  SdkResends,         \* how often the SDK itself resends one put_record call
  None

Lines == 1..NLines

ASSUME ProducerAssumption ==
  /\ NLines \in Nat
  /\ Retries \in Nat \ {0}
  /\ SdkResends \in Nat
  /\ ShardOf \in [Lines -> Shards]
  /\ FiniteEventCount \in Nat \cup {None}
  /\ None \notin Nat

VARIABLES
  pc,                 \* "next": top of the for loop, "put": inside retry(), "done"
  line,               \* the event in hand, or the next one to pull
  attempt,            \* retry()'s loop variable
  stopRequested,      \* GracefulStopHandler.stop_requested
  attempted, succeeded, failed,
  stream,             \* per shard, the events that landed, in order
  inTransit,          \* per event, unanswered requests still on their way
  verdict             \* history: how the loop concluded each event

counters == <<attempted, succeeded, failed>>
vars == <<pc, line, attempt, stopRequested, counters, stream, inTransit, verdict>>

Init ==
  /\ pc = "next" /\ line = 1 /\ attempt = 0
  /\ stopRequested \in BOOLEAN      \* a signal may precede the first event
  /\ attempted = 0 /\ succeeded = 0 /\ failed = 0
  /\ stream = [s \in Shards |-> <<>>]
  /\ inTransit = [i \in Lines |-> 0]
  /\ verdict = [i \in Lines |-> "none"]

-----------------------------------------------------------------------------
(* The service's side of put_record.                                       *)

Landed(i) == [stream EXCEPT ![ShardOf[i]] = Append(@, i)]

(* A request nobody waits for any more reaches the stream, or is lost.     *)
LandLate(i) ==
  /\ inTransit[i] > 0
  /\ inTransit' = [inTransit EXCEPT ![i] = @ - 1]
  /\ stream' = Landed(i)
  /\ UNCHANGED <<pc, line, attempt, stopRequested, counters, verdict>>

Vanish(i) ==
  /\ inTransit[i] > 0
  /\ inTransit' = [inTransit EXCEPT ![i] = @ - 1]
  /\ UNCHANGED <<pc, line, attempt, stopRequested, counters, stream, verdict>>

(* Requests one unsuccessful put_record call may leave on their way: the   *)
(* SDK's own resends, and the last one when its error says nothing.        *)
MaxInTransit(error) == SdkResends + IF error \in AmbiguousErrors THEN 1 ELSE 0

-----------------------------------------------------------------------------
(* send_events.                                                            *)

(* _handle_signal.                                                         *)
HandleSignal ==
  /\ pc # "done" /\ ~stopRequested
  /\ stopRequested' = TRUE
  /\ UNCHANGED <<pc, line, attempt, counters, stream, inTransit, verdict>>

LimitReached == FiniteEventCount # None /\ attempted >= FiniteEventCount

(* Mutant of Finish: the stop is obeyed in the middle of retry().          *)
FinishMidEvent ==
  /\ pc = "next" \/ (pc = "put" /\ stopRequested)
  /\ line > NLines \/ stopRequested \/ LimitReached
  /\ pc' = "done"
  /\ UNCHANGED <<line, attempt, stopRequested, counters, stream, inTransit, verdict>>

(* The loop ends: no event left, a stop was asked for, or the limit.       *)
Finish ==
  /\ pc = "next"
  /\ line > NLines \/ stopRequested \/ LimitReached
  /\ pc' = "done"
  /\ UNCHANGED <<line, attempt, stopRequested, counters, stream, inTransit, verdict>>

BeginEvent ==
  /\ pc = "next" /\ line <= NLines
  /\ ~stopRequested /\ ~LimitReached
  /\ pc' = "put" /\ attempt' = 1 /\ attempted' = attempted + 1
  /\ UNCHANGED <<line, stopRequested, succeeded, failed, stream, inTransit, verdict>>

(* Mutant of Conclude: a failed event is taken up again.                   *)
ConcludeAndRequeue(outcome) ==
  /\ verdict' = [verdict EXCEPT ![line] = outcome]
  /\ pc' = "next" /\ attempt' = 0
  /\ line' = IF outcome = "failed" THEN line ELSE line + 1

(* retry() is left and the loop moves to the next event.                   *)
Conclude(outcome) ==
  /\ verdict' = [verdict EXCEPT ![line] = outcome]
  /\ pc' = "next" /\ attempt' = 0 /\ line' = line + 1

(* Mutant of PutSucceeds: the put is not awaited.                          *)
PutNotAwaited ==
  /\ pc = "put"
  /\ inTransit' = [inTransit EXCEPT ![line] = @ + 1]
  /\ Conclude("acked") /\ succeeded' = succeeded + 1
  /\ UNCHANGED <<stopRequested, attempted, failed, stream>>

(* put_record returns: the record is in the shard's log.                   *)
PutSucceeds ==
  /\ pc = "put"
  /\ stream' = Landed(line)
  /\ \E resent \in 0..SdkResends :
       inTransit' = [inTransit EXCEPT ![line] = @ + resent]
  /\ Conclude("acked") /\ succeeded' = succeeded + 1
  /\ UNCHANGED <<stopRequested, attempted, failed>>

(* Mutant of PutRetried: the count is started over every second time.      *)
PutRetriedForever(error) ==
  /\ pc = "put" /\ ~GivesUp(error, attempt, Retries)
  /\ attempt' = IF attempt = 1 THEN 0 ELSE 1
  /\ UNCHANGED <<pc, line, stopRequested, counters, stream, inTransit, verdict>>

(* put_record raises and retry() goes round again.                         *)
PutRetried(error) ==
  /\ pc = "put" /\ ~GivesUp(error, attempt, Retries)
  /\ \E late \in 0..MaxInTransit(error) :
       inTransit' = [inTransit EXCEPT ![line] = @ + late]
  /\ attempt' = attempt + 1
  /\ UNCHANGED <<pc, line, stopRequested, counters, stream, verdict>>

(* Mutant of PutFails: the except branch counts a success.                 *)
PutFailsUnnoticed(error) ==
  /\ pc = "put" /\ GivesUp(error, attempt, Retries)
  /\ \E late \in 0..MaxInTransit(error) :
       inTransit' = [inTransit EXCEPT ![line] = @ + late]
  /\ Conclude("acked") /\ succeeded' = succeeded + 1
  /\ UNCHANGED <<stopRequested, attempted, failed, stream>>

(* put_record raises and retry() re-raises: counted, logged and skipped.   *)
PutFails(error) ==
  /\ pc = "put" /\ GivesUp(error, attempt, Retries)
  /\ \E late \in 0..MaxInTransit(error) :
       inTransit' = [inTransit EXCEPT ![line] = @ + late]
  /\ Conclude("failed") /\ failed' = failed + 1
  /\ UNCHANGED <<stopRequested, attempted, succeeded, stream>>

Producer ==
  \/ Finish \/ BeginEvent \/ PutSucceeds
  \/ \E error \in AwsErrors : PutRetried(error) \/ PutFails(error)

Network == \E i \in Lines : LandLate(i) \/ Vanish(i)

(* The process has returned its ProducerResult and nothing is on its way.  *)
Settled ==
  /\ pc = "done" /\ \A i \in Lines : inTransit[i] = 0
  /\ UNCHANGED vars

Next == Producer \/ HandleSignal \/ Network \/ Settled

Spec == Init /\ [][Next]_vars

(* Every put_record call returns or raises (the SDK bounds it by its own   *)
(* timeouts) and sleeps end, so the loop keeps taking steps.               *)
FairSpec == Spec /\ WF_vars(Producer)

-----------------------------------------------------------------------------
Copies(i) == Cardinality({k \in DOMAIN stream[ShardOf[i]] : stream[ShardOf[i]][k] = i})
Delivered == {i \in Lines : \E k \in DOMAIN stream[ShardOf[i]] : stream[ShardOf[i]][k] = i}
Concluded(outcome) == {i \in Lines : verdict[i] = outcome}

TypeOK ==
  /\ pc \in {"next", "put", "done"}
  /\ line \in 1..(NLines + 1)
  /\ attempt \in 0..Retries
  /\ stopRequested \in BOOLEAN
  /\ attempted \in Nat /\ succeeded \in Nat /\ failed \in Nat
  /\ stream \in [Shards -> Seq(Lines)]
  /\ inTransit \in [Lines -> Nat]
  /\ verdict \in [Lines -> {"none", "acked", "failed"}]

(* The counters the producer reports describe the stream: as many events   *)
(* were counted as successful, and as failed, as were concluded so, the    *)
(* events concluded are the first ones of the input without a gap, and     *)
(* every event counted as successful is in the stream.                     *)
ReportMatchesStream ==
  /\ succeeded = Cardinality(Concluded("acked"))
  /\ failed = Cardinality(Concluded("failed"))
  /\ attempted = succeeded + failed + IF pc = "put" THEN 1 ELSE 0
  /\ \A i \in Lines : verdict[i] # "none" <=> i < line
  /\ Concluded("acked") \subseteq Delivered

(* An event is in the stream at most once per request sent for it, counting*)
(* requests still on their way: retry() bounds the duplication a consumer  *)
(* has to remove, and an event never put is never there.                   *)
DuplicationBounded ==
  \A i \in Lines :
    Copies(i) + inTransit[i] <=
      IF i >= line + (IF pc = "put" THEN 1 ELSE 0) THEN 0
      ELSE Retries * (SdkResends + 1)

(* Partition order survives retries and late duplicates in this sense: if  *)
(* an acknowledged event precedes another event of its shard in the input, *)
(* its first copy precedes every copy of the other.                        *)
AckedOrderKept ==
  \A i, j \in Lines :
    /\ i < j /\ ShardOf[i] = ShardOf[j] /\ verdict[i] = "acked"
    => \A n \in DOMAIN stream[ShardOf[j]] :
         stream[ShardOf[j]][n] = j =>
           \E m \in 1..(n - 1) : stream[ShardOf[j]][m] = i

(* A stop is graceful: it never abandons the event in hand, and the event  *)
(* in hand is the last one.                                                *)
StopIsGraceful ==
  [][stopRequested =>
       /\ attempted' = attempted
       /\ pc = "put" /\ pc' # "put" => verdict'[line] # "none"]_vars

(* The run ends, whatever errors the puts meet, and unless it was stopped  *)
(* it ends with every event up to the limit concluded.                     *)
RunsToQuota ==
  <>(pc = "done" /\ (stopRequested \/ line > NLines \/ attempted = FiniteEventCount))

(* The producer keeps the promise of DeliveryLedger: verdicts are final    *)
(* and an event reported as successful is in the stream from then on.      *)
AbstractLedger == INSTANCE DeliveryLedger WITH delivered <- Delivered

ImplementsLedger == AbstractLedger!Spec

=============================================================================
