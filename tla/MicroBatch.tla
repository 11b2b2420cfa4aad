----------------------------- MODULE MicroBatch -----------------------------
(***************************************************************************)
(* What a consumer of the event stream promises: a micro-batch is one run  *)
(* of consecutive records per shard, of at most MaxRecords records in all, *)
(* and once it is closed it never changes.  Where in a shard the run of    *)
(* records starts is the consumer's choice, so nothing is promised about   *)
(* the records before it.                                                  *)
(***************************************************************************)
EXTENDS Integers, FiniteSets

CONSTANTS Runs, Shards, MaxRecords

VARIABLES
  arrived,    \* per shard, the number of records put so far
  taken,      \* per run, the records read: shard and sequence number
  closed      \* the runs whose batch is complete

batching == <<arrived, taken, closed>>

Init ==
  /\ arrived = [s \in Shards |-> 0]
  /\ taken = [r \in Runs |-> {}]
  /\ closed = {}

Arrive(s) ==
  /\ arrived' = [arrived EXCEPT ![s] = @ + 1]
  /\ UNCHANGED <<taken, closed>>

(* The first records of a shard, or the ones right after those taken.      *)
Take(r, s, first, last) ==
  LET new == {s} \X (first..last) IN
  /\ r \notin closed
  /\ last <= arrived[s]
  /\ <<s, first - 1>> \in taken[r] \/ taken[r] \cap ({s} \X (1..arrived[s])) = {}
  /\ taken[r] \cap new = {}
  /\ Cardinality(taken[r]) + (last - first + 1) <= MaxRecords
  /\ taken' = [taken EXCEPT ![r] = @ \cup new]
  /\ UNCHANGED <<arrived, closed>>

Close(r) ==
  /\ r \notin closed
  /\ closed' = closed \cup {r}
  /\ UNCHANGED <<arrived, taken>>

Next ==
  \/ \E s \in Shards : Arrive(s)
  \/ \E r \in Runs : Close(r)
  \/ \E r \in Runs, s \in Shards :
       \E first, last \in 1..arrived[s] : first <= last /\ Take(r, s, first, last)

Spec == Init /\ [][Next]_batching

=============================================================================
