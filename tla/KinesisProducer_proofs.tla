----------------------- MODULE KinesisProducer_proofs -----------------------
(***************************************************************************)
(* Proofs that the report of send_events agrees with the stream, that      *)
(* acknowledged events keep their order, that a stop is graceful, how      *)
(* often an event can be there, and that the producer implements           *)
(* DeliveryLedger, for any number of events, shards, tries and resends.    *)
(***************************************************************************)
EXTENDS KinesisProducer, FiniteSetTheorems, TLAPS

USE ProducerAssumption

-----------------------------------------------------------------------------
(* The inductive invariant of the loop: the types, and that the event in   *)
(* hand exists.                                                            *)
LoopInv == TypeOK /\ (pc = "put" => line <= NLines /\ attempt >= 1)

(* The type invariant of send_events' loop.                                *)
LEMMA LoopInvariant == Spec => []LoopInv
<1> USE DEF LoopInv, TypeOK, Lines
<1>1. Init => LoopInv
  BY DEF Init
<1>2. LoopInv /\ [Next]_vars => LoopInv'
  <2> SUFFICES ASSUME LoopInv, [Next]_vars PROVE LoopInv'
    OBVIOUS
  <2>1. ASSUME NEW i \in Lines, LandLate(i) PROVE LoopInv'
    BY SMTT(30), <2>1 DEF LandLate, Landed, counters
  <2>2. ASSUME NEW i \in Lines, Vanish(i) PROVE LoopInv'
    BY <2>2 DEF Vanish, counters
  <2>3. CASE HandleSignal
    BY <2>3 DEF HandleSignal, counters
  <2>4. CASE Finish
    BY <2>4 DEF Finish, counters
  <2>5. CASE BeginEvent
    BY <2>5 DEF BeginEvent
  <2>6. CASE PutSucceeds
    BY <2>6 DEF PutSucceeds, Landed, Conclude
  <2>7. ASSUME NEW error \in AwsErrors, PutRetried(error) PROVE LoopInv'
    BY <2>7 DEF PutRetried, GivesUp, MaxInTransit, counters
  <2>8. ASSUME NEW error \in AwsErrors, PutFails(error) PROVE LoopInv'
    BY <2>8 DEF PutFails, Conclude, MaxInTransit
  <2>9. CASE Settled \/ UNCHANGED vars
    BY <2>9 DEF Settled, vars, counters
  <2> QED
    BY <2>1, <2>2, <2>3, <2>4, <2>5, <2>6, <2>7, <2>8, <2>9 DEF Next, Producer, Network
<1> QED
  BY <1>1, <1>2, PTL DEF Spec

(* The counters, cursors and logs of the producer keep their types.        *)
THEOREM TypeCorrect == Spec => []TypeOK
BY LoopInvariant, PTL DEF LoopInv

-----------------------------------------------------------------------------
(* Where events can be.  An event not yet put is neither in its shard nor  *)
(* on its way; an event concluded as successful is in its shard; and the   *)
(* verdicts given are those of the events before the one in hand.          *)
InShard(i, log) == \E k \in DOMAIN log : log[k] = i
Begun(i) == i < line \/ (i = line /\ pc = "put")

PlaceInv ==
  /\ \A i \in Lines : verdict[i] # "none" <=> i < line
  /\ \A i \in Lines : verdict[i] = "acked" => InShard(i, stream[ShardOf[i]])
  /\ \A i \in Lines : inTransit[i] > 0 => Begun(i)
  /\ \A s \in Shards : \A k \in DOMAIN stream[s] :
       Begun(stream[s][k]) /\ ShardOf[stream[s][k]] = s

OrderInv == LoopInv /\ PlaceInv /\ AckedOrderKept

(* Appending one element to one log of a function of logs.                 *)
LEMMA AppendToLog ==
  ASSUME NEW T, NEW D, NEW logs \in [D -> Seq(T)], NEW s \in D, NEW e \in T,
         NEW new, new = [logs EXCEPT ![s] = Append(@, e)]
  PROVE  /\ new \in [D -> Seq(T)]
         /\ \A d \in D \ {s} : new[d] = logs[d]
         /\ DOMAIN logs[s] = 1..Len(logs[s]) /\ DOMAIN new[s] = 1..(Len(logs[s]) + 1)
         /\ new[s][Len(logs[s]) + 1] = e
         /\ \A k \in DOMAIN logs[s] : k \in DOMAIN new[s] /\ new[s][k] = logs[s][k]
         /\ Len(logs[s]) \in Nat
OBVIOUS

(* An event landing at the end of its shard keeps every shard's order: the *)
(* events acknowledged before it are already there.                        *)
LEMMA LandingKeepsOrder ==
  ASSUME OrderInv, NEW i \in Lines, Begun(i), stream' = Landed(i)
  PROVE  /\ \A j \in Lines : InShard(j, stream[ShardOf[j]]) => InShard(j, stream'[ShardOf[j]])
         /\ InShard(i, stream'[ShardOf[i]])
         /\ \A s \in Shards : \A k \in DOMAIN stream'[s] :
              Begun(stream'[s][k]) /\ ShardOf[stream'[s][k]] = s
         /\ \A a, j \in Lines :
              a < j /\ ShardOf[a] = ShardOf[j] /\ verdict[a] = "acked" =>
                \A n \in DOMAIN stream'[ShardOf[j]] : stream'[ShardOf[j]][n] = j =>
                  \E m \in 1..(n - 1) : stream'[ShardOf[j]][m] = a
<1> DEFINE S == ShardOf[i]  L == Len(stream[S])
<1>1. /\ S \in Shards /\ stream \in [Shards -> Seq(Lines)]
      /\ stream' = [stream EXCEPT ![S] = Append(@, i)]
      /\ \A j \in Lines : ShardOf[j] \in Shards
  BY DEF Landed, OrderInv, LoopInv, TypeOK
<1>2. /\ \A d \in Shards \ {S} : stream'[d] = stream[d]
      /\ DOMAIN stream[S] = 1..L /\ DOMAIN stream'[S] = 1..(L + 1) /\ L \in Nat
      /\ stream'[S][L + 1] = i
      /\ \A k \in DOMAIN stream[S] : k \in DOMAIN stream'[S] /\ stream'[S][k] = stream[S][k]
  BY <1>1, AppendToLog
<1> HIDE DEF S, L
<1>3. \A d \in Shards : \A k : k \in DOMAIN stream'[d] =>
        (k \in DOMAIN stream[d] /\ stream'[d][k] = stream[d][k]) \/ (d = S /\ k = L + 1)
  BY <1>2
<1>4. \A j \in Lines : InShard(j, stream[ShardOf[j]]) => InShard(j, stream'[ShardOf[j]])
  BY <1>1, <1>2 DEF InShard
<1>5. InShard(i, stream'[ShardOf[i]])
  BY <1>2 DEF InShard, S
<1>6. \A s \in Shards : \A k \in DOMAIN stream'[s] :
        Begun(stream'[s][k]) /\ ShardOf[stream'[s][k]] = s
  <2>1. \A s \in Shards : \A k \in DOMAIN stream[s] : Begun(stream[s][k]) /\ ShardOf[stream[s][k]] = s
    BY DEF OrderInv, PlaceInv
  <2>2. Begun(stream'[S][L + 1]) /\ ShardOf[stream'[S][L + 1]] = S
    BY <1>2 DEF S
  <2> QED
    BY <1>3, <2>1, <2>2
<1>7. ASSUME NEW a \in Lines, NEW j \in Lines, NEW n \in DOMAIN stream'[ShardOf[j]],
             a < j, ShardOf[a] = ShardOf[j], verdict[a] = "acked", stream'[ShardOf[j]][n] = j
      PROVE  \E m \in 1..(n - 1) : stream'[ShardOf[j]][m] = a
  <2>1. CASE n \in DOMAIN stream[ShardOf[j]] /\ stream'[ShardOf[j]][n] = stream[ShardOf[j]][n]
    <3>0. n \in DOMAIN stream[ShardOf[j]] /\ stream[ShardOf[j]][n] = j
      BY <1>7, <2>1
    <3>1. PICK m \in 1..(n - 1) : stream[ShardOf[j]][m] = a
      <4>1. AckedOrderKept
        BY DEF OrderInv
      <4> QED
        BY <1>7, <3>0, <4>1 DEF AckedOrderKept
    <3>2. m \in DOMAIN stream[ShardOf[j]]
      BY <1>1, <2>1, <3>1
    <3> QED
      BY <1>1, <1>2, <3>1, <3>2
  <2>2. CASE ShardOf[j] = S /\ n = L + 1
    <3>1. InShard(a, stream[S])
      BY <1>7, <2>2 DEF OrderInv, PlaceInv
    <3> QED
      BY <1>2, <2>2, <3>1 DEF InShard
  <2> QED
    BY <1>1, <1>3, <1>7, <2>1, <2>2
<1> QED
  BY <1>4, <1>5, <1>6, <1>7

(* Steps that neither put nor conclude an event.                           *)
LEMMA PlaceFrame ==
  ASSUME PlaceInv, AckedOrderKept, UNCHANGED <<stream, verdict, line>>,
         \A i \in Lines : Begun(i) => Begun(i)',
         \A i \in Lines : inTransit'[i] > 0 => Begun(i)',
         LoopInv
  PROVE  PlaceInv' /\ AckedOrderKept'
<1>1. \A s \in Shards : \A k \in DOMAIN stream[s] : stream[s][k] \in Lines
  BY DEF LoopInv, TypeOK
<1> QED
  BY <1>1 DEF PlaceInv, AckedOrderKept, InShard

(* Nothing sent later is before an acknowledged event of the same shard.   *)
LEMMA OrderInvariant == Spec => []OrderInv
<1>1. Init => OrderInv
  <2>1. Init => LoopInv
    BY DEF Init, LoopInv, TypeOK, Lines
  <2>2. Init => PlaceInv /\ AckedOrderKept
    BY DEF Init, PlaceInv, AckedOrderKept, Lines
  <2> QED
    BY <2>1, <2>2 DEF OrderInv
<1>2. LoopInv' /\ OrderInv /\ [Next]_vars => OrderInv'
  <2> SUFFICES ASSUME LoopInv', OrderInv, [Next]_vars PROVE PlaceInv' /\ AckedOrderKept'
    BY DEF OrderInv
  <2>0. LoopInv /\ PlaceInv /\ AckedOrderKept
    BY DEF OrderInv
  <2>1. ASSUME NEW i \in Lines, LandLate(i) PROVE PlaceInv' /\ AckedOrderKept'
    <3>1. inTransit \in [Lines -> Nat] /\ inTransit[i] > 0
          /\ inTransit' = [inTransit EXCEPT ![i] = @ - 1]
      BY <2>0, <2>1 DEF LandLate, LoopInv, TypeOK
    <3>2. Begun(i) /\ stream' = Landed(i) /\ UNCHANGED <<pc, line, verdict>>
      BY <2>0, <2>1, <3>1 DEF LandLate, PlaceInv
    <3>3. \A j \in Lines : inTransit'[j] > 0 => Begun(j)
      BY <2>0, <3>1 DEF PlaceInv
    <3>4. PlaceInv'
      BY <2>0, <3>2, <3>3, LandingKeepsOrder DEF PlaceInv, Begun
    <3>5. AckedOrderKept'
      BY <3>2, LandingKeepsOrder DEF AckedOrderKept
    <3> QED
      BY <3>4, <3>5
  <2>2. ASSUME NEW i \in Lines, Vanish(i) PROVE PlaceInv' /\ AckedOrderKept'
    <3>1. UNCHANGED <<stream, verdict, line, pc>>
      BY <2>2 DEF Vanish
    <3>2. \A j \in Lines : inTransit'[j] > 0 => inTransit[j] > 0
      BY <2>0, <2>2 DEF Vanish, LoopInv, TypeOK
    <3> QED
      BY <2>0, <3>1, <3>2, PlaceFrame DEF Begun, PlaceInv
  <2>3. CASE HandleSignal \/ Finish \/ BeginEvent
    <3>1. UNCHANGED <<stream, verdict, line, inTransit>> /\ (pc = "put" => pc' = "put")
      BY <2>3 DEF HandleSignal, Finish, BeginEvent
    <3>2. \A j \in Lines : Begun(j) => Begun(j)'
      BY <3>1 DEF Begun
    <3> QED
      BY <2>0, <3>1, <3>2, PlaceFrame DEF PlaceInv
  <2>4. CASE PutSucceeds
    <3>1. line \in Lines /\ Begun(line) /\ stream' = Landed(line)
      BY <2>0, <2>4 DEF PutSucceeds, Begun, LoopInv, TypeOK, Lines
    <3>2. /\ verdict' = [verdict EXCEPT ![line] = "acked"]
          /\ line' = line + 1 /\ pc' = "next" /\ pc = "put"
      BY <2>4 DEF PutSucceeds, Conclude
    <3>3. \A j \in Lines : inTransit'[j] > 0 => j = line \/ inTransit[j] > 0
      BY <2>0, <2>4 DEF PutSucceeds, LoopInv, TypeOK
    <3>4. \A j \in Lines : (Begun(j) <=> j < line + 1) /\ (Begun(j)' <=> j < line + 1)
      BY <2>0, <3>1, <3>2 DEF Begun, Lines
    <3>5. \A s \in Shards : \A k \in DOMAIN stream'[s] : stream'[s][k] \in Lines
      BY DEF LoopInv, TypeOK
    <3>6. \A j \in Lines : verdict'[j] = IF j = line THEN "acked" ELSE verdict[j]
      BY <2>0, <3>1, <3>2 DEF LoopInv, TypeOK
    <3>7. \A j \in Lines : verdict'[j] # "none" <=> j < line'
      BY <2>0, <3>1, <3>2, <3>6 DEF PlaceInv, Lines
    <3>8. \A j \in Lines : verdict'[j] = "acked" => InShard(j, stream'[ShardOf[j]])
      BY <2>0, <3>1, <3>6, LandingKeepsOrder DEF PlaceInv
    <3>9. \A j \in Lines : inTransit'[j] > 0 => Begun(j)'
      BY <2>0, <3>1, <3>3, <3>4 DEF PlaceInv
    <3>10. \A s \in Shards : \A k \in DOMAIN stream'[s] :
             stream'[s][k] < line' /\ ShardOf[stream'[s][k]] = s
      BY <2>0, <3>1, <3>2, <3>4, <3>5, LandingKeepsOrder DEF OrderInv
    <3>11. PlaceInv'
      BY <3>7, <3>8, <3>9, <3>10 DEF PlaceInv, InShard, Begun
    <3>12. \A j \in Lines : \A n \in DOMAIN stream'[ShardOf[j]] :
             stream'[ShardOf[j]][n] = j => j < line + 1
      BY <3>1, <3>4, <3>5, LandingKeepsOrder
    <3>13. AckedOrderKept'
      BY <3>1, <3>6, <3>12, LandingKeepsOrder DEF AckedOrderKept, Lines
    <3> QED
      BY <3>11, <3>13
  <2>5. ASSUME NEW error \in AwsErrors, PutRetried(error) PROVE PlaceInv' /\ AckedOrderKept'
    <3>1. UNCHANGED <<stream, verdict, line, pc>> /\ pc = "put" /\ line \in Lines
      BY <2>0, <2>5 DEF PutRetried, LoopInv, TypeOK, Lines
    <3>2. \A j \in Lines : inTransit'[j] > 0 => j = line \/ inTransit[j] > 0
      BY <2>0, <2>5 DEF PutRetried, LoopInv, TypeOK
    <3> QED
      BY <2>0, <3>1, <3>2, PlaceFrame DEF Begun, PlaceInv
  <2>6. ASSUME NEW error \in AwsErrors, PutFails(error) PROVE PlaceInv' /\ AckedOrderKept'
    <3>1. /\ line \in Lines /\ UNCHANGED stream /\ pc = "put" /\ pc' = "next"
          /\ line' = line + 1 /\ verdict' = [verdict EXCEPT ![line] = "failed"]
      BY <2>0, <2>6 DEF PutFails, Conclude, LoopInv, TypeOK, Lines
    <3>2. \A j \in Lines : inTransit'[j] > 0 => j = line \/ inTransit[j] > 0
      BY <2>0, <2>6 DEF PutFails, LoopInv, TypeOK
    <3>3. \A j \in Lines : verdict'[j] = IF j = line THEN "failed" ELSE verdict[j]
      BY <2>0, <3>1 DEF LoopInv, TypeOK
    <3>4. \A j \in Lines : Begun(j) => Begun(j)'
      BY <2>0, <3>1 DEF Begun, Lines
    <3>5. \A s \in Shards : \A k \in DOMAIN stream[s] : stream[s][k] \in Lines
      BY <2>0 DEF LoopInv, TypeOK
    <3>6. PlaceInv'
      <4>1. \A j \in Lines : verdict'[j] # "none" <=> j < line'
        BY <2>0, <3>1, <3>3 DEF PlaceInv, Lines
      <4>2. \A j \in Lines : inTransit'[j] > 0 => Begun(j)'
        BY <2>0, <3>1, <3>2, <3>4 DEF PlaceInv, Begun
      <4> QED
        BY <2>0, <3>1, <3>3, <3>4, <3>5, <4>1, <4>2 DEF PlaceInv, InShard
    <3>7. AckedOrderKept'
      BY <2>0, <3>1, <3>3 DEF AckedOrderKept
    <3> QED
      BY <3>6, <3>7
  <2>7. CASE Settled \/ UNCHANGED vars
    <3>1. UNCHANGED <<stream, verdict, line, pc, inTransit>>
      BY <2>7 DEF Settled, vars
    <3> QED
      BY <2>0, <3>1, PlaceFrame DEF Begun, PlaceInv
  <2> QED
    BY <2>1, <2>2, <2>3, <2>4, <2>5, <2>6, <2>7 DEF Next, Producer, Network
<1> QED
  BY <1>1, <1>2, LoopInvariant, PTL DEF Spec

(* Retries, resends and late duplicates never put an event ahead of an     *)
(* earlier acknowledged event of its shard.                                *)
THEOREM AckedOrderCorrect == Spec => []AckedOrderKept
BY OrderInvariant, PTL DEF OrderInv

-----------------------------------------------------------------------------
(* The counters.                                                           *)
CountInv ==
  /\ succeeded = Cardinality(Concluded("acked"))
  /\ failed = Cardinality(Concluded("failed"))
  /\ attempted = succeeded + failed + IF pc = "put" THEN 1 ELSE 0

(* Concluding the event in hand adds it, and nothing else, to the events   *)
(* concluded that way.                                                     *)
LEMMA ConcludeCounts ==
  ASSUME OrderInv, NEW outcome \in {"acked", "failed"},
         NEW other \in {"acked", "failed"} \ {outcome}, line \in Lines,
         verdict' = [verdict EXCEPT ![line] = outcome]
  PROVE  /\ Cardinality(Concluded(outcome)') = Cardinality(Concluded(outcome)) + 1
         /\ Cardinality(Concluded(other)') = Cardinality(Concluded(other))
<1>1. verdict \in [Lines -> {"none", "acked", "failed"}] /\ verdict[line] = "none" /\ line \in Nat
  BY DEF OrderInv, LoopInv, TypeOK, PlaceInv, Lines
<1>2. IsFiniteSet(Lines)
  BY FS_Interval DEF Lines
<1>3. IsFiniteSet(Concluded(outcome))
  BY <1>2, FS_Subset DEF Concluded
<1>4. Concluded(outcome)' = Concluded(outcome) \cup {line} /\ line \notin Concluded(outcome)
  BY <1>1 DEF Concluded
<1>5. Concluded(other)' = Concluded(other)
  BY <1>1 DEF Concluded
<1> QED
  BY <1>3, <1>4, <1>5, FS_AddElement

(* The counters and the acknowledgements agree with the place in the loop. *)
LEMMA CountInvariant == Spec => []CountInv
<1>1. Init => CountInv
  <2> SUFFICES ASSUME Init PROVE CountInv
    OBVIOUS
  <2>1. Concluded("acked") = {} /\ Concluded("failed") = {}
    BY DEF Init, Concluded
  <2>2. Cardinality(Concluded("acked")) = 0 /\ Cardinality(Concluded("failed")) = 0
    BY <2>1, FS_EmptySet
  <2>3. attempted = 0 /\ succeeded = 0 /\ failed = 0 /\ pc = "next"
    BY DEF Init
  <2> QED
    BY <2>1, <2>2, <2>3 DEF CountInv
<1>2. OrderInv /\ CountInv /\ [Next]_vars => CountInv'
  <2> SUFFICES ASSUME OrderInv, CountInv, [Next]_vars PROVE CountInv'
    OBVIOUS
  <2>0. LoopInv
    BY DEF OrderInv
  <2>1. CASE \/ \E i \in Lines : LandLate(i) \/ Vanish(i)
             \/ \E error \in AwsErrors : PutRetried(error)
             \/ HandleSignal \/ Settled \/ UNCHANGED vars
    <3>1. UNCHANGED <<pc, counters, verdict>>
      BY <2>1 DEF LandLate, Vanish, PutRetried, HandleSignal, Settled, vars
    <3> QED
      BY <3>1 DEF CountInv, counters, Concluded
  <2>2. CASE Finish \/ BeginEvent
    <3>1. Concluded("acked")' = Concluded("acked") /\ Concluded("failed")' = Concluded("failed")
      BY <2>2 DEF Finish, BeginEvent, Concluded
    <3> QED
      BY <2>0, <2>2, <3>1 DEF CountInv, Finish, BeginEvent, counters, LoopInv, TypeOK
  <2>3. CASE PutSucceeds
    <3>1. /\ line \in Lines /\ pc = "put" /\ pc' = "next"
          /\ verdict' = [verdict EXCEPT ![line] = "acked"]
          /\ succeeded' = succeeded + 1 /\ UNCHANGED <<attempted, failed>>
      BY <2>0, <2>3 DEF PutSucceeds, Conclude, LoopInv, TypeOK, Lines
    <3>2. /\ Cardinality(Concluded("acked")') = Cardinality(Concluded("acked")) + 1
          /\ Cardinality(Concluded("failed")') = Cardinality(Concluded("failed"))
      BY <3>1, ConcludeCounts
    <3> QED
      BY <2>0, <3>1, <3>2 DEF CountInv, LoopInv, TypeOK
  <2>4. ASSUME NEW error \in AwsErrors, PutFails(error) PROVE CountInv'
    <3>1. /\ line \in Lines /\ pc = "put" /\ pc' = "next"
          /\ verdict' = [verdict EXCEPT ![line] = "failed"]
          /\ failed' = failed + 1 /\ UNCHANGED <<attempted, succeeded>>
      BY <2>0, <2>4 DEF PutFails, Conclude, LoopInv, TypeOK, Lines
    <3>2. /\ Cardinality(Concluded("failed")') = Cardinality(Concluded("failed")) + 1
          /\ Cardinality(Concluded("acked")') = Cardinality(Concluded("acked"))
      BY <3>1, ConcludeCounts
    <3> QED
      BY <2>0, <3>1, <3>2 DEF CountInv, LoopInv, TypeOK
  <2> QED
    BY <2>1, <2>2, <2>3, <2>4 DEF Next, Producer, Network
<1> QED
  BY <1>1, <1>2, OrderInvariant, PTL DEF Spec

(* What the producer reports is what it did: the counts are those of the   *)
(* events concluded, which are a gapless prefix of the input, and every    *)
(* event counted as successful is in the stream.                           *)
THEOREM ReportCorrect == Spec => []ReportMatchesStream
<1>1. OrderInv /\ CountInv => ReportMatchesStream
  <2> SUFFICES ASSUME OrderInv, CountInv PROVE ReportMatchesStream
    OBVIOUS
  <2>1. PlaceInv
    BY DEF OrderInv
  <2>2. Concluded("acked") \subseteq Delivered
    BY <2>1 DEF PlaceInv, InShard, Concluded, Delivered
  <2> QED
    BY <2>1, <2>2 DEF PlaceInv, CountInv, ReportMatchesStream
<1> QED
  BY <1>1, OrderInvariant, CountInvariant, PTL

-----------------------------------------------------------------------------
(* Landing an event adds it to the events delivered.                       *)
LEMMA LandingDelivers ==
  ASSUME LoopInv, NEW i \in Lines, stream' = Landed(i)
  PROVE  Delivered' = Delivered \cup {i}
<1> DEFINE S == ShardOf[i]  L == Len(stream[S])
<1>1. /\ S \in Shards /\ stream \in [Shards -> Seq(Lines)]
      /\ stream' = [stream EXCEPT ![S] = Append(@, i)]
      /\ \A j \in Lines : ShardOf[j] \in Shards
  BY DEF Landed, LoopInv, TypeOK
<1>2. /\ \A d \in Shards \ {S} : stream'[d] = stream[d]
      /\ DOMAIN stream[S] = 1..L /\ DOMAIN stream'[S] = 1..(L + 1) /\ L \in Nat
      /\ stream'[S][L + 1] = i
      /\ \A k \in DOMAIN stream[S] : k \in DOMAIN stream'[S] /\ stream'[S][k] = stream[S][k]
  BY <1>1, AppendToLog
<1>3. i \in Delivered'
  BY <1>2 DEF Delivered
<1> HIDE DEF S, L
<1>4. \A j \in Lines : j \in Delivered => j \in Delivered'
  BY <1>1, <1>2 DEF Delivered
<1>5. \A j \in Lines : j \in Delivered' => j \in Delivered \/ j = i
  <2>1. \A d \in Shards : \A k : k \in DOMAIN stream'[d] =>
          (k \in DOMAIN stream[d] /\ stream'[d][k] = stream[d][k]) \/ stream'[d][k] = i
    BY <1>2
  <2> QED
    BY <1>1, <2>1 DEF Delivered
<1> QED
  BY <1>3, <1>4, <1>5 DEF Delivered

(* send_events keeps the promise of the abstract ledger: no event is given *)
(* two verdicts, and an acknowledged one is in the stream for good.        *)
THEOREM LedgerImplemented == Spec => ImplementsLedger
<1> USE DEF AbstractLedger!Deliver, AbstractLedger!Acknowledge, AbstractLedger!GiveUp,
            AbstractLedger!ledger
<1>1. Init => AbstractLedger!Init
  BY DEF Init, AbstractLedger!Init, Delivered, Lines
<1>2. OrderInv /\ [Next]_vars => [AbstractLedger!Next]_(AbstractLedger!ledger)
  <2> SUFFICES ASSUME OrderInv, [Next]_vars
               PROVE  AbstractLedger!Next \/ UNCHANGED AbstractLedger!ledger
    OBVIOUS
  <2>0. LoopInv /\ PlaceInv
    BY DEF OrderInv
  <2>1. ASSUME NEW i \in Lines, LandLate(i) PROVE AbstractLedger!Deliver(i)
    BY <2>0, <2>1, LandingDelivers DEF LandLate
  <2>2. CASE \/ \E i \in Lines : Vanish(i)
             \/ \E error \in AwsErrors : PutRetried(error)
             \/ HandleSignal \/ Finish \/ BeginEvent \/ Settled \/ UNCHANGED vars
    <3>1. UNCHANGED <<stream, verdict>>
      BY <2>2 DEF Vanish, PutRetried, HandleSignal, Finish, BeginEvent, Settled, vars
    <3> QED
      BY <3>1 DEF Delivered
  <2>3. CASE PutSucceeds
    <3>1. line \in Lines /\ stream' = Landed(line) /\ verdict' = [verdict EXCEPT ![line] = "acked"]
      BY <2>0, <2>3 DEF PutSucceeds, Conclude, LoopInv, TypeOK, Lines
    <3>2. verdict[line] = "none"
      BY <2>0, <3>1 DEF PlaceInv, LoopInv, TypeOK, Lines
    <3>3. AbstractLedger!Acknowledge(line)
      BY <2>0, <3>1, <3>2, LandingDelivers
    <3> QED
      BY <3>1, <3>3 DEF AbstractLedger!Next
  <2>4. ASSUME NEW error \in AwsErrors, PutFails(error) PROVE AbstractLedger!GiveUp(line) /\ line \in Lines
    <3>1. line \in Lines /\ UNCHANGED stream /\ verdict' = [verdict EXCEPT ![line] = "failed"]
      BY <2>0, <2>4 DEF PutFails, Conclude, LoopInv, TypeOK, Lines
    <3>2. verdict[line] = "none"
      BY <2>0, <3>1 DEF PlaceInv, LoopInv, TypeOK, Lines
    <3> QED
      BY <3>1, <3>2 DEF Delivered
  <2> QED
    BY <2>1, <2>2, <2>3, <2>4 DEF Next, Producer, Network, AbstractLedger!Next
<1> QED
  BY <1>1, <1>2, OrderInvariant, PTL DEF Spec, ImplementsLedger, AbstractLedger!Spec

-----------------------------------------------------------------------------
(* A stop asked for leaves the event in hand its whole retry(), and no     *)
(* other event is taken up: the signal only sets a flag, which the loop    *)
(* reads between two events.                                               *)
THEOREM StopCorrect == Spec => StopIsGraceful
<1>1. LoopInv /\ [Next]_vars =>
        (stopRequested =>
           /\ attempted' = attempted
           /\ pc = "put" /\ pc' # "put" => verdict'[line] # "none")
  <2> SUFFICES ASSUME LoopInv, [Next]_vars, stopRequested
               PROVE  /\ attempted' = attempted
                      /\ pc = "put" /\ pc' # "put" => verdict'[line] # "none"
    OBVIOUS
  <2>1. CASE \/ \E i \in Lines : LandLate(i) \/ Vanish(i)
             \/ \E error \in AwsErrors : PutRetried(error)
             \/ Settled \/ UNCHANGED vars
    <3>1. UNCHANGED <<pc, counters>>
      BY <2>1 DEF LandLate, Vanish, PutRetried, Settled, vars
    <3> QED
      BY <3>1 DEF counters
  <2>2. CASE HandleSignal \/ BeginEvent
    BY <2>2 DEF HandleSignal, BeginEvent
  <2>3. CASE Finish
    BY <2>3 DEF Finish, counters
  <2>4. ASSUME NEW outcome \in {"acked", "failed"}, Conclude(outcome), attempted' = attempted, pc = "put"
        PROVE  attempted' = attempted /\ verdict'[line] # "none"
    <3>1. line \in Lines /\ verdict \in [Lines -> {"none", "acked", "failed"}]
      BY <2>4 DEF LoopInv, TypeOK, Lines
    <3>2. verdict'[line] = outcome
      BY <2>4, <3>1 DEF Conclude
    <3> QED
      BY <2>4, <3>2
  <2>5. CASE PutSucceeds
    BY <2>4, <2>5 DEF PutSucceeds
  <2>6. ASSUME NEW error \in AwsErrors, PutFails(error)
        PROVE  attempted' = attempted /\ verdict'[line] # "none"
    BY <2>4, <2>6 DEF PutFails
  <2> QED
    BY <2>1, <2>2, <2>3, <2>5, <2>6 DEF Next, Producer, Network
<1> QED
  BY <1>1, LoopInvariant, PTL DEF Spec, StopIsGraceful

-----------------------------------------------------------------------------
(* How often an event was sent.  Each attempt of retry() may leave one     *)
(* request of its own and one per resend of the SDK; an event has as many  *)
(* attempts behind it as the loop variable tells, all of them once it is   *)
(* concluded, none before it is taken up.                                  *)
PerAttempt == SdkResends + 1
Attempts(i) ==
  IF i < line THEN Retries ELSE IF i = line /\ pc = "put" THEN attempt - 1 ELSE 0
CopiesIn(i, log) == Cardinality({k \in DOMAIN log : log[k] = i})
SentWithin(i, requests) == Copies(i) + inTransit[i] <= requests

SentInv == \A i \in Lines : SentWithin(i, Attempts(i) * PerAttempt)

(* Room made by further attempts takes what they send.                     *)
LEMMA AttemptsMakeRoom ==
  ASSUME NEW k \in Nat, NEW a \in Nat, NEW b \in Nat, NEW old \in Nat, NEW new \in Nat,
         old <= a * k,
         (a <= b /\ new <= old) \/ (a + 1 <= b /\ new <= old + k)
  PROVE  new <= b * k
<1>1. ASSUME NEW c \in Nat, NEW d \in Nat, c <= d PROVE c * k <= d * k
  <2>1. PICK e \in Nat : d = c + e
    BY <1>1
  <2>2. d * k = c * k + e * k /\ e * k >= 0
    BY <2>1
  <2>3. c * k \in Int /\ e * k \in Int
    OBVIOUS
  <2> QED
    BY <2>2, <2>3
<1>2. (a + 1) * k = a * k + k
  OBVIOUS
<1>3. a * k \in Nat /\ b * k \in Nat /\ (a + 1) * k \in Nat
  OBVIOUS
<1>4. CASE a <= b /\ new <= old
  BY <1>1, <1>3, <1>4
<1>5. CASE a + 1 <= b /\ new <= old + k
  <2>1. (a + 1) * k <= b * k
    BY <1>1, <1>5
  <2> QED
    BY <1>2, <1>3, <1>5, <2>1
<1> QED
  BY <1>4, <1>5

(* A place in the loop that is not the first one has one before it.        *)
LEMMA Predecessor == \A n \in Nat : n >= 1 => n - 1 \in Nat
OBVIOUS

(* In every state, and the one after it.                                   *)
LEMMA AttemptsAreCounted ==
  ASSUME LoopInv, LoopInv', NEW i \in Lines
  PROVE  Attempts(i) \in Nat /\ Attempts(i)' \in Nat
<1>1. Attempts(i) \in Nat
  BY DEF Attempts, LoopInv, TypeOK
<1>2. /\ Attempts(i)' = IF i < line' THEN Retries
                        ELSE IF i = line' /\ pc' = "put" THEN attempt' - 1 ELSE 0
      /\ attempt' \in Nat /\ (pc' = "put" => attempt' >= 1) /\ Retries \in Nat
  BY DEF Attempts, LoopInv, TypeOK
<1>3. pc' = "put" => attempt' - 1 \in Nat
  BY <1>2, Predecessor
<1>4. Attempts(i)' \in Nat
  <2>1. CASE i < line'
    BY <1>2, <2>1
  <2>2. CASE ~(i < line') /\ i = line' /\ pc' = "put"
    BY <1>2, <1>3, <2>2
  <2>3. CASE ~(i < line') /\ ~(i = line' /\ pc' = "put")
    <3>1. Attempts(i)' = 0
      BY <1>2, <2>3
    <3> QED
      BY <3>1
  <2> QED
    BY <2>1, <2>2, <2>3
<1> QED
  BY <1>1, <1>4

(* A shard holds finitely many copies of an event.                         *)
LEMMA CopiesAreFinite ==
  ASSUME NEW T, NEW log \in Seq(T), NEW i
  PROVE  CopiesIn(i, log) \in Nat /\ IsFiniteSet({k \in DOMAIN log : log[k] = i})
<1>1. IsFiniteSet(DOMAIN log)
  <2>1. DOMAIN log = 1..Len(log) /\ Len(log) \in Nat
    OBVIOUS
  <2> QED
    BY <2>1, FS_Interval
<1>2. IsFiniteSet({k \in DOMAIN log : log[k] = i})
  BY <1>1, FS_Subset
<1> QED
  BY <1>2, FS_CardinalityType DEF CopiesIn

(* Landing an event adds one copy of it and none of another.               *)
LEMMA LandingCounts ==
  ASSUME LoopInv, NEW i \in Lines, stream' = Landed(i), NEW j \in Lines
  PROVE  Copies(j)' = Copies(j) + IF j = i THEN 1 ELSE 0
<1> DEFINE S == ShardOf[i]  L == Len(stream[S])
           At(log) == {k \in DOMAIN log : log[k] = j}
<1>1. /\ S \in Shards /\ stream \in [Shards -> Seq(Lines)]
      /\ stream' = [stream EXCEPT ![S] = Append(@, i)]
      /\ ShardOf[j] \in Shards
  BY DEF Landed, LoopInv, TypeOK
<1>2. /\ \A d \in Shards \ {S} : stream'[d] = stream[d]
      /\ DOMAIN stream[S] = 1..L /\ DOMAIN stream'[S] = 1..(L + 1) /\ L \in Nat
      /\ stream'[S][L + 1] = i
      /\ \A k \in DOMAIN stream[S] : k \in DOMAIN stream'[S] /\ stream'[S][k] = stream[S][k]
  BY <1>1, AppendToLog
<1>3. Copies(j) = Cardinality(At(stream[ShardOf[j]]))
      /\ Copies(j)' = Cardinality(At(stream'[ShardOf[j]]))
  BY DEF Copies
<1>4. IsFiniteSet(At(stream[ShardOf[j]])) /\ Copies(j) \in Nat
  <2>1. stream[ShardOf[j]] \in Seq(Lines)
    BY <1>1
  <2>2. IsFiniteSet(At(stream[ShardOf[j]])) /\ CopiesIn(j, stream[ShardOf[j]]) \in Nat
    BY <2>1, CopiesAreFinite
  <2> QED
    BY <1>3, <2>2 DEF CopiesIn
<1>5. CASE j = i
  <2>1. ShardOf[j] = S
    BY <1>5
  <2> HIDE DEF S, L
  <2>2. At(stream'[S]) = At(stream[S]) \cup {L + 1} /\ L + 1 \notin At(stream[S])
    BY <1>2, <1>5
  <2> QED
    BY <1>3, <1>4, <1>5, <2>1, <2>2, FS_AddElement
<1>6. CASE j # i
  <2> HIDE DEF S, L
  <2>1. At(stream'[ShardOf[j]]) = At(stream[ShardOf[j]])
    <3>1. CASE ShardOf[j] = S
      BY <1>2, <1>6, <3>1
    <3>2. CASE ShardOf[j] # S
      BY <1>1, <1>2, <3>2
    <3> QED
      BY <3>1, <3>2
  <2> QED
    BY <1>3, <1>4, <1>6, <2>1
<1> QED
  BY <1>5, <1>6

(* What every step of the loop and of the network does to one event: sends *)
(* nothing more, or is one attempt more and sends at most one attempt's.   *)
LEMMA SentStep ==
  ASSUME LoopInv, LoopInv', NEW i \in Lines, SentWithin(i, Attempts(i) * PerAttempt),
         NEW more \in 0..PerAttempt, NEW tries \in 0..1, more > 0 => tries = 1,
         Copies(i)' + inTransit'[i] <= Copies(i) + inTransit[i] + more,
         Attempts(i)' >= Attempts(i) + tries
  PROVE  SentWithin(i, Attempts(i) * PerAttempt)'
<1>1. Copies(i) \in Nat /\ Copies(i)' \in Nat
  <2>1. stream[ShardOf[i]] \in Seq(Lines) /\ stream'[ShardOf[i]] \in Seq(Lines)
    BY DEF LoopInv, TypeOK
  <2>2. Copies(i) = CopiesIn(i, stream[ShardOf[i]]) /\ Copies(i)' = CopiesIn(i, stream'[ShardOf[i]])
    BY DEF Copies, CopiesIn
  <2> QED
    BY <2>1, <2>2, CopiesAreFinite
<1>2. inTransit[i] \in Nat /\ inTransit'[i] \in Nat
  BY DEF LoopInv, TypeOK
<1>3. PerAttempt \in Nat /\ Attempts(i) \in Nat /\ Attempts(i)' \in Nat
  <2>1. PerAttempt \in Nat
    BY DEF PerAttempt
  <2> QED
    BY <2>1, AttemptsAreCounted
<1> DEFINE old == Copies(i) + inTransit[i]
           new == Copies(i)' + inTransit'[i]
<1>4. old \in Nat /\ new \in Nat /\ new <= old + more
  BY <1>1, <1>2
<1>5. old <= Attempts(i) * PerAttempt
  BY DEF SentWithin
<1> HIDE DEF old, new
<1>6. \/ Attempts(i) <= Attempts(i)' /\ new <= old
      \/ Attempts(i) + 1 <= Attempts(i)' /\ new <= old + PerAttempt
  BY <1>3, <1>4
<1>7. new <= Attempts(i)' * PerAttempt
  BY <1>3, <1>4, <1>5, <1>6, AttemptsMakeRoom
<1> QED
  BY <1>7 DEF new, SentWithin, PerAttempt

(* Copies of an event in its shard and on their way are paid for by the    *)
(* tries that were made of it.                                             *)
LEMMA SentInvariant == Spec => []SentInv
<1>1. Init => SentInv
  <2> SUFFICES ASSUME Init, NEW i \in Lines PROVE SentWithin(i, Attempts(i) * PerAttempt)
    BY DEF SentInv
  <2>1. stream[ShardOf[i]] = << >> /\ inTransit[i] = 0
    BY DEF Init
  <2>2. {k \in DOMAIN stream[ShardOf[i]] : stream[ShardOf[i]][k] = i} = {}
    BY <2>1
  <2>3. Copies(i) = 0
    BY <2>2, FS_EmptySet DEF Copies
  <2>4. Attempts(i) = 0
    BY DEF Init, Attempts, Lines
  <2>5. 0 * PerAttempt = 0
    BY DEF PerAttempt
  <2> QED
    BY <2>1, <2>3, <2>4, <2>5 DEF SentWithin
<1>2. LoopInv /\ LoopInv' /\ SentInv /\ [Next]_vars => SentInv'
  <2> SUFFICES ASSUME LoopInv, LoopInv', SentInv, [Next]_vars, NEW j \in Lines
               PROVE  SentWithin(j, Attempts(j) * PerAttempt)'
    BY DEF SentInv
  <2>0. /\ SentWithin(j, Attempts(j) * PerAttempt)
        /\ Attempts(j) \in Nat /\ PerAttempt \in Nat \ {0} /\ inTransit[j] \in Nat
        /\ inTransit \in [Lines -> Nat] /\ j \in Nat /\ line \in Nat
    <3>1. SentWithin(j, Attempts(j) * PerAttempt)
      BY DEF SentInv
    <3>2. PerAttempt \in Nat \ {0}
      BY DEF PerAttempt
    <3>3. Attempts(j) \in Nat
      BY AttemptsAreCounted
    <3>4. inTransit \in [Lines -> Nat] /\ j \in Nat /\ line \in Nat
      BY DEF LoopInv, TypeOK, Lines
    <3> QED
      BY <3>1, <3>2, <3>3, <3>4
  <2>a. Copies(j) \in Nat
    <3>1. stream[ShardOf[j]] \in Seq(Lines)
      BY DEF LoopInv, TypeOK
    <3>2. Copies(j) = CopiesIn(j, stream[ShardOf[j]])
      BY DEF Copies, CopiesIn
    <3> QED
      BY <3>1, <3>2, CopiesAreFinite
  <2>1. ASSUME Copies(j)' + inTransit'[j] <= Copies(j) + inTransit[j], Attempts(j)' >= Attempts(j)
        PROVE  SentWithin(j, Attempts(j) * PerAttempt)'
    <3>1. 0 \in 0..PerAttempt /\ 0 \in 0..1
      BY <2>0
    <3>2. /\ Copies(j)' + inTransit'[j] <= Copies(j) + inTransit[j] + 0
          /\ Attempts(j)' >= Attempts(j) + 0
      BY <2>0, <2>1, <2>a
    <3> QED
      BY <2>0, <3>1, <3>2, SentStep
  <2>2. ASSUME Copies(j)' + inTransit'[j] <= Copies(j) + inTransit[j] + PerAttempt,
               Attempts(j)' >= Attempts(j) + 1
        PROVE  SentWithin(j, Attempts(j) * PerAttempt)'
    <3>1. PerAttempt \in 0..PerAttempt /\ 1 \in 0..1
      BY <2>0
    <3> QED
      BY <2>0, <2>2, <3>1, SentStep
  <2>3. ASSUME NEW i \in Lines, LandLate(i) PROVE SentWithin(j, Attempts(j) * PerAttempt)'
    <3>1. Copies(j)' = Copies(j) + IF j = i THEN 1 ELSE 0
      BY <2>3, LandingCounts DEF LandLate
    <3>2. inTransit'[j] = inTransit[j] - IF j = i THEN 1 ELSE 0
      BY <2>0, <2>3 DEF LandLate
    <3>3. Attempts(j)' = Attempts(j)
      BY <2>3 DEF LandLate, Attempts
    <3> QED
      BY <2>0, <2>1, <2>a, <3>1, <3>2, <3>3
  <2>4. ASSUME NEW i \in Lines, Vanish(i) PROVE SentWithin(j, Attempts(j) * PerAttempt)'
    <3>1. Copies(j)' = Copies(j) /\ Attempts(j)' = Attempts(j)
      BY <2>4 DEF Vanish, Copies, Attempts
    <3>2. inTransit'[j] = inTransit[j] - IF j = i THEN 1 ELSE 0
      BY <2>0, <2>4 DEF Vanish
    <3> QED
      BY <2>0, <2>1, <2>a, <3>1, <3>2
  <2>5. CASE HandleSignal \/ Finish \/ BeginEvent \/ Settled \/ UNCHANGED vars
    <3>1. UNCHANGED <<stream, inTransit, line>>
      BY <2>5 DEF HandleSignal, Finish, BeginEvent, Settled, vars
    <3>2. Copies(j)' = Copies(j)
      BY <3>1 DEF Copies
    <3>3. \/ UNCHANGED <<pc, attempt>>
          \/ pc = "next"
      BY <2>5 DEF HandleSignal, Finish, BeginEvent, Settled, vars
    <3>4. Attempts(j)' \in Nat
      BY AttemptsAreCounted
    <3>5. Attempts(j)' >= Attempts(j)
      BY <2>0, <3>1, <3>3, <3>4 DEF Attempts
    <3> QED
      BY <2>0, <2>1, <2>a, <3>1, <3>2, <3>5
  <2>6. ASSUME pc = "put", line' = line, attempt' = attempt + 1, pc' = "put", UNCHANGED stream,
               NEW late \in 0..PerAttempt, inTransit' = [inTransit EXCEPT ![line] = @ + late]
        PROVE  SentWithin(j, Attempts(j) * PerAttempt)'
    <3>1. Copies(j)' = Copies(j)
      BY <2>6 DEF Copies
    <3>2. CASE j = line
      <4>1. Attempts(j)' = Attempts(j) + 1
        BY <2>6, <3>2 DEF Attempts, LoopInv, TypeOK
      <4>2. inTransit'[j] = inTransit[j] + late
        BY <2>0, <2>6, <3>2
      <4>3. inTransit'[j] <= inTransit[j] + PerAttempt
        BY <2>0, <4>2
      <4> QED
        BY <2>0, <2>2, <2>a, <3>1, <4>1, <4>2, <4>3
    <3>3. CASE j # line
      <4>1. Attempts(j)' = Attempts(j)
        BY <2>6, <3>3 DEF Attempts
      <4>2. inTransit'[j] = inTransit[j]
        BY <2>0, <2>6, <3>3
      <4> QED
        BY <2>0, <2>1, <2>a, <3>1, <4>1, <4>2
    <3> QED
      BY <3>2, <3>3
  <2>7. ASSUME NEW error \in AwsErrors, PutRetried(error)
        PROVE  SentWithin(j, Attempts(j) * PerAttempt)'
    <3>1. PICK late \in 0..MaxInTransit(error) : inTransit' = [inTransit EXCEPT ![line] = @ + late]
      BY <2>7 DEF PutRetried
    <3>2. late \in 0..PerAttempt
      BY <3>1 DEF MaxInTransit, PerAttempt
    <3> QED
      BY <2>6, <2>7, <3>1, <3>2 DEF PutRetried
  <2>8. ASSUME pc = "put", line' = line + 1, pc' = "next",
               Copies(j)' + inTransit'[j] <=
                 Copies(j) + inTransit[j] + (IF j = line THEN PerAttempt ELSE 0)
        PROVE  SentWithin(j, Attempts(j) * PerAttempt)'
    <3>1. CASE j = line
      <4>1. Attempts(j)' >= Attempts(j) + 1
        BY <2>0, <2>8, <3>1 DEF Attempts, LoopInv, TypeOK
      <4> QED
        BY <2>2, <2>8, <3>1, <4>1
    <3>2. CASE j # line
      <4>1. Attempts(j)' = Attempts(j)
        BY <2>0, <2>8, <3>2 DEF Attempts
      <4> QED
        BY <2>0, <2>1, <2>8, <2>a, <3>2, <4>1
    <3> QED
      BY <3>1, <3>2
  <2>9. CASE PutSucceeds
    <3>1. /\ pc = "put" /\ line' = line + 1 /\ pc' = "next" /\ stream' = Landed(line)
          /\ line \in Lines
      BY <2>9 DEF PutSucceeds, Conclude, LoopInv, TypeOK, Lines
    <3>2. PICK resent \in 0..SdkResends : inTransit' = [inTransit EXCEPT ![line] = @ + resent]
      BY <2>9 DEF PutSucceeds
    <3>3. Copies(j)' = Copies(j) + IF j = line THEN 1 ELSE 0
      BY <3>1, LandingCounts
    <3>4. inTransit'[j] = inTransit[j] + IF j = line THEN resent ELSE 0
      BY <2>0, <3>2
    <3>5. Copies(j)' + inTransit'[j] <=
            Copies(j) + inTransit[j] + (IF j = line THEN PerAttempt ELSE 0)
      BY <2>0, <2>a, <3>3, <3>4 DEF PerAttempt
    <3> QED
      BY <2>8, <3>1, <3>5
  <2>10. ASSUME NEW error \in AwsErrors, PutFails(error)
         PROVE  SentWithin(j, Attempts(j) * PerAttempt)'
    <3>1. pc = "put" /\ line' = line + 1 /\ pc' = "next" /\ UNCHANGED stream
      BY <2>10 DEF PutFails, Conclude
    <3>2. PICK late \in 0..MaxInTransit(error) : inTransit' = [inTransit EXCEPT ![line] = @ + late]
      BY <2>10 DEF PutFails
    <3>3. Copies(j)' = Copies(j)
      BY <3>1 DEF Copies
    <3>4. inTransit'[j] = inTransit[j] + IF j = line THEN late ELSE 0
      BY <2>0, <3>2 DEF MaxInTransit
    <3>5. Copies(j)' + inTransit'[j] <=
            Copies(j) + inTransit[j] + (IF j = line THEN PerAttempt ELSE 0)
      BY <2>0, <2>a, <3>2, <3>3, <3>4 DEF PerAttempt, MaxInTransit
    <3> QED
      BY <2>8, <3>1, <3>5
  <2> QED
    BY <2>3, <2>4, <2>5, <2>7, <2>9, <2>10 DEF Next, Producer, Network
<1> QED
  BY <1>1, <1>2, LoopInvariant, PTL DEF Spec

(* retry() bounds the duplication: an event is in the stream, or still on  *)
(* its way there, at most once per request sent for it, and never when it  *)
(* was never put.                                                          *)
THEOREM DuplicationCorrect == Spec => []DuplicationBounded
<1>1. LoopInv /\ SentInv => DuplicationBounded
  <2> SUFFICES ASSUME LoopInv, SentInv, NEW i \in Lines
               PROVE  Copies(i) + inTransit[i] <=
                        IF i >= line + (IF pc = "put" THEN 1 ELSE 0) THEN 0
                        ELSE Retries * (SdkResends + 1)
    BY DEF DuplicationBounded
  <2>1. /\ Copies(i) + inTransit[i] <= Attempts(i) * PerAttempt
        /\ Attempts(i) \in Nat /\ Attempts(i) <= Retries
        /\ i \in Nat /\ line \in Nat /\ PerAttempt \in Nat
    BY DEF SentInv, SentWithin, Attempts, PerAttempt, LoopInv, TypeOK, Lines
  <2>2. Copies(i) + inTransit[i] \in Nat
    <3>1. stream[ShardOf[i]] \in Seq(Lines) /\ inTransit[i] \in Nat
      BY DEF LoopInv, TypeOK
    <3>2. Copies(i) = CopiesIn(i, stream[ShardOf[i]])
      BY DEF Copies, CopiesIn
    <3>3. CopiesIn(i, stream[ShardOf[i]]) \in Nat
      BY <3>1, CopiesAreFinite
    <3> QED
      BY <3>1, <3>2, <3>3
  <2>3. Copies(i) + inTransit[i] <= Retries * PerAttempt
    BY <2>1, <2>2, AttemptsMakeRoom
  <2>4. CASE i >= line + (IF pc = "put" THEN 1 ELSE 0)
    <3>1. Attempts(i) = 0
      BY <2>1, <2>4 DEF Attempts
    <3>2. 0 * PerAttempt = 0
      BY <2>1
    <3> QED
      BY <2>1, <2>4, <3>1, <3>2
  <2>5. CASE ~(i >= line + (IF pc = "put" THEN 1 ELSE 0))
    BY <2>3, <2>5 DEF PerAttempt
  <2> QED
    BY <2>4, <2>5
<1> QED
  BY <1>1, LoopInvariant, SentInvariant, PTL

=============================================================================
