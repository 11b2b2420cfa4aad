------------------------ MODULE KinesisConsumer_proofs ------------------------
(***************************************************************************)
(* Proofs that every batch is in order, that a LATEST run skips what was   *)
(* there, that polling implements MicroBatch and runs out, and what the    *)
(* files of killed and overlapping runs tell (BatchInOrder,                *)
(* LatestSkipsBacklog, ImplementsMicroBatch, PollingRunsOut and            *)
(* FilesAccountable of KinesisConsumer), for any number of runs, shards,   *)
(* records and polls.                                                      *)
(***************************************************************************)
EXTENDS KinesisConsumer, SequenceTheorems, FiniteSetTheorems, TLAPS

-----------------------------------------------------------------------------
(* The inductive invariant.                                                *)

InFiles == {"in raw", "in canonical", "in bronze"}

PollTypes ==
  /\ stream \in [Shards -> Seq(RecordKinds)]
  /\ pc \in [Runs -> {"start", "open", "poll", "stamp", "done", "failed"} \cup FileKinds \cup InFiles]
  /\ turn \in [Runs -> 1..Len(ShardList)]
  /\ iterator \in [Runs -> Nat]
  /\ batch \in [Runs -> Seq(Shards \X Nat)]

(* BatchInOrder for one run.                                               *)
InOrder(r) ==
  /\ Len(batch[r]) <= MaxRecords
  /\ \A k \in DOMAIN batch[r] :
       /\ batch[r][k][2] \in 1..Len(stream[batch[r][k][1]])
       /\ k > 1 /\ batch[r][k-1][1] = batch[r][k][1] => batch[r][k-1][2] = batch[r][k][2] - 1
       /\ k = 1 \/ batch[r][k-1][1] # batch[r][k][1] =>
            /\ IteratorType[r] = "TRIM_HORIZON" => batch[r][k][2] = 1
            /\ \A j \in 1..(k-1) : \E a, b \in DOMAIN ShardList :
                 a < b /\ ShardList[a] = batch[r][j][1] /\ ShardList[b] = batch[r][k][1]

(* A batch comes from the shards up to the one whose turn it is.           *)
Covered(r) ==
  \A k \in DOMAIN batch[r] : \E a \in 1..turn[r] : ShardList[a] = batch[r][k][1]

Untouched(r) == \A k \in DOMAIN batch[r] : batch[r][k][1] # Shard(r)

(* The iterator is right after the last record of the batch, unless the    *)
(* shard has given none yet.                                               *)
Follows(r) ==
  LET last == Len(batch[r]) IN
  \/ last > 0 /\ batch[r][last][1] = Shard(r) /\ iterator[r] = batch[r][last][2] + 1
  \/ Untouched(r) /\ (IteratorType[r] = "TRIM_HORIZON" => iterator[r] = 1)

Aligned(r) ==
  /\ pc[r] = "start" => batch[r] = <<>>
  /\ pc[r] = "open" => Untouched(r)
  /\ pc[r] = "poll" /\ iterator[r] # NoIterator =>
       iterator[r] <= Len(stream[Shard(r)]) + 1 /\ Follows(r)

RunInv(r) == InOrder(r) /\ Covered(r) /\ Aligned(r)

PollInv == PollTypes /\ \A r \in Runs : RunInv(r)

USE ConsumerAssumption

(* A run about to write a file is at no other place.                       *)
LEMMA InFileFacts ==
  /\ FileKinds = {"raw", "canonical", "bronze"}
  /\ InFile["raw"] = "in raw" /\ InFile["canonical"] = "in canonical"
  /\ InFile["bronze"] = "in bronze"
  /\ \A kind \in FileKinds : InFile[kind] \in InFiles
  /\ \A kind, other \in FileKinds : InFile[kind] = InFile[other] => kind = other
BY DEF FileKinds, InFile, InFiles

(* The list of the shards names each of them once.                         *)
LEMMA ShardListFacts ==
  /\ ShardList \in Seq(Shards) /\ Len(ShardList) \in Nat \ {0}
  /\ DOMAIN ShardList = 1..Len(ShardList)
  /\ \A a \in 1..Len(ShardList) : ShardList[a] \in Shards
  /\ \A a, b \in 1..Len(ShardList) : ShardList[a] = ShardList[b] => a = b
BY DEF ConsumerAssumption, IsInjective

(* What the types say of one run.                                          *)
LEMMA RunFacts ==
  ASSUME PollTypes, NEW r \in Runs
  PROVE  /\ turn[r] \in 1..Len(ShardList) /\ turn[r] \in Nat /\ iterator[r] \in Nat
         /\ Shard(r) \in Shards /\ Shard(r) = ShardList[turn[r]]
         /\ batch[r] \in Seq(Shards \X Nat) /\ Len(batch[r]) \in Nat
         /\ DOMAIN batch[r] = 1..Len(batch[r])
         /\ \A k \in DOMAIN batch[r] : batch[r][k][1] \in Shards /\ batch[r][k][2] \in Nat
         /\ \A s \in Shards : Len(stream[s]) \in Nat
<1>1. turn[r] \in 1..Len(ShardList) /\ turn[r] \in Nat /\ iterator[r] \in Nat
  BY ShardListFacts DEF PollTypes
<1>2. Shard(r) \in Shards /\ Shard(r) = ShardList[turn[r]]
  BY <1>1, ShardListFacts DEF Shard
<1>3. batch[r] \in Seq(Shards \X Nat)
  BY DEF PollTypes
<1>4. Len(batch[r]) \in Nat /\ DOMAIN batch[r] = 1..Len(batch[r])
  BY <1>3
<1>5. \A k \in DOMAIN batch[r] : batch[r][k] \in Shards \X Nat
  BY <1>3, <1>4
<1>6. \A k \in DOMAIN batch[r] : batch[r][k][1] \in Shards /\ batch[r][k][2] \in Nat
  BY <1>5
<1>7. \A s \in Shards : Len(stream[s]) \in Nat
  <2> TAKE s \in Shards
  <2>1. stream[s] \in Seq(RecordKinds)
    BY DEF PollTypes
  <2> QED
    BY <2>1
<1> QED
  BY <1>1, <1>2, <1>3, <1>4, <1>6, <1>7

(* A run that opens or writes a file goes on to the next file, or ends.    *)
LEMMA WritersMove ==
  ASSUME PollTypes, NEW r \in Runs, NEW kind \in FileKinds,
         OpenFile(r, kind) \/ WriteFile(r, kind) \/ FailWriting(r, kind)
  PROVE  /\ UNCHANGED <<stream, sealed, clock, turn, iterator, emptyPolls, batch, stamp>>
         /\ pc' = [pc EXCEPT ![r] = pc'[r]]
         /\ pc[r] \in FileKinds \cup InFiles
         /\ pc'[r] \in {"done", "failed"} \cup FileKinds \cup InFiles
         /\ pc'[r] \notin {"start", "open", "poll", "stamp"}
<1>1. UNCHANGED <<stream, sealed, clock, turn, iterator, emptyPolls, batch, stamp>>
  BY DEF OpenFile, WriteFile, FailWriting, kinesis, locals
<1>2. After(kind) \in {"done"} \cup FileKinds
  BY DEF After, FileKinds
<1>3. PICK next \in {"done", "failed"} \cup FileKinds \cup InFiles : pc' = [pc EXCEPT ![r] = next]
  BY <1>2, InFileFacts DEF OpenFile, WriteFile, FailWriting, Go
<1>4. pc'[r] = next
  BY <1>3 DEF PollTypes
<1>5. pc[r] \in FileKinds \cup InFiles
  BY InFileFacts DEF OpenFile, WriteFile, FailWriting
<1>6. next \notin {"start", "open", "poll", "stamp"}
  BY <1>3 DEF FileKinds, InFiles
<1> QED
  BY <1>1, <1>3, <1>4, <1>5, <1>6

-----------------------------------------------------------------------------
(* A run that does not move, or goes beyond its polling, keeps its         *)
(* invariant while the shards grow.                                        *)
LEMMA RunStays ==
  ASSUME PollInv, NEW q \in Runs,
         batch'[q] = batch[q], turn'[q] = turn[q], iterator'[q] = iterator[q],
         pc'[q] = pc[q] \/ pc'[q] \notin {"start", "open", "poll"},
         \A s \in Shards : Len(stream'[s]) \in Nat /\ Len(stream[s]) <= Len(stream'[s])
  PROVE  RunInv(q)'
<1>1. RunInv(q) /\ PollTypes
  BY DEF PollInv
<1>2. Shard(q) \in Shards /\ Shard(q)' = Shard(q)
  BY <1>1, RunFacts DEF Shard
<1>3. \A k \in DOMAIN batch[q] : batch[q][k][1] \in Shards /\ batch[q][k][2] \in Nat
  BY <1>1, RunFacts
<1>4. \A s \in Shards : Len(stream[s]) \in Nat /\ Len(stream'[s]) \in Nat
  BY <1>1, RunFacts
<1>5. InOrder(q)'
  BY <1>1, <1>3, <1>4 DEF RunInv, InOrder
<1>6. Covered(q)'
  BY <1>1 DEF RunInv, Covered
<1>7. Aligned(q)'
  <2>1. Untouched(q) => Untouched(q)'
    BY <1>2 DEF Untouched
  <2>2. Follows(q) => Follows(q)'
    BY <1>2, <2>1 DEF Follows
  <2>3. iterator[q] \in Nat
    BY <1>1, RunFacts
  <2>4. iterator[q] <= Len(stream[Shard(q)]) + 1 => iterator'[q] <= Len(stream'[Shard(q)']) + 1
    BY <1>2, <1>4, <2>3
  <2> QED
    BY <1>1, <2>1, <2>2, <2>4 DEF RunInv, Aligned
<1> QED
  BY <1>5, <1>6, <1>7 DEF RunInv

(* What one get_records call adds to a batch.                              *)
LEMMA FetchedAppended ==
  ASSUME NEW S, NEW s \in S, NEW old \in Seq(S \X Nat), NEW from \in Nat, NEW count \in Nat,
         NEW new, new = old \o [k \in 1..count |-> <<s, from + k - 1>>], from > 0
  PROVE  /\ new \in Seq(S \X Nat)
         /\ Len(new) = Len(old) + count /\ Len(old) \in Nat
         /\ DOMAIN new = 1..(Len(old) + count) /\ DOMAIN old = 1..Len(old)
         /\ \A k \in 1..Len(old) : new[k] = old[k]
         /\ \A k \in (Len(old) + 1)..(Len(old) + count) :
              new[k][1] = s /\ new[k][2] = from + (k - Len(old)) - 1
<1> DEFINE more == [k \in 1..count |-> <<s, from + k - 1>>]
<1>1. more \in Seq(S \X Nat) /\ Len(more) = count
  <2>1. \A k \in 1..count : from + k - 1 \in Nat
    OBVIOUS
  <2>2. \A k \in 1..count : <<s, from + k - 1>> \in S \X Nat
    BY <2>1
  <2>3. more \in [1..count -> S \X Nat]
    BY <2>2
  <2> QED
    BY <2>3
<1>2. new = old \o more
  OBVIOUS
<1> HIDE DEF more
<1>3. new \in Seq(S \X Nat) /\ Len(new) = Len(old) + count
  BY <1>1, <1>2
<1>4. Len(old) \in Nat /\ DOMAIN new = 1..(Len(old) + count) /\ DOMAIN old = 1..Len(old)
  BY <1>3
<1>5. \A k \in 1..Len(old) : new[k] = old[k]
  BY <1>1, <1>2, <1>4
<1>6. \A k \in (Len(old) + 1)..(Len(old) + count) :
        new[k][1] = s /\ new[k][2] = from + (k - Len(old)) - 1
  <2> TAKE k \in (Len(old) + 1)..(Len(old) + count)
  <2>1. k - Len(old) \in 1..count
    BY <1>4
  <2>2. new[k] = more[k - Len(old)]
    <3>1. k \in 1..(Len(old) + Len(more)) /\ ~(k <= Len(old))
      BY <1>1, <1>4
    <3> QED
      BY <1>1, <1>2, <3>1, ConcatProperties
  <2>3. new[k] = <<s, from + (k - Len(old)) - 1>>
    BY <2>1, <2>2 DEF more
  <2> QED
    BY <2>3
<1> QED
  BY <1>3, <1>4, <1>5, <1>6

-----------------------------------------------------------------------------
(* One get_records call keeps the invariant of the run that makes it.      *)
LEMMA GetRecordsKeepsRun ==
  ASSUME PollInv, NEW r \in Runs, NEW count \in 0..ShardCapacity, GetRecords(r, count)
  PROVE  RunInv(r)' /\ batch'[r] \in Seq(Shards \X Nat) /\ iterator'[r] \in Nat
<1> DEFINE s == Shard(r)
           from == iterator[r]
           old == batch[r]
           new == batch'[r]
<1>1. PollTypes /\ RunInv(r)
  BY DEF PollInv
<1>2. /\ turn[r] \in 1..Len(ShardList) /\ from \in Nat /\ s \in Shards
      /\ s = ShardList[turn[r]] /\ old \in Seq(Shards \X Nat) /\ Len(old) \in Nat
      /\ Len(stream[s]) \in Nat
  BY <1>1, RunFacts
<1>3. /\ pc[r] = "poll" /\ from # NoIterator /\ count \in Nat
      /\ count <= MaxRecords - Len(old) /\ from + count - 1 <= Len(stream[s])
  BY DEF GetRecords, KeepsPolling, Responses, ConsumerAssumption
<1>4. from > 0
  BY <1>2, <1>3 DEF NoIterator
<1>5. /\ new = old \o [k \in 1..count |-> <<s, from + k - 1>>]
      /\ iterator'[r] = NextIterator(r, count)
      /\ stream' = stream /\ pc' = pc /\ turn' = turn
  BY <1>1 DEF GetRecords, Fetched, PollTypes, kinesis
<1> HIDE DEF s, from, old, new
<1>6. /\ new \in Seq(Shards \X Nat)
      /\ Len(new) = Len(old) + count
      /\ DOMAIN new = 1..(Len(old) + count) /\ DOMAIN old = 1..Len(old)
      /\ \A k \in 1..Len(old) : new[k] = old[k]
      /\ \A k \in (Len(old) + 1)..(Len(old) + count) :
           new[k][1] = s /\ new[k][2] = from + (k - Len(old)) - 1
  <2>1. /\ s \in Shards /\ old \in Seq(Shards \X Nat) /\ from \in Nat /\ count \in Nat
        /\ new = old \o [k \in 1..count |-> <<s, from + k - 1>>] /\ from > 0
    BY <1>2, <1>3, <1>4, <1>5
  <2>2. /\ new \in Seq(Shards \X Nat) /\ Len(new) = Len(old) + count
        /\ DOMAIN new = 1..(Len(old) + count) /\ DOMAIN old = 1..Len(old)
    BY <2>1, FetchedAppended
  <2>3. \A k \in 1..Len(old) : new[k] = old[k]
    BY <2>1, FetchedAppended
  <2>4. \A k \in (Len(old) + 1)..(Len(old) + count) :
          new[k][1] = s /\ new[k][2] = from + (k - Len(old)) - 1
    BY <2>1, FetchedAppended
  <2> QED
    BY <2>2, <2>3, <2>4
<1>7. Follows(r) /\ from <= Len(stream[s]) + 1
  BY <1>1, <1>3 DEF RunInv, Aligned, from, s
<1>8. Shard(r)' = s
  BY <1>5 DEF Shard, s
<1>9. InOrder(r)'
  <2>1. Len(new) <= MaxRecords
    BY <1>2, <1>3, <1>6 DEF ConsumerAssumption
  <2>2. ASSUME NEW k \in 1..Len(old)
        PROVE  /\ new[k][2] \in 1..Len(stream'[new[k][1]])
               /\ k > 1 /\ new[k-1][1] = new[k][1] => new[k-1][2] = new[k][2] - 1
               /\ k = 1 \/ new[k-1][1] # new[k][1] =>
                    /\ IteratorType[r] = "TRIM_HORIZON" => new[k][2] = 1
                    /\ \A j \in 1..(k-1) : \E a, b \in DOMAIN ShardList :
                         a < b /\ ShardList[a] = new[j][1] /\ ShardList[b] = new[k][1]
    <3>1. /\ old[k][2] \in 1..Len(stream[old[k][1]])
          /\ k > 1 /\ old[k-1][1] = old[k][1] => old[k-1][2] = old[k][2] - 1
          /\ k = 1 \/ old[k-1][1] # old[k][1] =>
               /\ IteratorType[r] = "TRIM_HORIZON" => old[k][2] = 1
               /\ \A j \in 1..(k-1) : \E a, b \in DOMAIN ShardList :
                    a < b /\ ShardList[a] = old[j][1] /\ ShardList[b] = old[k][1]
      BY <1>1, <1>6 DEF RunInv, InOrder, old
    <3>2. new[k] = old[k] /\ \A j \in 1..(k-1) : new[j] = old[j]
      <4>1. \A j \in 1..(k-1) : j \in 1..Len(old)
        BY <1>2
      <4>2. \A j \in 1..Len(old) : new[j] = old[j]
        BY <1>6
      <4> QED
        BY <4>1, <4>2
    <3>3. k > 1 => new[k-1] = old[k-1]
      <4>1. k > 1 => k - 1 \in 1..(k-1)
        OBVIOUS
      <4> QED
        BY <3>2, <4>1
    <3> QED
      BY SMTT(30), <1>5, <3>1, <3>2, <3>3
  <2>3. ASSUME NEW k \in (Len(old) + 1)..(Len(old) + count)
        PROVE  /\ new[k][2] \in 1..Len(stream'[new[k][1]])
               /\ k > 1 /\ new[k-1][1] = new[k][1] => new[k-1][2] = new[k][2] - 1
               /\ k = 1 \/ new[k-1][1] # new[k][1] =>
                    /\ IteratorType[r] = "TRIM_HORIZON" => new[k][2] = 1
                    /\ \A j \in 1..(k-1) : \E a, b \in DOMAIN ShardList :
                         a < b /\ ShardList[a] = new[j][1] /\ ShardList[b] = new[k][1]
    <3>1. new[k][1] = s /\ new[k][2] = from + (k - Len(old)) - 1
      BY <1>6
    <3>2. new[k][2] \in 1..Len(stream'[s])
      <4>1. stream'[s] = stream[s]
        BY <1>5
      <4>2. from + (k - Len(old)) - 1 \in 1..Len(stream[s])
        <5>1. k - Len(old) \in 1..count
          BY <1>2, <1>3
        <5>2. \A m \in 1..count : from + m - 1 \in 1..Len(stream[s])
          BY SMTT(30), <1>2, <1>3, <1>4
        <5> QED
          BY <5>1, <5>2
      <4> QED
        BY <3>1, <4>1, <4>2
    <3>3. CASE k > Len(old) + 1
      <4>1. k - 1 \in (Len(old) + 1)..(Len(old) + count) /\ k > 1
        BY <1>2, <1>3, <3>3
      <4>2. new[k-1][1] = s /\ new[k-1][2] = from + ((k - 1) - Len(old)) - 1
        BY <1>6, <4>1
      <4>3. new[k-1][2] = new[k][2] - 1
        BY <1>2, <3>1, <4>2
      <4> QED
        BY <3>1, <3>2, <4>1, <4>2, <4>3
    <3>4. CASE k = Len(old) + 1
      <4>1. new[k][2] = from
        BY <1>2, <3>1, <3>4
      <4>2. k > 1 => Len(old) > 0 /\ k - 1 = Len(old) /\ new[k-1] = old[Len(old)]
        <5>1. k > 1 => Len(old) \in 1..Len(old) /\ k - 1 = Len(old)
          BY <1>2, <3>4
        <5> QED
          BY SMTT(30), <1>2, <1>6, <5>1
      <4>3. \A j \in 1..(k-1) : j \in 1..Len(old) /\ new[j] = old[j]
        BY <1>2, <1>6, <3>4
      <4>4. CASE Len(old) > 0 /\ old[Len(old)][1] = s /\ from = old[Len(old)][2] + 1
        <5>1. k > 1 /\ new[k-1][1] = s /\ new[k-1][2] = from - 1
          <6>1. old[Len(old)][2] \in Nat
            <7>1. Len(old) \in 1..Len(old)
              BY <1>2, <4>4
            <7>2. \A j \in 1..Len(old) : old[j][2] \in Nat
              BY <1>1, RunFacts DEF old
            <7> QED
              BY <7>1, <7>2
          <6> QED
            BY SMTT(30), <1>2, <3>4, <4>2, <4>4, <6>1
        <5> QED
          BY <3>1, <3>2, <4>1, <5>1
      <4>5. CASE Untouched(r) /\ (IteratorType[r] = "TRIM_HORIZON" => from = 1)
        <5>1. \A j \in 1..Len(old) : old[j][1] # s
          BY <1>6, <4>5 DEF Untouched, old, s
        <5>2. \A j \in 1..Len(old) : \E a \in 1..turn[r] : ShardList[a] = old[j][1]
          BY <1>1, <1>6 DEF RunInv, Covered, old
        <5>3. ASSUME NEW j \in 1..(k-1)
              PROVE  \E a, b \in DOMAIN ShardList :
                       a < b /\ ShardList[a] = new[j][1] /\ ShardList[b] = new[k][1]
          <6>1. PICK a \in 1..turn[r] : ShardList[a] = old[j][1]
            BY <4>3, <5>2
          <6>2. a # turn[r]
            BY <1>2, <4>3, <5>1, <6>1
          <6>3. a < turn[r] /\ a \in DOMAIN ShardList /\ turn[r] \in DOMAIN ShardList
            BY <1>2, <6>2, ShardListFacts
          <6> QED
            BY <1>2, <3>1, <4>3, <6>1, <6>3
        <5>4. k > 1 => new[k-1][1] # new[k][1]
          BY SMTT(30), <1>2, <3>1, <4>2, <5>1
        <5> QED
          BY <3>1, <3>2, <4>1, <4>5, <5>3, <5>4
      <4> QED
        BY <1>7, <4>4, <4>5 DEF Follows, old, s, from
    <3> QED
      BY <1>2, <1>3, <3>3, <3>4
  <2>4. \A k \in DOMAIN new : k \in 1..Len(old) \/ k \in (Len(old) + 1)..(Len(old) + count)
    BY <1>2, <1>3, <1>6
  <2> QED
    BY <2>1, <2>2, <2>3, <2>4 DEF InOrder, new
<1>10. Covered(r)'
  <2> SUFFICES ASSUME NEW k \in DOMAIN new
               PROVE  \E a \in 1..turn[r] : ShardList[a] = new[k][1]
    BY <1>5 DEF Covered, new
  <2>1. CASE k \in 1..Len(old)
    BY <1>1, <1>6, <2>1 DEF RunInv, Covered, old
  <2>2. CASE k \in (Len(old) + 1)..(Len(old) + count)
    BY <1>2, <1>6, <2>2
  <2> QED
    BY <1>2, <1>3, <1>6, <2>1, <2>2
<1>11. iterator'[r] \in Nat
  BY SMTT(30), <1>2, <1>3, <1>5 DEF NextIterator, NoIterator, from
<1>12. Aligned(r)'
  <2> SUFFICES ASSUME iterator'[r] # NoIterator
               PROVE  iterator'[r] <= Len(stream[s]) + 1 /\ Follows(r)'
    BY <1>3, <1>5, <1>8 DEF Aligned
  <2>1. iterator'[r] = from + count
    BY <1>5 DEF NextIterator, from
  <2>2. from + count <= Len(stream[s]) + 1
    BY <1>2, <1>3
  <2>3. CASE count = 0
    <3>1. iterator'[r] = from /\ Len(new) = Len(old) /\ DOMAIN new = DOMAIN old
      BY <1>2, <1>6, <2>1, <2>3
    <3>2. \A k \in 1..Len(old) : new[k] = old[k]
      BY <1>6
    <3>3. Untouched(r) => Untouched(r)'
      BY <1>6, <1>8, <3>1, <3>2 DEF Untouched, old, new, s
    <3>4. Len(old) > 0 => new[Len(new)] = old[Len(old)]
      BY <1>2, <3>1, <3>2
    <3>5. Follows(r)'
      BY <1>7, <1>8, <3>1, <3>3, <3>4 DEF Follows, old, new, s, from
    <3> QED
      BY <2>1, <2>2, <3>5
  <2>4. CASE count > 0
    <3>1. Len(new) \in (Len(old) + 1)..(Len(old) + count) /\ Len(new) > 0
      BY <1>2, <1>3, <1>6, <2>4
    <3>2. new[Len(new)][1] = s /\ new[Len(new)][2] = from + (Len(new) - Len(old)) - 1
      BY <1>6, <3>1
    <3>3. iterator'[r] = new[Len(new)][2] + 1
      BY <1>2, <1>3, <1>6, <2>1, <3>2
    <3>4. Follows(r)'
      BY <1>8, <3>1, <3>2, <3>3 DEF Follows, new, s
    <3> QED
      BY <2>1, <2>2, <3>4
  <2> QED
    BY <1>3, <2>3, <2>4
<1> QED
  BY <1>6, <1>9, <1>10, <1>11, <1>12 DEF RunInv, new

-----------------------------------------------------------------------------
(* Opening an iterator, and leaving a shard for the next one, keep the     *)
(* invariant of the run that does it.                                      *)
LEMMA OpenIteratorKeepsRun ==
  ASSUME PollInv, NEW r \in Runs, OpenIterator(r)
  PROVE  RunInv(r)' /\ iterator'[r] \in Nat
<1>1. PollTypes /\ RunInv(r) /\ pc[r] = "open"
  BY DEF PollInv, OpenIterator
<1>2. Len(stream[Shard(r)]) \in Nat
  BY <1>1, RunFacts
<1>3. batch' = batch /\ stream' = stream /\ turn' = turn /\ Shard(r)' = Shard(r)
  BY DEF OpenIterator, kinesis, Shard
<1>4. /\ pc'[r] = "poll"
      /\ iterator'[r] = IF MaxRecords = 0 THEN NoIterator
                        ELSE IF IteratorType[r] = "LATEST" THEN Len(stream[Shard(r)]) + 1 ELSE 1
  BY <1>1 DEF OpenIterator, Go, PollTypes
<1>5. iterator'[r] \in Nat /\ iterator'[r] <= Len(stream[Shard(r)]) + 1
  BY <1>2, <1>4 DEF NoIterator
<1>6. InOrder(r)' /\ Covered(r)'
  BY <1>1, <1>3 DEF RunInv, InOrder, Covered
<1>7. Untouched(r)'
  BY <1>1, <1>3 DEF RunInv, Aligned, Untouched
<1>8. IteratorType[r] = "TRIM_HORIZON" /\ iterator'[r] # NoIterator => iterator'[r] = 1
  BY <1>4
<1>9. Aligned(r)'
  BY <1>3, <1>4, <1>5, <1>7, <1>8 DEF Aligned, Follows
<1> QED
  BY <1>5, <1>6, <1>9 DEF RunInv

(* The run turns to the next shard, of which it has read nothing yet.      *)
LEMMA LeaveShardKeepsRun ==
  ASSUME PollInv, NEW r \in Runs, LeaveShard(r)
  PROVE  RunInv(r)' /\ turn'[r] \in 1..Len(ShardList)
<1>1. PollTypes /\ RunInv(r)
  BY DEF PollInv
<1>2. turn[r] \in 1..Len(ShardList) /\ turn[r] \in Nat
  BY <1>1, RunFacts
<1>3. batch' = batch /\ stream' = stream /\ iterator' = iterator
  BY DEF LeaveShard, kinesis
<1>4. \/ pc'[r] = "stamp" /\ turn'[r] = turn[r]
      \/ pc'[r] = "open" /\ turn'[r] = turn[r] + 1 /\ turn[r] # Len(ShardList)
  BY <1>1 DEF LeaveShard, Go, PollTypes
<1>5. turn'[r] \in 1..Len(ShardList) /\ turn[r] <= turn'[r]
  BY <1>2, <1>4, ShardListFacts
<1>6. InOrder(r)'
  BY <1>1, <1>3 DEF RunInv, InOrder
<1>7. Covered(r)'
  <2> SUFFICES ASSUME NEW k \in DOMAIN batch[r]
               PROVE  \E a \in 1..turn'[r] : ShardList[a] = batch[r][k][1]
    BY <1>3 DEF Covered
  <2>1. PICK a \in 1..turn[r] : ShardList[a] = batch[r][k][1]
    BY <1>1 DEF RunInv, Covered
  <2>2. a \in 1..turn'[r]
    BY <1>2, <1>5
  <2> QED
    BY <2>1, <2>2
<1>8. pc'[r] = "open" => Untouched(r)'
  <2> SUFFICES ASSUME pc'[r] = "open", NEW k \in DOMAIN batch[r]
               PROVE  batch[r][k][1] # Shard(r)'
    BY <1>3 DEF Untouched
  <2>1. turn'[r] = turn[r] + 1 /\ Shard(r)' = ShardList[turn'[r]]
    BY <1>4 DEF Shard
  <2>2. PICK a \in 1..turn[r] : ShardList[a] = batch[r][k][1]
    BY <1>1 DEF RunInv, Covered
  <2>3. a \in 1..Len(ShardList) /\ a # turn'[r]
    BY <1>2, <2>1, ShardListFacts
  <2> QED
    BY <1>5, <2>1, <2>2, <2>3, ShardListFacts
<1>9. Aligned(r)'
  BY <1>4, <1>8 DEF Aligned
<1> QED
  BY <1>5, <1>6, <1>7, <1>9 DEF RunInv

-----------------------------------------------------------------------------
(* Records arrive one at a time.                                           *)
LEMMA StreamOrArrive ==
  ASSUME [Next]_vars
  PROVE  stream' = stream \/ \E s \in Shards, kind \in RecordKinds : Arrive(s, kind)
<1>1. Tick \/ UNCHANGED vars \/ (\E s \in Shards : Seal(s)) => stream' = stream
  BY DEF Tick, Seal, vars, kinesis
<1>2. \A r \in Runs : Step(r) => stream' = stream
  BY DEF Step, ListShards, OpenIterator, LeaveShard, StampFiles, GetRecords, DecodeFails,
         OpenFile, WriteFile, kinesis
<1>3. \A r \in Runs : Failure(r) => stream' = stream
  BY DEF Failure, Fail, FailWriting, kinesis
<1> QED
  BY <1>1, <1>2, <1>3 DEF Next, Environment, Finished

(* The shards grow only.                                                   *)
LEMMA ShardsGrow ==
  ASSUME PollTypes, [Next]_vars
  PROVE  /\ stream' \in [Shards -> Seq(RecordKinds)]
         /\ \A s \in Shards : Len(stream'[s]) \in Nat /\ Len(stream[s]) <= Len(stream'[s])
<1>1. stream \in [Shards -> Seq(RecordKinds)]
  BY DEF PollTypes
<1>2. CASE stream' = stream
  <2> SUFFICES ASSUME NEW s \in Shards PROVE Len(stream[s]) \in Nat
    BY <1>1, <1>2
  <2>1. stream[s] \in Seq(RecordKinds)
    BY <1>1
  <2> QED
    BY <2>1
<1>3. ASSUME NEW s \in Shards, NEW kind \in RecordKinds, Arrive(s, kind)
      PROVE  /\ stream' \in [Shards -> Seq(RecordKinds)]
             /\ \A t \in Shards : Len(stream'[t]) \in Nat /\ Len(stream[t]) <= Len(stream'[t])
  <2>1. stream' = [stream EXCEPT ![s] = Append(@, kind)]
    BY <1>3 DEF Arrive
  <2>2. /\ Append(stream[s], kind) \in Seq(RecordKinds)
        /\ Len(Append(stream[s], kind)) = Len(stream[s]) + 1
    <3>1. stream[s] \in Seq(RecordKinds)
      BY <1>1
    <3> QED
      BY <3>1
  <2>3. stream' \in [Shards -> Seq(RecordKinds)]
    BY <1>1, <2>1, <2>2
  <2>4. ASSUME NEW t \in Shards
        PROVE  Len(stream'[t]) \in Nat /\ Len(stream[t]) <= Len(stream'[t])
    <3>1. stream[t] \in Seq(RecordKinds) /\ stream'[t] \in Seq(RecordKinds)
      BY <1>1, <2>3
    <3>2. Len(stream[t]) \in Nat /\ Len(stream'[t]) \in Nat
      BY <3>1
    <3>3. Len(stream'[t]) = Len(stream[t]) \/ Len(stream'[t]) = Len(stream[t]) + 1
      BY <1>1, <2>1, <2>2
    <3> QED
      BY <3>2, <3>3
  <2> QED
    BY <2>3, <2>4
<1> QED
  BY <1>1, <1>2, <1>3, StreamOrArrive

(* Every step changes the locals of one run at most.                       *)
OnlyRun(r) ==
  \A q \in Runs \ {r} :
    batch'[q] = batch[q] /\ turn'[q] = turn[q] /\ iterator'[q] = iterator[q] /\ pc'[q] = pc[q]

(* A step of a run is of that run only.                                    *)
LEMMA StepsOneRun ==
  ASSUME PollTypes, NEW r \in Runs, Step(r) \/ Failure(r)
  PROVE  OnlyRun(r)
<1> USE DEF PollTypes, OnlyRun, Go, locals
<1>1. CASE ListShards(r)
  BY <1>1 DEF ListShards
<1>2. CASE OpenIterator(r)
  BY <1>2 DEF OpenIterator
<1>3. CASE LeaveShard(r)
  BY <1>3 DEF LeaveShard
<1>4. CASE StampFiles(r)
  BY <1>4 DEF StampFiles
<1>5. ASSUME NEW count \in 0..ShardCapacity, GetRecords(r, count) PROVE OnlyRun(r)
  BY <1>5 DEF GetRecords
<1>6. ASSUME NEW count \in 0..ShardCapacity, DecodeFails(r, count) PROVE OnlyRun(r)
  BY <1>6 DEF DecodeFails
<1>7. ASSUME NEW kind \in FileKinds, OpenFile(r, kind) \/ WriteFile(r, kind) \/ FailWriting(r, kind)
      PROVE  OnlyRun(r)
  <2>1. UNCHANGED <<turn, iterator, batch>> /\ pc' = [pc EXCEPT ![r] = pc'[r]]
    BY <1>7, WritersMove
  <2> QED
    BY <2>1
<1>8. CASE Fail(r)
  BY <1>8 DEF Fail
<1> QED
  BY <1>1, <1>2, <1>3, <1>4, <1>5, <1>6, <1>7, <1>8 DEF Step, Failure

-----------------------------------------------------------------------------
(* The invariant is kept by the steps of one run.                          *)

PollTypesOf(r) ==
  /\ pc'[r] \in {"start", "open", "poll", "stamp", "done", "failed"} \cup FileKinds \cup InFiles
  /\ turn'[r] \in 1..Len(ShardList) /\ iterator'[r] \in Nat
  /\ batch'[r] \in Seq(Shards \X Nat)

(* Every step of a run keeps what is true of it while the shards grow.     *)
LEMMA StepKeepsRun ==
  ASSUME PollInv, NEW r \in Runs, Step(r) \/ Failure(r),
         \A s \in Shards : Len(stream'[s]) \in Nat /\ Len(stream[s]) <= Len(stream'[s])
  PROVE  RunInv(r)' /\ PollTypesOf(r)
<1>1. PollTypes /\ RunInv(r)
  BY DEF PollInv
<1>2. PollTypes /\ pc[r] \in {"start", "open", "poll", "stamp", "done", "failed"} \cup FileKinds \cup InFiles
      /\ turn[r] \in 1..Len(ShardList) /\ iterator[r] \in Nat /\ batch[r] \in Seq(Shards \X Nat)
  BY <1>1, RunFacts DEF PollTypes
<1>3. CASE ListShards(r)
  <2>1. /\ pc[r] = "start" /\ pc'[r] = "open" /\ batch[r] = <<>>
        /\ UNCHANGED <<stream, batch, turn, iterator>>
    BY <1>1, <1>3 DEF ListShards, Go, PollTypes, RunInv, Aligned, locals, kinesis
  <2>2. InOrder(r)' /\ Covered(r)'
    BY <1>1, <2>1 DEF RunInv, InOrder, Covered
  <2>3. Untouched(r)'
    BY <2>1 DEF Untouched
  <2>4. Aligned(r)'
    BY <2>1, <2>3 DEF Aligned
  <2> QED
    BY <1>2, <2>1, <2>2, <2>4 DEF RunInv, PollTypesOf
<1>4. CASE OpenIterator(r)
  <2>1. UNCHANGED <<batch, turn>> /\ pc'[r] = "poll"
    BY <1>1, <1>4 DEF OpenIterator, Go, PollTypes
  <2> QED
    BY <1>2, <1>4, <2>1, OpenIteratorKeepsRun DEF PollTypesOf
<1>5. CASE LeaveShard(r)
  <2>1. UNCHANGED <<batch, iterator>> /\ pc'[r] \in {"stamp", "open"}
    BY <1>1, <1>5 DEF LeaveShard, Go, PollTypes
  <2> QED
    BY <1>2, <1>5, <2>1, LeaveShardKeepsRun DEF PollTypesOf
<1>6. ASSUME NEW count \in 0..ShardCapacity, GetRecords(r, count)
      PROVE  RunInv(r)' /\ PollTypesOf(r)
  <2>1. UNCHANGED <<pc, turn>>
    BY <1>6 DEF GetRecords
  <2> QED
    BY <1>2, <1>6, <2>1, GetRecordsKeepsRun DEF PollTypesOf
<1>7. ASSUME /\ UNCHANGED <<batch, turn, iterator>>
             /\ pc'[r] \in {"stamp", "done", "failed"} \cup FileKinds \cup InFiles
      PROVE  RunInv(r)' /\ PollTypesOf(r)
  <2>1. pc'[r] \notin {"start", "open", "poll"}
    BY <1>7 DEF FileKinds, InFiles
  <2>2. RunInv(r)'
    BY <1>7, <2>1, RunStays
  <2> QED
    BY <1>2, <1>7, <2>2 DEF PollTypesOf
<1>8. CASE StampFiles(r)
  BY <1>1, <1>7, <1>8 DEF StampFiles, Go, PollTypes, FileKinds
<1>9. ASSUME NEW count \in 0..ShardCapacity, DecodeFails(r, count)
      PROVE  RunInv(r)' /\ PollTypesOf(r)
  BY <1>1, <1>7, <1>9 DEF DecodeFails, Go, PollTypes, locals
<1>10. ASSUME NEW kind \in FileKinds,
              OpenFile(r, kind) \/ WriteFile(r, kind) \/ FailWriting(r, kind)
       PROVE  RunInv(r)' /\ PollTypesOf(r)
  <2>1. /\ UNCHANGED <<batch, turn, iterator>>
        /\ pc'[r] \in {"stamp", "done", "failed"} \cup FileKinds \cup InFiles
    BY <1>1, <1>10, WritersMove
  <2> QED
    BY <1>7, <2>1
<1>11. CASE Fail(r)
  BY <1>1, <1>7, <1>11 DEF Fail, Go, PollTypes, locals
<1> QED
  BY <1>3, <1>4, <1>5, <1>6, <1>8, <1>9, <1>10, <1>11 DEF Step, Failure

(* The inductive step.                                                     *)
LEMMA PollInvKept ==
  ASSUME PollInv, [Next]_vars
  PROVE  PollInv'
<1>1. PollTypes
  BY DEF PollInv
<1>2. /\ stream' \in [Shards -> Seq(RecordKinds)]
      /\ \A s \in Shards : Len(stream'[s]) \in Nat /\ Len(stream[s]) <= Len(stream'[s])
  BY <1>1, ShardsGrow
<1>3. ASSUME NEW r \in Runs, Step(r) \/ Failure(r) PROVE PollInv'
  <2>1. RunInv(r)' /\ PollTypesOf(r)
    BY <1>2, <1>3, StepKeepsRun
  <2>2. OnlyRun(r)
    BY <1>1, <1>3, StepsOneRun
  <2>3. \A q \in Runs \ {r} : RunInv(q)'
    BY <1>2, <2>2, RunStays DEF OnlyRun
  <2>4. PollTypes'
    <3>1. \A q \in Runs : PollTypesOf(q)
      BY <1>1, <2>1, <2>2 DEF PollTypes, PollTypesOf, OnlyRun
    <3>2. /\ pc' = [q \in Runs |-> pc'[q]] /\ turn' = [q \in Runs |-> turn'[q]]
          /\ iterator' = [q \in Runs |-> iterator'[q]] /\ batch' = [q \in Runs |-> batch'[q]]
      <4> USE DEF PollTypes, Go, locals
      <4>1. CASE ListShards(r) \/ StampFiles(r) \/ Fail(r)
        BY <1>1, <4>1 DEF ListShards, StampFiles, Fail
      <4>2. CASE OpenIterator(r)
        BY <1>1, <4>2 DEF OpenIterator
      <4>3. CASE LeaveShard(r)
        BY <1>1, <4>3 DEF LeaveShard
      <4>4. CASE \E count \in 0..ShardCapacity : GetRecords(r, count)
        BY <1>1, <4>4 DEF GetRecords
      <4>5. CASE \E count \in 0..ShardCapacity : DecodeFails(r, count)
        BY <1>1, <4>5 DEF DecodeFails
      <4>6. CASE \E kind \in FileKinds : OpenFile(r, kind) \/ WriteFile(r, kind) \/ FailWriting(r, kind)
        BY <1>1, <4>6, WritersMove
      <4> QED
        BY <1>3, <4>1, <4>2, <4>3, <4>4, <4>5, <4>6 DEF Step, Failure
    <3> QED
      BY <1>2, <3>1, <3>2 DEF PollTypes, PollTypesOf
  <2> QED
    BY <2>1, <2>3, <2>4 DEF PollInv
<1>4. CASE UNCHANGED <<pc, turn, iterator, batch>>
  <2>1. \A q \in Runs : RunInv(q)'
    BY <1>2, <1>4, RunStays
  <2>2. PollTypes'
    BY <1>1, <1>2, <1>4 DEF PollTypes
  <2> QED
    BY <2>1, <2>2 DEF PollInv
<1>5. UNCHANGED <<pc, turn, iterator, batch>> \/ \E r \in Runs : Step(r) \/ Failure(r)
  <2>1. Environment \/ Finished \/ UNCHANGED vars => UNCHANGED <<pc, turn, iterator, batch>>
    BY DEF Environment, Finished, vars, Seal, Arrive, Tick, locals
  <2> QED
    BY <2>1 DEF Next
<1> QED
  BY <1>3, <1>4, <1>5

-----------------------------------------------------------------------------
(* The invariant holds before the first poll.                              *)
LEMMA InitPollInv == Init => PollInv
<1> SUFFICES ASSUME Init PROVE PollInv
  OBVIOUS
<1>1. PollTypes
  BY ShardListFacts DEF Init, PollTypes, NoIterator
<1>2. ASSUME NEW r \in Runs PROVE RunInv(r)
  <2>1. batch[r] = <<>> /\ pc[r] = "start"
    BY DEF Init
  <2> QED
    BY <2>1 DEF RunInv, InOrder, Covered, Aligned, ConsumerAssumption
<1> QED
  BY <1>1, <1>2 DEF PollInv

(* A batch never exceeds max_records, and within a shard its records are   *)
(* consecutive, whatever the other runs, the producers and resharding do.  *)
THEOREM BatchOrderCorrect == Spec => []BatchInOrder
<1>1. Init => PollInv
  BY InitPollInv
<1>2. PollInv /\ [Next]_vars => PollInv'
  BY PollInvKept
<1>3. PollInv => BatchInOrder
  BY DEF PollInv, RunInv, InOrder, BatchInOrder
<1> QED
  BY <1>1, <1>2, <1>3, PTL DEF Spec

-----------------------------------------------------------------------------
(* A LATEST run and record n of shard s, which was there when it began.    *)
Skips(r, s, n) ==
  /\ n <= Len(stream[s])
  /\ \A k \in DOMAIN batch[r] : batch[r][k] # <<s, n>>
  /\ pc[r] = "poll" /\ iterator[r] # NoIterator /\ Shard(r) = s => iterator[r] > n

(* Steps that leave the run alone, and those that end its polling.         *)
LEMMA SkipsStays ==
  ASSUME PollTypes, NEW r \in Runs, NEW s \in Shards, NEW n \in Nat \ {0}, Skips(r, s, n),
         batch'[r] = batch[r], turn'[r] = turn[r], iterator'[r] = iterator[r],
         pc'[r] = pc[r] \/ pc'[r] # "poll",
         Len(stream'[s]) \in Nat, Len(stream[s]) <= Len(stream'[s])
  PROVE  Skips(r, s, n)'
<1>1. Len(stream[s]) \in Nat
  BY DEF PollTypes
<1>2. n <= Len(stream'[s])
  BY <1>1 DEF Skips
<1>3. Shard(r)' = Shard(r)
  BY DEF Shard
<1> QED
  BY <1>2, <1>3 DEF Skips

(* The steps of the run itself.                                            *)
LEMMA StepKeepsSkips ==
  ASSUME PollInv, NEW r \in Runs, Step(r) \/ Failure(r), IteratorType[r] = "LATEST",
         NEW s \in Shards, NEW n \in Nat \ {0}, Skips(r, s, n),
         Len(stream'[s]) \in Nat, Len(stream[s]) <= Len(stream'[s])
  PROVE  Skips(r, s, n)'
<1>1. PollTypes /\ Len(stream[s]) \in Nat /\ n <= Len(stream[s])
  BY SMTT(30) DEF PollInv, PollTypes, Skips
<1>2. CASE OpenIterator(r)
  <2>1. /\ iterator'[r] \in {NoIterator, Len(stream[Shard(r)]) + 1}
        /\ batch' = batch /\ turn' = turn /\ stream' = stream
    BY <1>1, <1>2 DEF OpenIterator, PollTypes, kinesis
  <2>2. Shard(r)' = Shard(r)
    BY <2>1 DEF Shard
  <2> QED
    BY <1>1, <2>1, <2>2 DEF Skips
<1>3. CASE LeaveShard(r)
  <2>1. batch' = batch /\ stream' = stream /\ pc'[r] # "poll"
    BY <1>1, <1>3 DEF LeaveShard, Go, PollTypes, kinesis
  <2> QED
    BY <2>1 DEF Skips
<1>4. ASSUME NEW count \in 0..ShardCapacity, GetRecords(r, count)
      PROVE  Skips(r, s, n)'
  <2> DEFINE from == iterator[r]
             old == batch[r]
             new == batch'[r]
  <2>1. /\ pc[r] = "poll" /\ from # NoIterator /\ from \in Nat /\ count \in Nat /\ from > 0
        /\ turn' = turn /\ stream' = stream
    BY <1>1, <1>4 DEF GetRecords, KeepsPolling, PollTypes, kinesis, NoIterator, ConsumerAssumption
  <2>2. new = old \o [k \in 1..count |-> <<Shard(r), from + k - 1>>]
    BY <1>1, <1>4 DEF GetRecords, Fetched, PollTypes
  <2>3. Shard(r)' = Shard(r) /\ Shard(r) \in Shards /\ old \in Seq(Shards \X Nat)
    BY <1>1, <2>1, RunFacts DEF Shard
  <2>4. /\ Len(old) \in Nat /\ DOMAIN new = 1..(Len(old) + count) /\ DOMAIN old = 1..Len(old)
        /\ \A k \in 1..Len(old) : new[k] = old[k]
        /\ \A k \in (Len(old) + 1)..(Len(old) + count) :
             new[k][1] = Shard(r) /\ new[k][2] = from + (k - Len(old)) - 1
    <3> HIDE DEF from, old, new
    <3> QED
      BY <2>1, <2>2, <2>3, FetchedAppended
  <2>5. Shard(r) = s => from > n
    BY <2>1 DEF Skips
  <2>6. ASSUME NEW k \in DOMAIN new PROVE new[k] # <<s, n>>
    <3>1. CASE k \in 1..Len(old)
      BY <2>4, <3>1 DEF Skips
    <3>2. CASE k \in (Len(old) + 1)..(Len(old) + count)
      <4>1. new[k][1] = Shard(r) /\ new[k][2] = from + (k - Len(old)) - 1
        BY <2>4, <3>2
      <4>2. Shard(r) = s => new[k][2] > n
        BY SMTT(30), <2>1, <2>4, <2>5, <3>2, <4>1
      <4> QED
        BY <4>1, <4>2
    <3> QED
      BY <2>4, <2>6, <3>1, <3>2
  <2>7. iterator'[r] = NoIterator \/ iterator'[r] = from + count
    BY <1>1, <1>4 DEF GetRecords, NextIterator, PollTypes
  <2> QED
    BY <1>1, <2>1, <2>3, <2>5, <2>6, <2>7 DEF Skips
<1>5. CASE ListShards(r) \/ StampFiles(r) \/ Fail(r)
           \/ (\E count \in 0..ShardCapacity : DecodeFails(r, count))
           \/ (\E kind \in FileKinds :
                 OpenFile(r, kind) \/ WriteFile(r, kind) \/ FailWriting(r, kind))
  <2>1. /\ batch' = batch /\ turn' = turn /\ iterator' = iterator /\ pc'[r] # "poll"
    BY <1>1, <1>5, WritersMove DEF ListShards, StampFiles, Fail, DecodeFails, Go, PollTypes,
                                   locals
  <2> QED
    BY <1>1, <2>1, SkipsStays
<1> QED
  BY <1>2, <1>3, <1>4, <1>5 DEF Step, Failure

(* Every step keeps out of the batch what was there before the run.        *)
LEMMA SkipsKept ==
  ASSUME PollInv, [Next]_vars, NEW r \in Runs, IteratorType[r] = "LATEST",
         NEW s \in Shards, NEW n \in Nat \ {0}, Skips(r, s, n)
  PROVE  Skips(r, s, n)'
<1>1. PollTypes
  BY DEF PollInv
<1>2. Len(stream'[s]) \in Nat /\ Len(stream[s]) <= Len(stream'[s])
  BY <1>1, ShardsGrow
<1>3. CASE Step(r) \/ Failure(r)
  BY <1>2, <1>3, StepKeepsSkips
<1>4. ASSUME NEW q \in Runs \ {r}, Step(q) \/ Failure(q) PROVE Skips(r, s, n)'
  <2>1. batch'[r] = batch[r] /\ turn'[r] = turn[r] /\ iterator'[r] = iterator[r] /\ pc'[r] = pc[r]
    BY <1>1, <1>4, StepsOneRun DEF OnlyRun
  <2> QED
    BY <1>1, <1>2, <2>1, SkipsStays
<1>5. CASE Environment \/ Finished \/ UNCHANGED vars
  <2>1. UNCHANGED <<pc, turn, iterator, batch>>
    BY <1>5 DEF Environment, Finished, vars, Seal, Arrive, Tick, locals
  <2> QED
    BY <1>1, <1>2, <2>1, SkipsStays
<1> QED
  BY <1>3, <1>4, <1>5 DEF Next

(* What a shard held before a LATEST run began never gets into its batch,  *)
(* however late the shard's turn comes and whatever else happens.          *)
THEOREM BacklogSkipped == Spec => LatestSkipsBacklog
<1> SUFFICES ASSUME NEW r \in Runs, NEW s \in Shards, NEW n \in 1..ShardCapacity,
                    IteratorType[r] = "LATEST"
             PROVE  Spec => [](pc[r] = "start" /\ Len(stream[s]) >= n
                               => [](<<s, n>> \notin ToSet(batch[r])))
  BY DEF LatestSkipsBacklog
<1> DEFINE Held == pc[r] = "start" /\ Len(stream[s]) >= n
           Out == <<s, n>> \notin ToSet(batch[r])
           Kept == Skips(r, s, n)
<1>1. Init => PollInv
  BY InitPollInv
<1>2. PollInv /\ [Next]_vars => PollInv'
  BY PollInvKept
<1>3. PollInv /\ Held => Kept
  <2> SUFFICES ASSUME PollInv, Held PROVE Kept
    OBVIOUS
  <2>1. batch[r] = <<>> /\ Len(stream[s]) \in Nat /\ n \in Nat
    BY DEF PollInv, PollTypes, RunInv, Aligned, ConsumerAssumption
  <2> QED
    BY <2>1 DEF Skips
<1>4. PollInv /\ Kept /\ [Next]_vars => Kept'
  BY SkipsKept DEF ConsumerAssumption
<1>5. Kept => Out
  BY DEF Skips, ToSet
<1>6. Spec => [](Held => []Out)
  <2> HIDE DEF Held, Out, Kept
  <2> QED
    BY <1>1, <1>2, <1>3, <1>4, <1>5, PTL DEF Spec
<1> QED
  BY <1>6

-----------------------------------------------------------------------------
(* The refinement of MicroBatch.                                           *)

(* What was read of the shard being polled lies before the iterator.       *)
Below(r) ==
  pc[r] = "poll" /\ iterator[r] # NoIterator =>
    \A k \in DOMAIN batch[r] : batch[r][k][1] = Shard(r) => batch[r][k][2] < iterator[r]

BelowInv == \A r \in Runs : Below(r)

(* An answer leaves what was read of the shard before the iterator.        *)
LEMMA GetRecordsKeepsBelow ==
  ASSUME PollInv, NEW r \in Runs, Below(r), NEW count \in 0..ShardCapacity, GetRecords(r, count)
  PROVE  Below(r)'
<1> DEFINE s == Shard(r)
           from == iterator[r]
           old == batch[r]
           new == batch'[r]
<1>1. PollTypes
  BY DEF PollInv
<1>2. iterator[r] \in Nat /\ count \in Nat
  BY <1>1, RunFacts DEF ConsumerAssumption
<1>3. /\ pc[r] = "poll" /\ from # NoIterator /\ from \in Nat /\ count \in Nat /\ from > 0
      /\ new = old \o [k \in 1..count |-> <<s, from + k - 1>>]
      /\ turn' = turn /\ iterator'[r] = NextIterator(r, count)
  <2>1. pc[r] = "poll" /\ from # NoIterator /\ turn' = turn
    BY DEF GetRecords, KeepsPolling
  <2>2. /\ new = old \o [k \in 1..count |-> <<s, from + k - 1>>]
        /\ iterator'[r] = NextIterator(r, count)
    BY <1>1 DEF GetRecords, Fetched, PollTypes
  <2> QED
    BY <1>2, <2>1, <2>2 DEF NoIterator
<1>4. s \in Shards /\ old \in Seq(Shards \X Nat) /\ Shard(r)' = s
  BY <1>1, <1>3, RunFacts DEF Shard
<1>5. \A k \in DOMAIN old : old[k][1] = s => old[k][2] < from
  BY <1>3 DEF Below
<1>6. \A k \in DOMAIN old : old[k][2] \in Nat
  BY <1>1, RunFacts
<1>7. iterator'[r] # NoIterator => iterator'[r] = from + count
  BY <1>3 DEF NextIterator
<1> HIDE DEF s, from, old, new
<1>8. /\ Len(old) \in Nat /\ DOMAIN new = 1..(Len(old) + count) /\ DOMAIN old = 1..Len(old)
      /\ \A k \in 1..Len(old) : new[k] = old[k]
      /\ \A k \in (Len(old) + 1)..(Len(old) + count) :
           new[k][1] = s /\ new[k][2] = from + (k - Len(old)) - 1
  BY <1>3, <1>4, FetchedAppended
<1>9. ASSUME NEW k \in DOMAIN new, new[k][1] = s PROVE new[k][2] < from + count
  <2>1. CASE k \in 1..Len(old)
    BY <1>3, <1>5, <1>6, <1>8, <1>9, <2>1
  <2>2. CASE k \in (Len(old) + 1)..(Len(old) + count)
    BY <1>3, <1>8, <2>2
  <2> QED
    BY <1>3, <1>8, <2>1, <2>2
<1> QED
  BY <1>4, <1>7, <1>9 DEF Below, new

(* Every step keeps it.                                                    *)
LEMMA BelowKept ==
  ASSUME PollInv, BelowInv, [Next]_vars
  PROVE  BelowInv'
<1> SUFFICES ASSUME NEW r \in Runs PROVE Below(r)'
  BY DEF BelowInv
<1>1. PollTypes /\ RunInv(r) /\ Below(r)
  BY DEF PollInv, BelowInv
<1>2. ASSUME batch'[r] = batch[r], turn'[r] = turn[r], iterator'[r] = iterator[r],
             pc'[r] = pc[r] \/ pc'[r] # "poll"
      PROVE  Below(r)'
  <2>1. Shard(r)' = Shard(r)
    BY <1>2 DEF Shard
  <2> QED
    BY <1>1, <1>2, <2>1 DEF Below
<1>3. CASE OpenIterator(r)
  <2>1. batch' = batch /\ turn' = turn /\ Shard(r)' = Shard(r)
    BY <1>3 DEF OpenIterator, Shard
  <2>2. Untouched(r)
    BY <1>1, <1>3 DEF RunInv, Aligned, OpenIterator
  <2> QED
    BY <2>1, <2>2 DEF Below, Untouched
<1>4. CASE LeaveShard(r)
  <2>1. pc'[r] # "poll"
    BY <1>1, <1>4 DEF LeaveShard, Go, PollTypes
  <2> QED
    BY <2>1 DEF Below
<1>5. ASSUME NEW count \in 0..ShardCapacity, GetRecords(r, count) PROVE Below(r)'
  BY <1>1, <1>5, GetRecordsKeepsBelow
<1>6. CASE ListShards(r) \/ StampFiles(r) \/ Fail(r)
           \/ (\E count \in 0..ShardCapacity : DecodeFails(r, count))
           \/ (\E kind \in FileKinds :
                 OpenFile(r, kind) \/ WriteFile(r, kind) \/ FailWriting(r, kind))
  <2>1. /\ batch' = batch /\ turn' = turn /\ iterator' = iterator /\ pc'[r] # "poll"
    BY <1>1, <1>6, WritersMove DEF ListShards, StampFiles, Fail, DecodeFails, Go, PollTypes,
                                   locals
  <2> QED
    BY <1>2, <2>1
<1>7. ASSUME NEW q \in Runs \ {r}, Step(q) \/ Failure(q) PROVE Below(r)'
  <2>1. batch'[r] = batch[r] /\ turn'[r] = turn[r] /\ iterator'[r] = iterator[r] /\ pc'[r] = pc[r]
    BY <1>1, <1>7, StepsOneRun DEF OnlyRun
  <2> QED
    BY <1>2, <2>1
<1>8. CASE Environment \/ Finished \/ UNCHANGED vars
  <2>1. UNCHANGED <<pc, turn, iterator, batch>>
    BY <1>8 DEF Environment, Finished, vars, Seal, Arrive, Tick, locals
  <2> QED
    BY <1>2, <2>1
<1> QED
  BY <1>3, <1>4, <1>5, <1>6, <1>7, <1>8 DEF Next, Step, Failure

-----------------------------------------------------------------------------
(* A sequence has at most as many members as places.                       *)
LEMMA FewMembers ==
  ASSUME NEW S, NEW q \in Seq(S)
  PROVE  IsFiniteSet(ToSet(q)) /\ Cardinality(ToSet(q)) \in Nat /\ Cardinality(ToSet(q)) <= Len(q)
<1>1. Len(q) \in Nat /\ DOMAIN q = 1..Len(q)
  OBVIOUS
<1>2. ToSet(q) = {q[k] : k \in 1..Len(q)}
  BY <1>1 DEF ToSet
<1> DEFINE f == [k \in 1..Len(q) |-> q[k]]
<1>3. f \in Surjection(1..Len(q), ToSet(q))
  BY <1>2 DEF Surjection
<1>4. IsFiniteSet(1..Len(q)) /\ Cardinality(1..Len(q)) = Len(q)
  <2>1. IsFiniteSet(1..Len(q)) /\ Cardinality(1..Len(q)) = IF 1 > Len(q) THEN 0 ELSE Len(q) - 1 + 1
    <3>1. 1 \in Int /\ Len(q) \in Int
      BY <1>1
    <3> QED
      BY <3>1, FS_Interval
  <2>2. (IF 1 > Len(q) THEN 0 ELSE Len(q) - 1 + 1) = Len(q)
    BY <1>1
  <2> QED
    BY <2>1, <2>2
<1>5. IsFiniteSet(ToSet(q)) /\ Cardinality(ToSet(q)) <= Len(q)
  <2> HIDE DEF f
  <2> QED
    BY <1>3, <1>4, FS_Surjection
<1> QED
  BY <1>5, FS_CardinalityType

(* MicroBatch counts as this module does.                                  *)
LEMMA SameCardinality ==
  ASSUME NEW S
  PROVE  Batching!Cardinality(S) = Cardinality(S)
BY DEF Batching!Cardinality, Cardinality

(* One get_records call takes the records right after those read of the    *)
(* shard before, if any, or none.                                          *)
LEMMA GetRecordsTakes ==
  ASSUME PollInv, BelowInv, NEW r \in Runs, NEW count \in 0..ShardCapacity, GetRecords(r, count)
  PROVE  Batching!Next \/ UNCHANGED Batching!batching
<1> DEFINE s == Shard(r)
           from == iterator[r]
           old == batch[r]
           new == batch'[r]
           last == from + count - 1
<1>1. PollTypes /\ RunInv(r) /\ Below(r)
  BY DEF PollInv, BelowInv
<1>2. /\ pc[r] = "poll" /\ from # NoIterator /\ from \in Nat /\ count \in Nat /\ from > 0
      /\ count <= MaxRecords - Len(old) /\ last <= Len(stream[s])
      /\ new = old \o [k \in 1..count |-> <<s, from + k - 1>>]
      /\ batch' = [batch EXCEPT ![r] = new]
      /\ stream' = stream /\ pc' = pc
  <2>1. iterator[r] \in Nat /\ count \in Nat
    BY <1>1, RunFacts DEF ConsumerAssumption
  <2>2. pc[r] = "poll" /\ from # NoIterator /\ stream' = stream /\ pc' = pc
    BY DEF GetRecords, KeepsPolling, kinesis
  <2>3. count <= MaxRecords - Len(old) /\ last <= Len(stream[s])
    BY DEF GetRecords, Responses
  <2>4. /\ new = old \o [k \in 1..count |-> <<s, from + k - 1>>]
        /\ batch' = [batch EXCEPT ![r] = new]
    BY <1>1 DEF GetRecords, Fetched, PollTypes
  <2>5. from > 0
    BY <2>1, <2>2 DEF NoIterator
  <2> QED
    BY <2>1, <2>2, <2>3, <2>4, <2>5
<1>3. /\ s \in Shards /\ old \in Seq(Shards \X Nat) /\ Len(stream[s]) \in Nat
      /\ Len(old) \in Nat /\ DOMAIN old = 1..Len(old)
      /\ \A k \in DOMAIN old : old[k] \in Shards \X Nat
  BY <1>1, RunFacts
<1>4. Follows(r) /\ \A k \in DOMAIN old : old[k][1] = s => old[k][2] < from
  BY <1>1, <1>2 DEF RunInv, Aligned, Below
<1> HIDE DEF s, from, old, new
<1>5. /\ new \in Seq(Shards \X Nat)
      /\ DOMAIN new = 1..(Len(old) + count)
      /\ \A k \in 1..Len(old) : new[k] = old[k]
      /\ \A k \in (Len(old) + 1)..(Len(old) + count) :
           new[k][1] = s /\ new[k][2] = from + (k - Len(old)) - 1
  BY SMTT(30), <1>2, <1>3, FetchedAppended
<1>6. ToSet(new) = ToSet(old) \cup ({s} \X (from..last))
  <2>1. ASSUME NEW k \in DOMAIN new PROVE new[k] \in ToSet(old) \cup ({s} \X (from..last))
    <3>1. CASE k \in 1..Len(old)
      BY <1>3, <1>5, <3>1 DEF ToSet
    <3>2. CASE k \in (Len(old) + 1)..(Len(old) + count)
      <4>1. new[k][1] = s /\ new[k][2] = from + (k - Len(old)) - 1
        BY <1>5, <3>2
      <4>2. new[k][2] \in from..last
        BY SMTT(30), <1>2, <1>3, <3>2, <4>1
      <4>3. new[k] = <<new[k][1], new[k][2]>>
        BY <1>5, <2>1
      <4> QED
        BY <4>1, <4>2, <4>3
    <3> QED
      BY <1>2, <1>3, <1>5, <2>1, <3>1, <3>2
  <2>2. ASSUME NEW k \in DOMAIN old PROVE old[k] \in ToSet(new)
    <3>1. k \in DOMAIN new /\ new[k] = old[k]
      BY <1>2, <1>3, <1>5
    <3> QED
      BY <3>1 DEF ToSet
  <2>3. ASSUME NEW n \in from..last PROVE <<s, n>> \in ToSet(new)
    <3> DEFINE k == Len(old) + (n - from) + 1
    <3>1. k \in (Len(old) + 1)..(Len(old) + count)
      BY <1>2, <1>3
    <3>2. k \in DOMAIN new
      BY <1>2, <1>3, <1>5, <3>1
    <3>3. from + (k - Len(old)) - 1 = n
      BY <1>2, <1>3
    <3> HIDE DEF k
    <3>4. new[k][1] = s /\ new[k][2] = n
      BY <1>5, <3>1, <3>3
    <3>5. new[k] = <<s, n>>
      BY <1>5, <3>2, <3>4
    <3> QED
      BY <3>2, <3>5 DEF ToSet
  <2>4. ToSet(new) \subseteq ToSet(old) \cup ({s} \X (from..last))
    BY <2>1 DEF ToSet
  <2>5. ToSet(old) \subseteq ToSet(new)
    BY <2>2 DEF ToSet
  <2>6. {s} \X (from..last) \subseteq ToSet(new)
    BY <2>3
  <2> QED
    BY <2>4, <2>5, <2>6
<1>7. Taken' = [Taken EXCEPT ![r] = @ \cup ({s} \X (from..last))]
  <2>1. \A q \in Runs \ {r} : batch'[q] = batch[q]
    BY <1>1, <1>2 DEF PollTypes
  <2>2. ToSet(batch'[r]) = ToSet(batch[r]) \cup ({s} \X (from..last))
    BY <1>6 DEF old, new
  <2> QED
    BY <2>1, <2>2 DEF Taken
<1>8. Arrived' = Arrived /\ Closed' = Closed /\ r \notin Closed
  BY <1>2 DEF Arrived, Closed
<1>9. CASE count = 0
  <2>1. {s} \X (from..last) = {}
    BY <1>2, <1>9
  <2>2. Taken' = Taken
    BY <1>7, <2>1 DEF Taken
  <2> QED
    BY <1>8, <2>2 DEF Batching!batching
<1>10. CASE count > 0
  <2>1. from \in 1..Arrived[s] /\ last \in 1..Arrived[s] /\ from <= last /\ last <= Arrived[s]
    BY <1>2, <1>3, <1>10 DEF Arrived
  <2>2. Taken[r] = ToSet(old)
    BY DEF Taken, old
  <2>3. \A record \in ToSet(old) : record \in Shards \X Nat /\ (record[1] = s => record[2] < from)
    BY <1>3, <1>4 DEF ToSet
  <2>4. Taken[r] \cap ({s} \X (from..last)) = {}
    <3>1. \A n \in from..last : ~(n < from)
      BY <1>2
    <3> QED
      BY <2>2, <2>3, <3>1
  <2>5. <<s, from - 1>> \in Taken[r] \/ Taken[r] \cap ({s} \X (1..Arrived[s])) = {}
    <3>1. CASE Len(old) > 0 /\ old[Len(old)][1] = s /\ from = old[Len(old)][2] + 1
      <4>1. Len(old) \in DOMAIN old /\ old[Len(old)] \in Shards \X Nat
        BY <1>3, <3>1
      <4>2. old[Len(old)] = <<s, from - 1>>
        BY <1>2, <3>1, <4>1
      <4> QED
        BY <2>2, <4>1, <4>2 DEF ToSet
    <3>2. CASE \A k \in DOMAIN old : old[k][1] # s
      BY <2>2, <3>2 DEF ToSet
    <3> QED
      BY <1>4, <3>1, <3>2 DEF Follows, Untouched, old, from, s
  <2>6. Cardinality(Taken[r]) + (last - from + 1) <= MaxRecords
    <3>1. Cardinality(ToSet(old)) \in Nat /\ Cardinality(ToSet(old)) <= Len(old)
      BY <1>3, FewMembers
    <3>2. last - from + 1 = count
      BY <1>2
    <3> QED
      BY <1>2, <1>3, <2>2, <3>1, <3>2 DEF ConsumerAssumption
  <2> HIDE DEF last
  <2>7. Batching!Take(r, s, from, last)
    BY <1>7, <1>8, <2>1, <2>4, <2>5, <2>6, SameCardinality DEF Batching!Take
  <2> QED
    BY <1>3, <2>1, <2>7 DEF Batching!Next
<1> QED
  BY <1>2, <1>9, <1>10

(* Two sets that agree on all but one element, which is not taken away.    *)
LEMMA AtMostOneMore ==
  ASSUME NEW S, NEW A, A \subseteq S, NEW B, B \subseteq S, NEW x \in S,
         \A y \in S \ {x} : y \in B <=> y \in A,
         x \in A => x \in B
  PROVE  B = A \/ (x \notin A /\ B = A \cup {x})
<1>1. CASE x \in A \/ x \notin B
  <2>1. \A y \in S : y \in B <=> y \in A
    BY <1>1
  <2> QED
    BY <2>1
<1>2. CASE x \notin A /\ x \in B
  <2>1. \A y \in S : y \in B <=> y \in A \cup {x}
    BY <1>2
  <2> QED
    BY <1>2, <2>1
<1> QED
  BY <1>1, <1>2

(* The end of the polling closes the batch; the other steps of a run leave *)
(* batches and streams alone.                                              *)
LEMMA EndOfPolling ==
  ASSUME NEW r \in Runs, stream' = stream, batch' = batch,
         pc[r] \in {"start", "open", "poll"} \/ pc'[r] \notin {"start", "open", "poll"},
         \A q \in Runs \ {r} : pc'[q] = pc[q]
  PROVE  Batching!Next \/ UNCHANGED Batching!batching
<1>1. Arrived' = Arrived /\ Taken' = Taken
  BY DEF Arrived, Taken
<1>2. \A q \in Runs \ {r} : q \in Closed' <=> q \in Closed
  BY DEF Closed
<1>3. r \in Closed => r \in Closed'
  BY DEF Closed
<1>4. Closed' = Closed \/ (r \notin Closed /\ Closed' = Closed \cup {r})
  <2>1. Closed \subseteq Runs /\ Closed' \subseteq Runs
    BY DEF Closed
  <2> QED
    BY <1>2, <1>3, <2>1, AtMostOneMore
<1> QED
  BY <1>1, <1>4 DEF Batching!Next, Batching!Close, Batching!batching

(* A step of a run is a step of MicroBatch or leaves all batches alone.    *)
LEMMA RunSteps ==
  ASSUME PollInv, BelowInv, NEW r \in Runs, Step(r) \/ Failure(r)
  PROVE  Batching!Next \/ UNCHANGED Batching!batching
<1>1. PollTypes
  BY DEF PollInv
<1>2. ASSUME NEW count \in 0..ShardCapacity, GetRecords(r, count)
      PROVE  Batching!Next \/ UNCHANGED Batching!batching
  BY <1>2, GetRecordsTakes
<1>3. OnlyRun(r)
  BY <1>1, StepsOneRun
<1>4. CASE ListShards(r) \/ OpenIterator(r) \/ LeaveShard(r)
  <2>1. /\ UNCHANGED <<stream, batch>>
        /\ pc[r] \in {"start", "open", "poll"} /\ pc'[r] \in {"open", "poll", "stamp"}
    BY <1>1, <1>4 DEF ListShards, OpenIterator, LeaveShard, Go, PollTypes, kinesis, locals
  <2>2. pc[r] \in {"start", "open", "poll"} \/ pc'[r] \notin {"start", "open", "poll"}
    BY <2>1
  <2>3. \A q \in Runs \ {r} : pc'[q] = pc[q]
    BY <1>3 DEF OnlyRun
  <2> QED
    BY <2>1, <2>2, <2>3, EndOfPolling
<1>5. CASE StampFiles(r) \/ Fail(r) \/ (\E count \in 0..ShardCapacity : DecodeFails(r, count))
           \/ (\E kind \in FileKinds :
                 OpenFile(r, kind) \/ WriteFile(r, kind) \/ FailWriting(r, kind))
  <2>1. UNCHANGED <<stream, batch>> /\ pc'[r] \notin {"start", "open", "poll"}
    BY <1>1, <1>5, WritersMove DEF StampFiles, DecodeFails, Fail, Go, PollTypes, kinesis, locals
  <2>2. pc[r] \in {"start", "open", "poll"} \/ pc'[r] \notin {"start", "open", "poll"}
    BY <2>1
  <2>3. \A q \in Runs \ {r} : pc'[q] = pc[q]
    BY <1>3 DEF OnlyRun
  <2> QED
    BY <2>1, <2>2, <2>3, EndOfPolling
<1> QED
  BY <1>2, <1>4, <1>5 DEF Step, Failure

(* The bound holds before the first poll.                                  *)
LEMMA InitBelow == Init => BelowInv
BY DEF Init, BelowInv, Below

(* Polling implements MicroBatch: every get_records call that returns      *)
(* records takes the next ones of one shard, and once the files are being  *)
(* written the batch never changes.                                        *)
THEOREM MicroBatchImplemented == Spec => ImplementsMicroBatch
<1>1. Init => PollInv /\ BelowInv
  BY InitPollInv, InitBelow
<1>2. PollInv /\ BelowInv /\ [Next]_vars => PollInv' /\ BelowInv'
  BY PollInvKept, BelowKept
<1>3. Init => Batching!Init
  BY DEF Init, Batching!Init, Arrived, Taken, Closed, ToSet
<1>4. PollInv /\ BelowInv /\ [Next]_vars => [Batching!Next]_Batching!batching
  <2> SUFFICES ASSUME PollInv, BelowInv, [Next]_vars
               PROVE  Batching!Next \/ UNCHANGED Batching!batching
    OBVIOUS
  <2>1. ASSUME NEW s \in Shards, NEW kind \in RecordKinds, Arrive(s, kind)
        PROVE  Batching!Arrive(s)
    <3>1. stream \in [Shards -> Seq(RecordKinds)] /\ stream[s] \in Seq(RecordKinds)
      BY DEF PollInv, PollTypes
    <3>2. stream' = [stream EXCEPT ![s] = Append(@, kind)] /\ UNCHANGED <<pc, batch>>
      BY <2>1 DEF Arrive, locals
    <3>3. Len(Append(stream[s], kind)) = Len(stream[s]) + 1
      BY <3>1
    <3>4. Arrived' = [Arrived EXCEPT ![s] = @ + 1]
      BY <3>1, <3>2, <3>3 DEF Arrived
    <3>5. Taken' = Taken /\ Closed' = Closed
      BY <3>2 DEF Taken, Closed
    <3> QED
      BY <3>4, <3>5 DEF Batching!Arrive
  <2>2. CASE UNCHANGED <<stream, pc, batch>>
    BY <2>2 DEF Batching!batching, Arrived, Taken, Closed
  <2>3. Tick \/ Finished \/ UNCHANGED vars \/ (\E s \in Shards : Seal(s))
        => UNCHANGED <<stream, pc, batch>>
    BY DEF Tick, Finished, Seal, vars, kinesis, locals
  <2> QED
    BY <2>1, <2>2, <2>3, RunSteps DEF Next, Environment, Batching!Next
<1> QED
  BY <1>1, <1>2, <1>3, <1>4, PTL DEF Spec, ImplementsMicroBatch, Batching!Spec

-----------------------------------------------------------------------------
(* The files.                                                              *)

Stamped(r) ==
  /\ pc[r] \in {"start", "open", "poll", "stamp"} => stamp[r] = NotStamped
  /\ pc[r] \in FileKinds \cup InFiles \cup {"done"} => stamp[r] \in Seconds

FileOf(kind, r) == file[kind][stamp[r]]

(* FilesOfOneRun for one run.                                              *)
FilesOf(r) ==
  /\ FileOf("raw", r) # NoFile => Begun(r, "raw", Beginnings("raw", r))
  /\ FileOf("canonical", r) # NoFile =>
       Holds(r, "raw", batch[r]) /\ Begun(r, "canonical", Beginnings("canonical", r))
  /\ FileOf("bronze", r) # NoFile =>
       /\ Holds(r, "canonical", Content("canonical", r))
       /\ Begun(r, "bronze", Beginnings("canonical", r))
  /\ pc[r] = "done" => Holds(r, "bronze", Content("canonical", r))

(* What a run has written before it opens a file, and before it writes it. *)
Progress(r) ==
  /\ pc[r] \in {"raw", "in raw"} =>
       FileOf("canonical", r) = NoFile /\ FileOf("bronze", r) = NoFile
  /\ pc[r] \in {"canonical", "in canonical"} =>
       Holds(r, "raw", batch[r]) /\ FileOf("bronze", r) = NoFile
  /\ pc[r] \in {"bronze", "in bronze"} =>
       Holds(r, "raw", batch[r]) /\ Holds(r, "canonical", Content("canonical", r))
  /\ \A kind \in FileKinds :
       /\ pc[r] = kind => FileOf(kind, r) = NoFile
       /\ pc[r] = InFile[kind] => FileOf(kind, r) = <<>>

(* The texts of a file.                                                    *)
Layers ==
  [by : Runs, text : UNION {[places -> Shards \X Nat] : places \in SUBSET Nat}]

FileTypes ==
  /\ clock \in Seconds /\ stamp \in [Runs -> Seconds \cup {NotStamped}]
  /\ file \in [FileKinds -> [Seconds -> {NoFile} \cup Seq(Layers)]]
  /\ together \subseteq FileKinds \X Runs \X Runs

(* The first half of MixedOnlyTogether for one file, and its second half.  *)
Whose(kind, t) ==
  \A n \in DOMAIN file[kind][t] :
    LET q == file[kind][t][n].by IN
    /\ q \in Runs /\ stamp[q] = t /\ file[kind][t][n].text \in Beginnings(kind, q)
    /\ pc[q] # "failed" => file[kind][t][n].text = Content(kind, q)

Pairwise(kind, t) ==
  \A m, n \in DOMAIN file[kind][t] :
    m # n =>
      /\ file[kind][t][m].by # file[kind][t][n].by
      /\ <<kind, file[kind][t][m].by, file[kind][t][n].by>> \in together

(* A file has its name from a run.                                         *)
Named(kind, t) == \E q \in Runs : stamp[q] = t

(* Runs that have a file open have it open together, and a run that has it *)
(* open had it open together with whoever wrote to it since it was emptied.*)
OpenTogether(q, r) ==
  \A kind \in FileKinds :
    pc[q] = InFile[kind] /\ pc[r] = InFile[kind] /\ stamp[q] = stamp[r] =>
      <<kind, q, r>> \in together

HeldOpen(r) ==
  \A kind \in FileKinds : pc[r] = InFile[kind] =>
    /\ FileOf(kind, r) \in Seq(Layers)
    /\ \A n \in DOMAIN FileOf(kind, r) :
         LET q == FileOf(kind, r)[n].by IN
         q # r /\ <<kind, q, r>> \in together /\ <<kind, r, q>> \in together

(* A file that is there, or that a run has open.                           *)
Used(kind, t) ==
  file[kind][t] # NoFile \/ \E q \in Runs : pc[q] = InFile[kind] /\ stamp[q] = t

FileInv ==
  /\ FileTypes
  /\ \A kind \in FileKinds, t \in Seconds :
       Used(kind, t) => Whose(kind, t) /\ Pairwise(kind, t) /\ Named(kind, t)
  /\ \A r \in Runs :
       /\ Stamped(r) /\ HeldOpen(r)
       /\ \A q \in Runs \ {r} : OpenTogether(q, r)
       /\ Alone(r) => FilesOf(r) /\ Progress(r)

(* A run without files has no second.                                      *)
LEMMA NotStampedIsNoSecond == NotStamped \notin Seconds
BY DEF NotStamped, Seconds, ConsumerAssumption

(* What a record is stays as long as it is in the stream, so what goes to  *)
(* a file depends on the batch only.                                       *)
KindsStay == \A s \in Shards : \A n \in 1..Len(stream[s]) : stream'[s][n] = stream[s][n]

(* What a file holds depends on the batch, whose records keep their kinds. *)
LEMMA SameContent ==
  ASSUME PollInv, KindsStay, NEW r \in Runs, batch'[r] = batch[r], NEW kind
  PROVE  Content(kind, r)' = Content(kind, r) /\ Beginnings(kind, r)' = Beginnings(kind, r)
<1>1. PollTypes /\ InOrder(r)
  BY DEF PollInv, RunInv
<1>2. ASSUME NEW k \in DOMAIN batch[r] PROVE IsEvent(batch[r][k])' <=> IsEvent(batch[r][k])
  <2>1. batch[r][k][1] \in Shards /\ batch[r][k][2] \in 1..Len(stream[batch[r][k][1]])
    BY <1>1, RunFacts DEF InOrder
  <2>2. stream'[batch[r][k][1]][batch[r][k][2]] = stream[batch[r][k][1]][batch[r][k][2]]
    BY <2>1 DEF KindsStay
  <2> QED
    BY <2>2 DEF IsEvent
<1>3. Places(kind, r)' = Places(kind, r)
  BY <1>2 DEF Places
<1> QED
  BY <1>3 DEF Content, Beginnings

(* The whole is a beginning; the raw file is the batch.                    *)
LEMMA WholeFiles ==
  ASSUME PollTypes, NEW r \in Runs
  PROVE  /\ \A kind \in FileKinds : Content(kind, r) \in Beginnings(kind, r)
         /\ Content("raw", r) = batch[r]
         /\ Content("bronze", r) = Content("canonical", r)
         /\ Beginnings("bronze", r) = Beginnings("canonical", r)
<1>1. batch[r] \in Seq(Shards \X Nat) /\ Len(batch[r]) \in Nat /\ DOMAIN batch[r] = 1..Len(batch[r])
  BY RunFacts
<1>2. ASSUME NEW kind \in FileKinds PROVE Content(kind, r) \in Beginnings(kind, r)
  <2>1. Places(kind, r) \subseteq 1..Len(batch[r])
    BY <1>1 DEF Places
  <2>2. Places(kind, r) \cap (1..Len(batch[r])) = Places(kind, r)
    BY <2>1
  <2>3. Len(batch[r]) \in 0..Len(batch[r])
    BY <1>1
  <2> QED
    BY <2>2, <2>3 DEF Content, Beginnings
<1>3. Content("raw", r) = batch[r]
  <2>1. Places("raw", r) = DOMAIN batch[r]
    BY DEF Places
  <2>2. batch[r] \in [1..Len(batch[r]) -> Shards \X Nat]
    BY <1>1, LenProperties
  <2>3. batch[r] = [k \in DOMAIN batch[r] |-> batch[r][k]]
    BY <2>2
  <2> QED
    BY <2>1, <2>3 DEF Content, Restrict
<1>4. Places("bronze", r) = Places("canonical", r)
  BY DEF Places
<1> QED
  BY <1>2, <1>3, <1>4 DEF Content, Beginnings

(* What is written holds records.                                          *)
LEMMA TextsAreLayers ==
  ASSUME PollTypes, NEW r \in Runs, NEW kind \in FileKinds, NEW part \in Beginnings(kind, r)
  PROVE  [by |-> r, text |-> part] \in Layers
<1>1. batch[r] \in Seq(Shards \X Nat) /\ Len(batch[r]) \in Nat /\ DOMAIN batch[r] = 1..Len(batch[r])
  BY RunFacts
<1>2. \A k \in DOMAIN batch[r] : batch[r][k] \in Shards \X Nat
  BY <1>1
<1>3. PICK n \in 0..Len(batch[r]) : part = Restrict(batch[r], Places(kind, r) \cap (1..n))
  BY DEF Beginnings
<1> DEFINE places == Places(kind, r) \cap (1..n)
<1>4. places \subseteq DOMAIN batch[r] /\ places \in SUBSET Nat
  BY <1>1 DEF Places
<1>5. part = [k \in places |-> batch[r][k]]
  BY <1>3 DEF Restrict
<1> HIDE DEF places
<1>6. part \in [places -> Shards \X Nat]
  BY <1>2, <1>4, <1>5
<1>7. part \in UNION {[p -> Shards \X Nat] : p \in SUBSET Nat}
  BY <1>4, <1>6
<1> QED
  BY <1>7 DEF Layers

(* A file that a step leaves alone keeps what is said of its texts: the    *)
(* batches they are from stay, and no run comes back from failure.         *)
LEMMA FileStands ==
  ASSUME NEW kind \in FileKinds, NEW t \in Seconds,
         Whose(kind, t) /\ Pairwise(kind, t) /\ Named(kind, t),
         file'[kind][t] = file[kind][t], together \subseteq together',
         \A q \in Runs : stamp[q] = t =>
           /\ stamp'[q] = t /\ (pc'[q] # "failed" => pc[q] # "failed")
           /\ Content(kind, q)' = Content(kind, q) /\ Beginnings(kind, q)' = Beginnings(kind, q)
  PROVE  Whose(kind, t)' /\ Pairwise(kind, t)' /\ Named(kind, t)'
<1>1. Whose(kind, t)'
  <2> SUFFICES ASSUME NEW n \in DOMAIN file[kind][t]
               PROVE  (/\ file[kind][t][n].by \in Runs /\ stamp[file[kind][t][n].by] = t
                       /\ file[kind][t][n].text \in Beginnings(kind, file[kind][t][n].by)
                       /\ pc[file[kind][t][n].by] # "failed" =>
                            file[kind][t][n].text = Content(kind, file[kind][t][n].by))'
    BY DEF Whose
  <2>1. PICK q, text : q = file[kind][t][n].by /\ text = file[kind][t][n].text
    OBVIOUS
  <2>2. /\ q \in Runs /\ stamp[q] = t /\ text \in Beginnings(kind, q)
        /\ pc[q] # "failed" => text = Content(kind, q)
    BY <2>1 DEF Whose
  <2>3. /\ stamp'[q] = t /\ (pc'[q] # "failed" => pc[q] # "failed")
        /\ Content(kind, q)' = Content(kind, q) /\ Beginnings(kind, q)' = Beginnings(kind, q)
    BY <2>2
  <2>4. /\ stamp'[q] = t /\ text \in Beginnings(kind, q)'
        /\ pc'[q] # "failed" => text = Content(kind, q)'
    BY <2>2, <2>3
  <2>5. file'[kind][t][n].by = q /\ file'[kind][t][n].text = text
    BY <2>1
  <2> QED
    BY <2>1, <2>2, <2>4, <2>5
<1>2. Pairwise(kind, t)'
  BY DEF Pairwise
<1>3. Named(kind, t)'
  BY DEF Named
<1> QED
  BY <1>1, <1>2, <1>3

(* What is said of the files of a run that shares its second with none.    *)
LEMMA AloneStands ==
  ASSUME PollInv, KindsStay, NEW q \in Runs, FilesOf(q), Progress(q),
         pc'[q] = pc[q] \/ pc'[q] = "failed", batch'[q] = batch[q], stamp'[q] = stamp[q],
         \A kind \in FileKinds : FileOf(kind, q)' = FileOf(kind, q)
  PROVE  FilesOf(q)' /\ Progress(q)'
<1>1. /\ Content("canonical", q)' = Content("canonical", q)
      /\ Beginnings("canonical", q)' = Beginnings("canonical", q)
      /\ Beginnings("raw", q)' = Beginnings("raw", q)
  BY SameContent
<1>2. FileOf("raw", q)' = FileOf("raw", q) /\ FileOf("canonical", q)' = FileOf("canonical", q)
      /\ FileOf("bronze", q)' = FileOf("bronze", q)
  BY DEF FileKinds
<1>3. \A text : /\ Holds(q, "raw", text)' <=> Holds(q, "raw", text)
                /\ Holds(q, "canonical", text)' <=> Holds(q, "canonical", text)
                /\ Holds(q, "bronze", text)' <=> Holds(q, "bronze", text)
  BY <1>2 DEF Holds, FileOf
<1>4. \A texts : /\ Begun(q, "raw", texts)' <=> Begun(q, "raw", texts)
                 /\ Begun(q, "canonical", texts)' <=> Begun(q, "canonical", texts)
                 /\ Begun(q, "bronze", texts)' <=> Begun(q, "bronze", texts)
  BY <1>2 DEF Begun, Holds, FileOf
<1>5. FilesOf(q)'
  BY <1>1, <1>2, <1>3, <1>4 DEF FilesOf
<1>6. Progress(q)'
  <2>1. CASE pc'[q] = "failed"
    BY <2>1, InFileFacts DEF Progress, InFiles, FileKinds
  <2>2. CASE pc'[q] = pc[q]
    BY <1>1, <1>2, <1>3, <2>2 DEF Progress
  <2> QED
    BY <2>1, <2>2
<1> QED
  BY <1>5, <1>6

-----------------------------------------------------------------------------
(* Steps that write no file and name none.                                 *)
LEMMA FilesStand ==
  ASSUME PollInv, FileInv, KindsStay, UNCHANGED <<file, together, stamp>>, clock' \in Seconds,
         \A q \in Runs : stamp[q] # NotStamped => batch'[q] = batch[q],
         \A q \in Runs : \/ pc'[q] = pc[q] \/ pc'[q] = "failed"
                         \/ /\ pc[q] \in {"start", "open", "poll", "stamp"}
                            /\ pc'[q] \in {"start", "open", "poll", "stamp"}
  PROVE  FileInv'
<1>1. FileTypes'
  BY DEF FileInv, FileTypes
<1>2. ASSUME NEW q \in Runs, NEW kind \in FileKinds, pc'[q] = InFile[kind]
      PROVE  pc[q] = InFile[kind]
  <2>1. pc'[q] \in {"in raw", "in canonical", "in bronze"}
    BY <1>2, InFileFacts DEF InFiles
  <2>2. pc'[q] = pc[q]
    BY <2>1
  <2> QED
    BY <1>2, <2>2
<1>3. ASSUME NEW kind \in FileKinds, NEW t \in Seconds, Used(kind, t)'
      PROVE  Whose(kind, t)' /\ Pairwise(kind, t)' /\ Named(kind, t)'
  <2>1. ASSUME NEW q \in Runs, stamp[q] = t
        PROVE  /\ stamp'[q] = t /\ (pc'[q] # "failed" => pc[q] # "failed")
               /\ Content(kind, q)' = Content(kind, q) /\ Beginnings(kind, q)' = Beginnings(kind, q)
    <3>1. batch'[q] = batch[q]
      BY <2>1, NotStampedIsNoSecond
    <3> QED
      BY <2>1, <3>1, SameContent
  <2>2. Whose(kind, t) /\ Pairwise(kind, t) /\ Named(kind, t)
    <3>1. Used(kind, t)
      BY <1>3, <1>2 DEF Used
    <3> QED
      BY <3>1 DEF FileInv
  <2> QED
    BY <2>1, <2>2, FileStands
<1>4. ASSUME NEW q \in Runs PROVE Stamped(q)'
  <2>1. Stamped(q)
    BY DEF FileInv
  <2>2. pc'[q] = pc[q] \/ pc'[q] = "failed" \/ /\ pc[q] \in {"start", "open", "poll", "stamp"}
                                               /\ pc'[q] \in {"start", "open", "poll", "stamp"}
    OBVIOUS
  <2> QED
    BY <2>1, <2>2 DEF Stamped, FileKinds, InFiles
<1>5. ASSUME NEW q \in Runs PROVE HeldOpen(q)' /\ \A r \in Runs \ {q} : OpenTogether(r, q)'
  <2>1. HeldOpen(q) /\ \A r \in Runs \ {q} : OpenTogether(r, q)
    BY DEF FileInv
  <2>2. HeldOpen(q)'
    BY <1>2, <2>1 DEF HeldOpen, FileOf
  <2>3. \A r \in Runs \ {q} : OpenTogether(r, q)'
    BY <1>2, <2>1 DEF OpenTogether
  <2> QED
    BY <2>2, <2>3
<1>6. ASSUME NEW q \in Runs, Alone(q)' PROVE FilesOf(q)' /\ Progress(q)'
  <2>1. Alone(q) /\ stamp[q] # NotStamped
    BY <1>6 DEF Alone
  <2>2. FilesOf(q) /\ Progress(q) /\ Stamped(q) /\ batch'[q] = batch[q]
    BY <2>1 DEF FileInv
  <2>3. pc'[q] = pc[q] \/ pc'[q] = "failed"
    BY <2>1, <2>2 DEF Stamped
  <2>4. \A kind \in FileKinds : FileOf(kind, q)' = FileOf(kind, q)
    BY DEF FileOf
  <2> QED
    BY <2>2, <2>3, <2>4, AloneStands
<1> QED
  BY <1>1, <1>3, <1>4, <1>5, <1>6 DEF FileInv

(* Naming the files: nobody else has written under a second that only this *)
(* run uses.                                                               *)
LEMMA StampKeepsFiles ==
  ASSUME PollInv, FileInv, NEW r \in Runs, StampFiles(r)
  PROVE  FileInv'
<1>1. PollTypes /\ FileTypes
  BY DEF PollInv, FileInv
<1>2. /\ stamp' = [stamp EXCEPT ![r] = clock] /\ pc' = [pc EXCEPT ![r] = "raw"]
      /\ UNCHANGED <<stream, clock, batch, file, together>>
  BY DEF StampFiles, Go, kinesis, disk
<1>3. stamp[r] = NotStamped /\ clock \in Seconds /\ clock # NotStamped
  BY <1>1, NotStampedIsNoSecond DEF FileInv, Stamped, StampFiles, FileTypes
<1>4. /\ stamp'[r] = clock /\ pc'[r] = "raw"
      /\ \A q \in Runs \ {r} : stamp'[q] = stamp[q] /\ pc'[q] = pc[q]
  BY <1>1, <1>2 DEF PollTypes, FileTypes
<1>5. KindsStay
  BY <1>2 DEF KindsStay
<1>6. \A q \in Runs : \A kind \in FileKinds :
        Content(kind, q)' = Content(kind, q) /\ Beginnings(kind, q)' = Beginnings(kind, q)
  BY <1>2, <1>5, SameContent
<1>7. FileTypes'
  BY <1>1, <1>2, <1>3 DEF FileTypes
<1>8. \A q \in Runs, kind \in FileKinds :
         pc'[q] = InFile[kind] => q # r /\ pc[q] = InFile[kind] /\ stamp'[q] = stamp[q]
  BY <1>4, InFileFacts DEF InFiles
<1>9. ASSUME NEW kind \in FileKinds, NEW t \in Seconds, Used(kind, t)'
      PROVE  Whose(kind, t)' /\ Pairwise(kind, t)' /\ Named(kind, t)'
  <2>1. ASSUME NEW q \in Runs, stamp[q] = t
        PROVE  stamp'[q] = t /\ (pc'[q] # "failed" => pc[q] # "failed")
    <3>1. q # r
      BY <1>3, <2>1, NotStampedIsNoSecond
    <3> QED
      BY <1>4, <2>1, <3>1
  <2>2. Whose(kind, t) /\ Pairwise(kind, t) /\ Named(kind, t)
    <3>1. Used(kind, t)
      BY <1>2, <1>9, <1>8 DEF Used
    <3> QED
      BY <3>1 DEF FileInv
  <2>3. file'[kind][t] = file[kind][t] /\ together \subseteq together'
    BY <1>2
  <2> QED
    BY <1>6, <2>1, <2>2, <2>3, FileStands
<1>10. ASSUME NEW q \in Runs PROVE Stamped(q)'
  BY <1>3, <1>4 DEF FileInv, Stamped, FileKinds, InFiles
<1>11. ASSUME NEW q \in Runs PROVE HeldOpen(q)' /\ \A p \in Runs \ {q} : OpenTogether(p, q)'
  <2>1. HeldOpen(q) /\ \A p \in Runs \ {q} : OpenTogether(p, q)
    BY DEF FileInv
  <2>2. HeldOpen(q)'
    <3> SUFFICES ASSUME NEW kind \in FileKinds, pc'[q] = InFile[kind]
                 PROVE  (/\ FileOf(kind, q) \in Seq(Layers)
                         /\ \A n \in DOMAIN FileOf(kind, q) :
                              LET p == FileOf(kind, q)[n].by IN
                              p # q /\ <<kind, p, q>> \in together /\ <<kind, q, p>> \in together)'
      BY DEF HeldOpen
    <3>1. pc[q] = InFile[kind] /\ FileOf(kind, q)' = FileOf(kind, q) /\ together' = together
      BY <1>2, <1>8 DEF FileOf
    <3> QED
      BY <2>1, <3>1 DEF HeldOpen
  <2>3. \A p \in Runs \ {q} : OpenTogether(p, q)'
    BY <1>2, <1>8, <2>1 DEF OpenTogether
  <2> QED
    BY <2>2, <2>3
<1>12. ASSUME NEW q \in Runs \ {r}, Alone(q)' PROVE FilesOf(q)' /\ Progress(q)'
  <2>1. Alone(q)
    BY <1>3, <1>4, <1>12 DEF Alone
  <2>2. FilesOf(q) /\ Progress(q)
    BY <2>1 DEF FileInv
  <2>3. /\ pc'[q] = pc[q] /\ batch'[q] = batch[q] /\ stamp'[q] = stamp[q]
        /\ \A kind \in FileKinds : FileOf(kind, q)' = FileOf(kind, q)
    BY <1>2, <1>4 DEF FileOf
  <2> QED
    BY <1>5, <2>2, <2>3, AloneStands
<1>13. ASSUME Alone(r)' PROVE FilesOf(r)' /\ Progress(r)'
  <2>1. ASSUME NEW kind \in FileKinds PROVE FileOf(kind, r)' = NoFile
    <3>1. \A q \in Runs : stamp[q] # clock
      BY <1>3, <1>4, <1>13 DEF Alone
    <3>2. file[kind][clock] = NoFile
      BY <1>3, <3>1 DEF FileInv, Used, Named
    <3> QED
      BY <1>2, <1>4, <3>2 DEF FileOf
  <2>2. FileOf("raw", r)' = NoFile /\ FileOf("canonical", r)' = NoFile /\ FileOf("bronze", r)' = NoFile
    BY <2>1 DEF FileKinds
  <2>3. FilesOf(r)'
    BY <1>4, <2>2 DEF FilesOf
  <2>4. \A kind \in FileKinds : pc'[r] # InFile[kind]
    BY <1>4, InFileFacts DEF InFiles
  <2>5. Progress(r)'
    BY <1>4, <2>1, <2>2, <2>4 DEF Progress
  <2> QED
    BY <2>3, <2>5
<1> QED
  BY <1>2, <1>7, <1>9, <1>10, <1>11, <1>12, <1>13 DEF FileInv

(* A run that opens or writes its file leaves the other files alone.       *)
LEMMA OneFileChanges ==
  ASSUME PollInv, FileInv, NEW r \in Runs, NEW kind \in FileKinds, pc[r] \in {kind, InFile[kind]},
         NEW next \in {InFile[kind], After(kind), "failed"}, NEW new \in Seq(Layers),
         file' = [file EXCEPT ![kind][stamp[r]] = new], pc' = [pc EXCEPT ![r] = next],
         together \subseteq together', together' \subseteq FileKinds \X Runs \X Runs,
         UNCHANGED <<stream, clock, batch, stamp>>,
         NEW second \in Seconds, second = stamp[r],
         Whose(kind, second)' /\ Pairwise(kind, second)',
         \A q \in Runs : HeldOpen(q)',
         \A q \in Runs \ {r} : OpenTogether(q, r)' /\ OpenTogether(r, q)',
         Alone(r)' => FilesOf(r)' /\ Progress(r)'
  PROVE  FileInv'
<1>1. PollTypes /\ FileTypes
  BY DEF PollInv, FileInv
<1>2. stamp[r] \in Seconds
  OBVIOUS
<1>3. pc'[r] = next /\ \A q \in Runs \ {r} : pc'[q] = pc[q]
  BY <1>1 DEF PollTypes
<1>4. /\ file'[kind][stamp[r]] = new
      /\ \A other \in FileKinds, t \in Seconds :
           other # kind \/ t # stamp[r] => file'[other][t] = file[other][t]
      /\ file' \in [FileKinds -> [Seconds -> {NoFile} \cup Seq(Layers)]]
  BY <1>1, <1>2 DEF FileTypes
<1>5. KindsStay
  BY DEF KindsStay
<1>6. \A q \in Runs : \A other \in FileKinds :
        Content(other, q)' = Content(other, q) /\ Beginnings(other, q)' = Beginnings(other, q)
  BY <1>5, SameContent
<1>7. FileTypes'
  BY <1>1, <1>4 DEF FileTypes
<1>8. pc[r] # "failed"
  BY InFileFacts DEF InFiles, FileKinds
<1>9. ASSUME NEW other \in FileKinds, NEW t \in Seconds, Used(other, t)'
      PROVE  Whose(other, t)' /\ Pairwise(other, t)' /\ Named(other, t)'
  <2>1. CASE other = kind /\ t = stamp[r]
    <3>1. stamp' = stamp
      OBVIOUS
    <3>2. Whose(other, t)' /\ Pairwise(other, t)'
      BY <2>1
    <3>3. Named(other, t)'
      BY <2>1, <3>1 DEF Named
    <3> QED
      BY <3>2, <3>3
  <2>2. CASE other # kind \/ t # stamp[r]
    <3>1. file'[other][t] = file[other][t]
      BY <1>4, <2>2
    <3>2. Whose(other, t) /\ Pairwise(other, t) /\ Named(other, t)
      <4>1. ASSUME NEW q \in Runs, pc'[q] = InFile[other], stamp'[q] = t
            PROVE  pc[q] = InFile[other] /\ stamp[q] = t
        <5>1. q = r => next = InFile[other]
          BY <1>3, <4>1
        <5>2. next = InFile[other] => other = kind
          BY InFileFacts DEF After, InFiles
        <5> QED
          BY <1>3, <2>2, <4>1, <5>1, <5>2
      <4>2. Used(other, t)
        BY <1>9, <3>1, <4>1 DEF Used
      <4> QED
        BY <4>2 DEF FileInv
    <3>3. \A q \in Runs : stamp[q] = t => stamp'[q] = t /\ (pc'[q] # "failed" => pc[q] # "failed")
      BY <1>3, <1>8
    <3> QED
      BY <1>6, <3>1, <3>2, <3>3, FileStands
  <2> QED
    BY <2>1, <2>2
<1>10. next \in {"done", "failed"} \cup FileKinds \cup InFiles
  BY InFileFacts DEF After
<1>11. ASSUME NEW q \in Runs PROVE Stamped(q)'
  <2>1. Stamped(q)
    BY DEF FileInv
  <2>2. CASE q = r
    <3>1. pc'[q] \notin {"start", "open", "poll", "stamp"}
      BY <1>3, <1>10, <2>2 DEF FileKinds, InFiles
    <3> QED
      BY <1>2, <2>2, <3>1 DEF Stamped
  <2> QED
    BY <1>3, <2>1, <2>2 DEF Stamped
<1>12. ASSUME NEW q \in Runs, NEW p \in Runs \ {q} PROVE OpenTogether(p, q)'
  <2>1. CASE p # r /\ q # r
    <3>1. OpenTogether(p, q)
      BY DEF FileInv
    <3>2. pc'[p] = pc[p] /\ pc'[q] = pc[q]
      BY <1>3, <2>1
    <3> QED
      BY <3>1, <3>2 DEF OpenTogether
  <2>2. CASE p = r \/ q = r
    BY <2>2
  <2> QED
    BY <2>1, <2>2
<1>13. ASSUME NEW q \in Runs \ {r}, Alone(q)' PROVE FilesOf(q)' /\ Progress(q)'
  <2>1. Alone(q) /\ stamp[q] # stamp[r] /\ stamp[q] \in Seconds
    BY <1>1, <1>13 DEF Alone, FileTypes
  <2>2. FilesOf(q) /\ Progress(q)
    BY <2>1 DEF FileInv
  <2>3. /\ pc'[q] = pc[q] /\ batch'[q] = batch[q] /\ stamp'[q] = stamp[q]
        /\ \A other \in FileKinds : FileOf(other, q)' = FileOf(other, q)
    BY <1>3, <1>4, <2>1 DEF FileOf
  <2> QED
    BY <1>5, <2>2, <2>3, AloneStands
<1> QED
  BY <1>7, <1>9, <1>11, <1>12, <1>13 DEF FileInv

(* Opening a file empties it: nobody's text is in it, and whoever has it   *)
(* open already now has it open together with this run.                    *)
LEMMA OpenKeepsFiles ==
  ASSUME PollInv, FileInv, NEW r \in Runs, NEW kind \in FileKinds, OpenFile(r, kind)
  PROVE  FileInv'
<1>1. PollTypes /\ FileTypes
  BY DEF PollInv, FileInv
<1>2. /\ pc[r] = kind /\ file' = [file EXCEPT ![kind][stamp[r]] = <<>>]
      /\ pc' = [pc EXCEPT ![r] = InFile[kind]] /\ together' = together \cup Overlaps(r, kind)
      /\ UNCHANGED <<stream, clock, batch, stamp>>
  BY DEF OpenFile, Go, kinesis, locals
<1>3. stamp[r] \in Seconds
  BY <1>2, InFileFacts DEF FileInv, Stamped
<1>4. pc'[r] = InFile[kind] /\ \A q \in Runs \ {r} : pc'[q] = pc[q]
  BY <1>1, <1>2 DEF PollTypes
<1>5. /\ file'[kind][stamp[r]] = <<>>
      /\ \A other \in FileKinds, t \in Seconds :
           other # kind \/ t # stamp[r] => file'[other][t] = file[other][t]
  BY <1>1, <1>2, <1>3 DEF FileTypes
<1>6. Overlaps(r, kind) \subseteq FileKinds \X Runs \X Runs
  BY DEF Overlaps
<1>7. together \subseteq together' /\ together' \subseteq FileKinds \X Runs \X Runs
  BY <1>1, <1>2, <1>6 DEF FileTypes
<1>8. <<>> \in Seq(Layers)
  OBVIOUS
<1>9. ASSUME NEW second \in Seconds, second = stamp[r]
      PROVE  Whose(kind, second)' /\ Pairwise(kind, second)'
  <2>1. DOMAIN file'[kind][second] = {}
    BY <1>5, <1>9
  <2> QED
    BY <2>1 DEF Whose, Pairwise
<1>10. ASSUME NEW q \in Runs PROVE HeldOpen(q)'
  <2> SUFFICES ASSUME NEW other \in FileKinds, pc'[q] = InFile[other]
               PROVE  /\ file'[other][stamp[q]] \in Seq(Layers)
                      /\ \A n \in DOMAIN file'[other][stamp[q]] :
                           LET p == file'[other][stamp[q]][n].by IN
                           p # q /\ <<other, p, q>> \in together' /\ <<other, q, p>> \in together'
    BY <1>2 DEF HeldOpen, FileOf
  <2>1. CASE other = kind /\ stamp[q] = stamp[r]
    <3>1. file'[other][stamp[q]] = <<>> /\ DOMAIN <<>> = {}
      BY <1>5, <2>1
    <3> QED
      BY <1>8, <3>1
  <2>2. CASE other # kind \/ stamp[q] # stamp[r]
    <3>1. q # r
      BY <1>4, <2>2, InFileFacts
    <3>2. pc[q] = InFile[other] /\ stamp[q] \in Seconds /\ HeldOpen(q)
      BY <1>4, <3>1, InFileFacts DEF FileInv, Stamped
    <3>3. file'[other][stamp[q]] = file[other][stamp[q]]
      BY <1>5, <2>2, <3>2
    <3> QED
      BY <1>7, <3>2, <3>3 DEF HeldOpen, FileOf
  <2> QED
    BY <2>1, <2>2
<1>11. ASSUME NEW q \in Runs \ {r} PROVE OpenTogether(q, r)' /\ OpenTogether(r, q)'
  <2>1. pc[q] = InFile[kind] /\ stamp[q] = stamp[r] =>
          <<kind, q, r>> \in Overlaps(r, kind) /\ <<kind, r, q>> \in Overlaps(r, kind)
    BY DEF Overlaps
  <2>2. \A other \in FileKinds : pc'[r] = InFile[other] => other = kind
    BY <1>4, InFileFacts
  <2> QED
    BY <1>2, <1>4, <2>1, <2>2 DEF OpenTogether
<1>12. ASSUME Alone(r)' PROVE FilesOf(r)' /\ Progress(r)'
  <2>1. Alone(r)
    BY <1>2, <1>12 DEF Alone
  <2>2. FilesOf(r) /\ Progress(r)
    BY <2>1 DEF FileInv
  <2>3. /\ FileOf(kind, r)' = <<>>
        /\ \A other \in FileKinds \ {kind} : FileOf(other, r)' = FileOf(other, r)
    BY <1>2, <1>3, <1>5 DEF FileOf
  <2>4. /\ Content("canonical", r)' = Content("canonical", r)
        /\ Beginnings("raw", r)' = Beginnings("raw", r)
        /\ Beginnings("canonical", r)' = Beginnings("canonical", r)
    BY <1>2, SameContent DEF KindsStay
  <2>5. batch'[r] = batch[r] /\ stamp'[r] = stamp[r]
    BY <1>2
  <2>6. \A other \in FileKinds \ {kind} : \A text : Holds(r, other, text)' <=> Holds(r, other, text)
    BY <2>3, <2>5 DEF Holds, FileOf
  <2>7. \A texts : Begun(r, kind, texts)'
    BY <2>3 DEF Begun, FileOf
  <2>8. \A other \in FileKinds : /\ pc'[r] # other
                                 /\ pc'[r] = InFile[other] => FileOf(other, r)' = <<>>
    BY <1>4, <2>3, InFileFacts DEF InFiles, FileKinds
  <2>9. \A text : Holds(r, "raw", text) => FileOf("raw", r) = <<[by |-> r, text |-> text]>>
    BY DEF Holds, FileOf
  <2>10. CASE kind = "raw"
    <3>1. pc'[r] = "in raw"
      BY <1>4, <2>10, InFileFacts
    <3>2. FileOf("canonical", r)' = NoFile /\ FileOf("bronze", r)' = NoFile
      BY <1>2, <2>2, <2>3, <2>10, InFileFacts DEF Progress
    <3>3. FilesOf(r)'
      BY <2>7, <2>10, <3>1, <3>2 DEF FilesOf
    <3>4. Progress(r)'
      BY <2>8, <3>1, <3>2 DEF Progress
    <3> QED
      BY <3>3, <3>4
  <2>11. CASE kind = "canonical"
    <3>1. pc'[r] = "in canonical"
      BY <1>4, <2>11, InFileFacts
    <3>2. FileOf("bronze", r)' = NoFile /\ Holds(r, "raw", batch[r])
      BY <1>2, <2>2, <2>3, <2>11, InFileFacts DEF Progress
    <3>3. Holds(r, "raw", batch[r])'
      <4>1. FileOf("raw", r)' = FileOf("raw", r)
        BY <2>3, <2>11 DEF FileKinds
      <4> QED
        BY <2>5, <3>2, <4>1 DEF Holds, FileOf
    <3>4. FileOf("raw", r) # NoFile => Begun(r, "raw", Beginnings("raw", r))'
      <4>1. Content("raw", r) = batch[r] /\ Content("raw", r) \in Beginnings("raw", r)
        BY <1>1, WholeFiles, InFileFacts
      <4> QED
        BY <2>4, <2>5, <3>3, <4>1 DEF Begun, Holds
    <3>5. FileOf("raw", r)' = FileOf("raw", r)
      BY <2>3, <2>11 DEF FileKinds
    <3>6. FilesOf(r)'
      BY <2>7, <2>11, <3>1, <3>2, <3>3, <3>4, <3>5 DEF FilesOf
    <3>7. Progress(r)'
      BY <2>8, <3>1, <3>2, <3>3 DEF Progress
    <3> QED
      BY <3>6, <3>7
  <2>12. CASE kind = "bronze"
    <3>1. pc'[r] = "in bronze"
      BY <1>4, <2>12, InFileFacts
    <3>2. Holds(r, "raw", batch[r]) /\ Holds(r, "canonical", Content("canonical", r))
      BY <1>2, <2>2, <2>12, InFileFacts DEF Progress
    <3>3. FileOf("raw", r)' = FileOf("raw", r) /\ FileOf("canonical", r)' = FileOf("canonical", r)
      BY <2>3, <2>12 DEF FileKinds
    <3>4. Holds(r, "raw", batch[r])' /\ Holds(r, "canonical", Content("canonical", r))'
      BY <2>4, <2>5, <3>2, <3>3 DEF Holds, FileOf
    <3>5. Begun(r, "raw", Beginnings("raw", r))' /\ Begun(r, "canonical", Beginnings("canonical", r))'
      <4>1. /\ batch[r] \in Beginnings("raw", r)
            /\ Content("canonical", r) \in Beginnings("canonical", r)
        BY <1>1, WholeFiles, InFileFacts
      <4> QED
        BY <2>4, <2>5, <3>4, <4>1 DEF Begun, Holds
    <3>6. FilesOf(r)'
      BY <2>7, <2>12, <3>1, <3>4, <3>5 DEF FilesOf
    <3>7. Progress(r)'
      BY <2>8, <3>1, <3>4 DEF Progress
    <3> QED
      BY <3>6, <3>7
  <2> QED
    BY <2>10, <2>11, <2>12, InFileFacts
<1>13. PICK second \in Seconds : second = stamp[r]
  BY <1>3
<1>14. Whose(kind, second)' /\ Pairwise(kind, second)'
  BY <1>9, <1>13
<1> QED
  BY <1>2, <1>7, <1>8, <1>10, <1>11, <1>12, <1>13, <1>14, OneFileChanges

(* A text at the end of a file.                                            *)
LEMMA TextAppended ==
  ASSUME NEW S, NEW old \in Seq(S), NEW e \in S
  PROVE  /\ Append(old, e) \in Seq(S) /\ Len(old) \in Nat
         /\ DOMAIN old = 1..Len(old) /\ DOMAIN Append(old, e) = 1..(Len(old) + 1)
         /\ \A n \in 1..Len(old) : Append(old, e)[n] = old[n]
         /\ Append(old, e)[Len(old) + 1] = e
OBVIOUS

(* Writing a file, wholly or in part: the text goes over those of runs     *)
(* that had the file open together with this one, and over no other.       *)
LEMMA WriteKeepsFiles ==
  ASSUME PollInv, FileInv, NEW r \in Runs, NEW kind \in FileKinds,
         NEW part \in Beginnings(kind, r), NEW next,
         next = "failed" \/ (next = After(kind) /\ part = Content(kind, r)),
         pc[r] = InFile[kind], Lay(r, kind, part), pc' = [pc EXCEPT ![r] = next],
         UNCHANGED <<stream, clock, batch, stamp, together>>
  PROVE  FileInv'
<1>1. PollTypes /\ FileTypes /\ HeldOpen(r) /\ Stamped(r)
  BY DEF PollInv, FileInv
<1>2. PICK second \in Seconds : second = stamp[r]
  BY <1>1, InFileFacts DEF Stamped
<1>3. PICK old, new : /\ old = file[kind][second] /\ new = Append(old, [by |-> r, text |-> part])
                      /\ file' = [file EXCEPT ![kind][stamp[r]] = new]
  BY <1>2 DEF Lay
<1>4. old \in Seq(Layers) /\ [by |-> r, text |-> part] \in Layers
  BY <1>1, <1>2, <1>3, TextsAreLayers DEF HeldOpen, FileOf
<1>5. /\ new \in Seq(Layers) /\ Len(old) \in Nat
      /\ DOMAIN old = 1..Len(old) /\ DOMAIN new = 1..(Len(old) + 1)
      /\ \A n \in 1..Len(old) : new[n] = old[n]
      /\ new[Len(old) + 1].by = r /\ new[Len(old) + 1].text = part
  BY <1>3, <1>4, TextAppended
<1>6. pc'[r] = next /\ \A q \in Runs \ {r} : pc'[q] = pc[q]
  BY <1>1 DEF PollTypes
<1>7. next \in {"done", "failed"} \cup FileKinds /\ next \in {After(kind), "failed"}
  BY DEF After, FileKinds
<1>8. \A other \in FileKinds : pc'[r] # InFile[other]
  BY <1>6, <1>7, InFileFacts DEF InFiles, FileKinds
<1>9. /\ file'[kind][second] = new
      /\ \A other \in FileKinds, t \in Seconds :
           other # kind \/ t # second => file'[other][t] = file[other][t]
  BY <1>1, <1>2, <1>3 DEF FileTypes
<1>10. \A n \in 1..Len(old) :
         /\ old[n].by # r
         /\ <<kind, old[n].by, r>> \in together /\ <<kind, r, old[n].by>> \in together
  BY <1>1, <1>2, <1>3, <1>5 DEF HeldOpen, FileOf
<1>11. Whose(kind, second) /\ Pairwise(kind, second)
  BY <1>2 DEF FileInv, Used
<1>12. \A q \in Runs : \A other \in FileKinds :
         Content(other, q)' = Content(other, q) /\ Beginnings(other, q)' = Beginnings(other, q)
  BY SameContent DEF KindsStay
<1>13. Whose(kind, second)'
  <2> SUFFICES ASSUME NEW n \in DOMAIN new
               PROVE  (/\ file[kind][second][n].by \in Runs /\ stamp[file[kind][second][n].by] = second
                       /\ file[kind][second][n].text \in Beginnings(kind, file[kind][second][n].by)
                       /\ pc[file[kind][second][n].by] # "failed" =>
                            file[kind][second][n].text = Content(kind, file[kind][second][n].by))'
    BY <1>9 DEF Whose
  <2>1. PICK q, text : q = new[n].by /\ text = new[n].text
    OBVIOUS
  <2>2. /\ q \in Runs /\ stamp[q] = second /\ text \in Beginnings(kind, q)
        /\ pc'[q] # "failed" => text = Content(kind, q)
    <3>1. CASE n \in 1..Len(old)
      <4>1. /\ q \in Runs /\ stamp[q] = second /\ text \in Beginnings(kind, q)
            /\ pc[q] # "failed" => text = Content(kind, q)
        BY <1>3, <1>5, <1>11, <2>1, <3>1 DEF Whose
      <4>2. q # r
        BY <1>5, <1>10, <2>1, <3>1
      <4> QED
        BY <1>6, <4>1, <4>2
    <3>2. CASE n = Len(old) + 1
      BY <1>2, <1>5, <1>6, <2>1, <3>2
    <3> QED
      BY <1>5, <3>1, <3>2
  <2>3. text \in Beginnings(kind, q)' /\ (pc'[q] # "failed" => text = Content(kind, q)')
    BY <1>12, <2>2
  <2>4. file'[kind][second][n].by = q /\ file'[kind][second][n].text = text /\ stamp'[q] = second
    BY <1>9, <2>1, <2>2
  <2> QED
    BY <2>2, <2>3, <2>4
<1>14. Pairwise(kind, second)'
  <2> SUFFICES ASSUME NEW m \in DOMAIN new, NEW n \in DOMAIN new, m # n
               PROVE  new[m].by # new[n].by /\ <<kind, new[m].by, new[n].by>> \in together
    BY <1>9 DEF Pairwise
  <2>1. CASE m \in 1..Len(old) /\ n \in 1..Len(old)
    BY <1>3, <1>5, <1>11, <2>1 DEF Pairwise
  <2>2. CASE m = Len(old) + 1 /\ n \in 1..Len(old)
    <3>1. new[m].by = r /\ new[n] = old[n]
      BY <1>5, <2>2
    <3> QED
      BY <1>10, <2>2, <3>1
  <2>3. CASE n = Len(old) + 1 /\ m \in 1..Len(old)
    <3>1. new[n].by = r /\ new[m] = old[m]
      BY <1>5, <2>3
    <3> QED
      BY <1>10, <2>3, <3>1
  <2> QED
    BY <1>5, <2>1, <2>2, <2>3
<1>15. ASSUME NEW q \in Runs PROVE HeldOpen(q)'
  <2> SUFFICES ASSUME NEW other \in FileKinds, pc'[q] = InFile[other]
               PROVE  /\ file'[other][stamp[q]] \in Seq(Layers)
                      /\ \A n \in DOMAIN file'[other][stamp[q]] :
                           LET p == file'[other][stamp[q]][n].by IN
                           p # q /\ <<other, p, q>> \in together /\ <<other, q, p>> \in together
    BY DEF HeldOpen, FileOf
  <2>1. q # r /\ pc[q] = InFile[other] /\ HeldOpen(q)
    BY <1>6, <1>8 DEF FileInv
  <2>2. stamp[q] \in Seconds
    BY <2>1, InFileFacts DEF FileInv, Stamped
  <2>3. CASE other = kind /\ stamp[q] = second
    <3>1. \A n \in 1..Len(old) :
            /\ old[n].by # q
            /\ <<kind, old[n].by, q>> \in together /\ <<kind, q, old[n].by>> \in together
      <4>1. FileOf(kind, q) = file[kind][second] /\ pc[q] = InFile[kind]
        BY <2>1, <2>3 DEF FileOf
      <4>2. \A n \in DOMAIN file[kind][second] :
              LET p == file[kind][second][n].by IN
              p # q /\ <<kind, p, q>> \in together /\ <<kind, q, p>> \in together
        BY <2>1, <4>1 DEF HeldOpen
      <4> QED
        BY <1>3, <1>5, <4>2
    <3>2. <<kind, r, q>> \in together /\ <<kind, q, r>> \in together
      BY <1>2, <2>1, <2>3 DEF FileInv, OpenTogether
    <3>3. \A n \in DOMAIN new :
            /\ new[n].by # q
            /\ <<kind, new[n].by, q>> \in together /\ <<kind, q, new[n].by>> \in together
      <4> TAKE n \in DOMAIN new
      <4>1. CASE n \in 1..Len(old)
        <5>1. new[n] = old[n]
          BY <1>5, <4>1
        <5> QED
          BY <3>1, <4>1, <5>1
      <4>2. CASE n = Len(old) + 1
        BY <1>5, <2>1, <3>2, <4>2
      <4> QED
        BY <1>5, <4>1, <4>2
    <3> QED
      BY <1>5, <1>9, <2>3, <3>3
  <2>4. CASE other # kind \/ stamp[q] # second
    <3>1. file'[other][stamp[q]] = file[other][stamp[q]]
      BY <1>9, <2>2, <2>4
    <3> QED
      BY <2>1, <3>1 DEF HeldOpen, FileOf
  <2> QED
    BY <2>3, <2>4
<1>16. \A q \in Runs \ {r} : OpenTogether(q, r)' /\ OpenTogether(r, q)'
  BY <1>8 DEF OpenTogether
<1>17. ASSUME Alone(r)' PROVE FilesOf(r)' /\ Progress(r)'
  <2>1. Alone(r)
    BY <1>17 DEF Alone
  <2>2. FilesOf(r) /\ Progress(r)
    BY <2>1 DEF FileInv
  <2>3. FileOf(kind, r) = <<>>
    BY <2>2 DEF Progress
  <2>4. /\ FileOf(kind, r)' = <<[by |-> r, text |-> part]>>
        /\ \A other \in FileKinds \ {kind} : FileOf(other, r)' = FileOf(other, r)
    <3>1. new = <<[by |-> r, text |-> part]>>
      BY <1>2, <1>3, <2>3 DEF FileOf
    <3> QED
      BY <1>2, <1>9, <3>1 DEF FileOf
  <2>5. /\ Content("canonical", r)' = Content("canonical", r)
        /\ Beginnings("raw", r)' = Beginnings("raw", r)
        /\ Beginnings("canonical", r)' = Beginnings("canonical", r)
    BY <1>12, InFileFacts
  <2>6. /\ Content("raw", r) = batch[r] /\ Content("raw", r) \in Beginnings("raw", r)
        /\ Content("canonical", r) \in Beginnings("canonical", r)
        /\ Content("bronze", r) = Content("canonical", r)
        /\ Beginnings("bronze", r) = Beginnings("canonical", r)
    BY <1>1, WholeFiles, InFileFacts
  <2>7. batch'[r] = batch[r] /\ stamp'[r] = stamp[r]
    OBVIOUS
  <2>8. \A texts : part \in texts => Begun(r, kind, texts)'
    BY <2>4, <2>7 DEF Begun, Holds, FileOf
  <2>9. \A other \in FileKinds : pc'[r] # InFile[other]
    BY <1>8
  <2>10. next # "failed" => part = Content(kind, r) /\ Holds(r, kind, part)'
    BY <2>4, <2>7 DEF Holds, FileOf
  <2>11. CASE kind = "raw"
    <3>1. FileOf("canonical", r)' = NoFile /\ FileOf("bronze", r)' = NoFile
      BY <2>2, <2>4, <2>11, InFileFacts DEF Progress
    <3>2. pc'[r] = "failed" \/ (pc'[r] = "canonical" /\ Holds(r, "raw", batch[r])')
      <4>1. part = batch[r] => Holds(r, "raw", batch[r])'
        BY <2>4, <2>7, <2>11 DEF Holds, FileOf
      <4> QED
        BY <1>6, <2>6, <2>11, <4>1 DEF After
    <3>3. Begun(r, "raw", Beginnings("raw", r))'
      BY <2>4, <2>5, <2>7, <2>11 DEF Begun, Holds, FileOf
    <3>4. FilesOf(r)'
      BY <3>1, <3>2, <3>3 DEF FilesOf
    <3>5. Progress(r)'
      BY <2>9, <3>1, <3>2, InFileFacts DEF Progress, InFiles
    <3> QED
      BY <3>4, <3>5
  <2>12. CASE kind = "canonical"
    <3>1. Holds(r, "raw", batch[r]) /\ FileOf("bronze", r) = NoFile
      BY <2>2, <2>12, InFileFacts DEF Progress
    <3>2. FileOf("bronze", r)' = NoFile /\ FileOf("raw", r)' = FileOf("raw", r)
      BY <2>4, <2>12, <3>1, InFileFacts
    <3>3. Holds(r, "raw", batch[r])'
      BY <2>7, <3>1, <3>2 DEF Holds, FileOf
    <3>4. Begun(r, "raw", Beginnings("raw", r))'
      BY <2>5, <2>6, <2>7, <3>3 DEF Begun, Holds
    <3>5. Begun(r, "canonical", Beginnings("canonical", r))'
      BY <2>4, <2>5, <2>7, <2>12 DEF Begun, Holds, FileOf
    <3>6. \/ pc'[r] = "failed"
          \/ pc'[r] = "bronze" /\ Holds(r, "canonical", Content("canonical", r))'
      <4>1. part = Content("canonical", r) => Holds(r, "canonical", Content("canonical", r))'
        BY <2>4, <2>5, <2>7, <2>12 DEF Holds, FileOf
      <4> QED
        BY <1>6, <2>12, <4>1 DEF After
    <3>7. FilesOf(r)'
      BY <3>2, <3>3, <3>4, <3>5, <3>6 DEF FilesOf
    <3>8. Progress(r)'
      BY <2>9, <3>2, <3>3, <3>6, InFileFacts DEF Progress, InFiles
    <3> QED
      BY <3>7, <3>8
  <2>13. CASE kind = "bronze"
    <3>1. Holds(r, "raw", batch[r]) /\ Holds(r, "canonical", Content("canonical", r))
      BY <2>2, <2>13, InFileFacts DEF Progress
    <3>2. FileOf("canonical", r)' = FileOf("canonical", r) /\ FileOf("raw", r)' = FileOf("raw", r)
      BY <2>4, <2>13, InFileFacts
    <3>3. Holds(r, "raw", batch[r])' /\ Holds(r, "canonical", Content("canonical", r))'
      BY <2>5, <2>7, <3>1, <3>2 DEF Holds, FileOf
    <3>4. Begun(r, "raw", Beginnings("raw", r))' /\ Begun(r, "canonical", Beginnings("canonical", r))'
      BY <2>5, <2>6, <2>7, <3>3 DEF Begun, Holds
    <3>5. Begun(r, "bronze", Beginnings("canonical", r))'
      BY <2>4, <2>5, <2>6, <2>7, <2>13 DEF Begun, Holds, FileOf
    <3>6. \/ pc'[r] = "failed"
          \/ pc'[r] = "done" /\ Holds(r, "bronze", Content("canonical", r))'
      <4>1. part = Content("canonical", r) => Holds(r, "bronze", Content("canonical", r))'
        BY <2>4, <2>5, <2>7, <2>13 DEF Holds, FileOf
      <4> QED
        BY <1>6, <2>6, <2>13, <4>1 DEF After
    <3>7. FilesOf(r)'
      BY <3>3, <3>4, <3>5, <3>6 DEF FilesOf
    <3>8. Progress(r)'
      BY <2>9, <3>6, InFileFacts DEF Progress, InFiles
    <3> QED
      BY <3>7, <3>8
  <2> QED
    BY <2>11, <2>12, <2>13, InFileFacts
<1> QED
  <2>1. together \subseteq together' /\ together' \subseteq FileKinds \X Runs \X Runs
    BY <1>1 DEF FileTypes
  <2>2. new \in Seq(Layers) /\ pc[r] \in {kind, InFile[kind]}
    BY <1>5
  <2>3. next \in {InFile[kind], After(kind), "failed"}
    BY <1>7
  <2> QED
    BY <1>2, <1>3, <1>13, <1>14, <1>15, <1>16, <1>17, <2>1, <2>2, <2>3, OneFileChanges

-----------------------------------------------------------------------------
(* A record keeps its kind: streams are appended to.                       *)
LEMMA KindsStayAlways ==
  ASSUME PollTypes, [Next]_vars
  PROVE  KindsStay
<1>1. CASE stream' = stream
  BY <1>1 DEF KindsStay
<1>2. ASSUME NEW s \in Shards, NEW kind \in RecordKinds, Arrive(s, kind) PROVE KindsStay
  <2>1. stream' = [stream EXCEPT ![s] = Append(@, kind)] /\ stream \in [Shards -> Seq(RecordKinds)]
    BY <1>2 DEF Arrive, PollTypes
  <2>2. \A n \in 1..Len(stream[s]) : Append(stream[s], kind)[n] = stream[s][n]
    <3>1. stream[s] \in Seq(RecordKinds)
      BY <2>1
    <3> QED
      BY <3>1
  <2> QED
    BY <2>1, <2>2 DEF KindsStay
<1> QED
  BY <1>1, <1>2, StreamOrArrive

(* Every step keeps what the files tell.                                   *)
LEMMA FileInvKept ==
  ASSUME PollInv, FileInv, [Next]_vars
  PROVE  FileInv'
<1>1. PollTypes /\ FileTypes /\ KindsStay
  BY KindsStayAlways DEF PollInv, FileInv
<1>2. ASSUME NEW r \in Runs, NEW kind \in FileKinds, WriteFile(r, kind) PROVE FileInv'
  <2>1. Content(kind, r) \in Beginnings(kind, r)
    BY <1>1, WholeFiles
  <2>2. /\ pc[r] = InFile[kind] /\ Lay(r, kind, Content(kind, r))
        /\ pc' = [pc EXCEPT ![r] = After(kind)]
        /\ UNCHANGED <<stream, clock, batch, stamp, together>>
    BY <1>2 DEF WriteFile, Go, kinesis, locals
  <2> QED
    BY <2>1, <2>2, WriteKeepsFiles
<1>3. ASSUME NEW r \in Runs, NEW kind \in FileKinds, FailWriting(r, kind) PROVE FileInv'
  <2>1. PICK part \in Beginnings(kind, r) : Lay(r, kind, part)
    BY <1>3 DEF FailWriting
  <2>2. /\ pc[r] = InFile[kind] /\ pc' = [pc EXCEPT ![r] = "failed"]
        /\ UNCHANGED <<stream, clock, batch, stamp, together>>
    BY <1>3 DEF FailWriting, Go, kinesis, locals
  <2> QED
    BY <2>1, <2>2, WriteKeepsFiles
<1>4. ASSUME NEW r \in Runs, StampFiles(r) PROVE FileInv'
  BY <1>4, StampKeepsFiles
<1>5. ASSUME NEW r \in Runs, NEW kind \in FileKinds, OpenFile(r, kind) PROVE FileInv'
  BY <1>5, OpenKeepsFiles
<1>6. ASSUME NEW r \in Runs,
             \/ ListShards(r) \/ OpenIterator(r) \/ LeaveShard(r) \/ Fail(r)
             \/ \E count \in 0..ShardCapacity : GetRecords(r, count) \/ DecodeFails(r, count)
      PROVE  FileInv'
  <2>1. OnlyRun(r)
    BY <1>1, <1>6, StepsOneRun DEF Step, Failure
  <2>2. UNCHANGED <<file, together, stamp, clock>>
    BY <1>6 DEF ListShards, OpenIterator, LeaveShard, Fail, GetRecords, DecodeFails, locals, disk
  <2>3. \/ pc'[r] = "failed"
        \/ /\ pc[r] \in {"start", "open", "poll", "stamp"}
           /\ pc'[r] \in {"start", "open", "poll", "stamp"}
    BY <1>1, <1>6 DEF ListShards, OpenIterator, LeaveShard, Fail, GetRecords, DecodeFails, Go, PollTypes
  <2>4. stamp[r] # NotStamped => batch'[r] = batch[r]
    <3>1. CASE pc[r] \in {"start", "open", "poll", "stamp"}
      BY <3>1 DEF FileInv, Stamped
    <3>2. CASE pc[r] \notin {"start", "open", "poll", "stamp"}
      BY <1>6, <3>2 DEF ListShards, OpenIterator, LeaveShard, Fail, GetRecords, DecodeFails, locals
    <3> QED
      BY <3>1, <3>2
  <2>5. \A q \in Runs : stamp[q] # NotStamped => batch'[q] = batch[q]
    BY <2>1, <2>4 DEF OnlyRun
  <2>6. \A q \in Runs : \/ pc'[q] = pc[q] \/ pc'[q] = "failed"
                        \/ /\ pc[q] \in {"start", "open", "poll", "stamp"}
                           /\ pc'[q] \in {"start", "open", "poll", "stamp"}
    BY <2>1, <2>3 DEF OnlyRun
  <2>7. clock' \in Seconds
    BY <1>1, <2>2 DEF FileTypes
  <2> QED
    BY <1>1, <2>2, <2>5, <2>6, <2>7, FilesStand
<1>7. CASE Environment \/ Finished \/ UNCHANGED vars
  <2>1. UNCHANGED <<pc, batch, stamp, file, together>>
    BY <1>7 DEF Environment, Finished, vars, Seal, Arrive, Tick, locals, disk
  <2>2. clock' \in Seconds
    <3>1. clock' = clock \/ (clock < MaxSecond /\ clock' = clock + 1)
      BY <1>7 DEF Environment, Finished, vars, Seal, Arrive, Tick
    <3>2. clock \in 0..MaxSecond
      BY <1>1 DEF FileTypes, Seconds
    <3> QED
      BY <3>1, <3>2 DEF Seconds, ConsumerAssumption
  <2> QED
    BY <1>1, <2>1, <2>2, FilesStand
<1> QED
  BY <1>2, <1>3, <1>4, <1>6, <1>7, <1>5 DEF Next, Step, Failure

(* There is no file before the first poll.                                 *)
LEMMA InitFileInv == Init => FileInv
<1> SUFFICES ASSUME Init PROVE FileInv
  OBVIOUS
<1>1. \A r \in Runs : stamp[r] = NotStamped /\ pc[r] = "start"
  BY DEF Init
<1>2. \A kind \in FileKinds, t \in Seconds : file[kind][t] = NoFile
  BY DEF Init
<1>3. FileTypes
  BY DEF Init, FileTypes, Seconds, ConsumerAssumption
<1>4. \A r \in Runs, kind \in FileKinds : pc[r] # InFile[kind]
  BY <1>1, InFileFacts DEF InFiles
<1>5. \A kind \in FileKinds, t \in Seconds : ~Used(kind, t)
  BY <1>2, <1>4 DEF Used
<1>6. \A r \in Runs : Stamped(r) /\ ~Alone(r)
  BY <1>1 DEF Stamped, Alone, FileKinds, InFiles
<1>7. \A r \in Runs : HeldOpen(r) /\ \A q \in Runs : OpenTogether(q, r)
  BY <1>4 DEF HeldOpen, OpenTogether
<1> QED
  BY <1>3, <1>5, <1>6, <1>7 DEF FileInv

(* Wherever runs are killed and however they overlap, the files of a run   *)
(* that shares its second with none tell how far it came, and a file holds *)
(* two texts only of runs that both had it open at a time.                 *)
THEOREM FilesCorrect == Spec => []FilesAccountable
<1>1. Init => PollInv /\ FileInv
  BY InitPollInv, InitFileInv
<1>2. PollInv /\ FileInv /\ [Next]_vars => PollInv' /\ FileInv'
  BY PollInvKept, FileInvKept
<1>3. FileInv => FilesAccountable
  <2> SUFFICES ASSUME FileInv PROVE FilesOfOneRun /\ MixedOnlyTogether
    BY DEF FilesAccountable
  <2>1. FilesOfOneRun
    BY DEF FileInv, FilesOf, FileOf, FilesOfOneRun
  <2>2. MixedOnlyTogether
    <3> SUFFICES ASSUME NEW kind \in FileKinds, NEW t \in Seconds, file[kind][t] # NoFile
                 PROVE  Whose(kind, t) /\ Pairwise(kind, t)
      BY DEF MixedOnlyTogether, Whose, Pairwise
    <3> QED
      BY DEF FileInv, Used
  <2> QED
    BY <2>1, <2>2
<1> QED
  BY <1>1, <1>2, <1>3, PTL DEF Spec

-----------------------------------------------------------------------------
(* Type correctness: what the invariants above leave open is bounded.      *)

BoundsInv ==
  /\ sealed \subseteq Shards
  /\ emptyPolls \in [Runs -> 0..MaxEmptyPolls]
  /\ \A s \in Shards : Len(stream[s]) <= ShardCapacity

(* A shard takes records up to its capacity.                               *)
LEMMA CapacityKept ==
  ASSUME PollTypes, BoundsInv, [Next]_vars
  PROVE  \A s \in Shards : Len(stream'[s]) <= ShardCapacity
<1>1. CASE stream' = stream
  BY <1>1 DEF BoundsInv
<1>2. ASSUME NEW s \in Shards, NEW kind \in RecordKinds, Arrive(s, kind)
      PROVE  \A t \in Shards : Len(stream'[t]) <= ShardCapacity
  <2> TAKE t \in Shards
  <2>1. stream \in [Shards -> Seq(RecordKinds)] /\ stream[s] \in Seq(RecordKinds)
    BY DEF PollTypes
  <2>2. Len(stream[s]) \in Nat /\ Len(stream[s]) < ShardCapacity
        /\ Len(Append(stream[s], kind)) = Len(stream[s]) + 1
    BY <1>2, <2>1 DEF Arrive
  <2>3. stream'[t] = IF t = s THEN Append(stream[s], kind) ELSE stream[t]
    BY <1>2, <2>1 DEF Arrive
  <2>4. Len(stream[t]) <= ShardCapacity /\ ShardCapacity \in Nat
    BY DEF BoundsInv, ConsumerAssumption
  <2> QED
    BY <2>2, <2>3, <2>4
<1> QED
  BY <1>1, <1>2, StreamOrArrive

(* An empty answer is counted only below the limit.                        *)
LEMMA EmptyPollsKept ==
  ASSUME BoundsInv, [Next]_vars
  PROVE  emptyPolls' \in [Runs -> 0..MaxEmptyPolls]
<1>1. emptyPolls \in [Runs -> 0..MaxEmptyPolls] /\ MaxEmptyPolls \in Nat
  BY DEF BoundsInv, ConsumerAssumption
<1>2. ASSUME NEW r \in Runs, OpenIterator(r) PROVE emptyPolls' \in [Runs -> 0..MaxEmptyPolls]
  BY <1>1, <1>2 DEF OpenIterator
<1>3. ASSUME NEW r \in Runs, NEW count \in 0..ShardCapacity, GetRecords(r, count)
      PROVE  emptyPolls' \in [Runs -> 0..MaxEmptyPolls]
  <2>1. emptyPolls[r] \in Nat /\ emptyPolls[r] < MaxEmptyPolls
    BY <1>1, <1>3 DEF GetRecords, KeepsPolling
  <2>2. (IF count = 0 THEN emptyPolls[r] + 1 ELSE 0) \in 0..MaxEmptyPolls
    BY <1>1, <2>1
  <2>3. emptyPolls' = [emptyPolls EXCEPT ![r] = IF count = 0 THEN emptyPolls[r] + 1 ELSE 0]
    BY <1>3 DEF GetRecords
  <2> QED
    BY <1>1, <2>2, <2>3
<1>4. ASSUME NEW r \in Runs,
             \/ ListShards(r) \/ LeaveShard(r) \/ StampFiles(r) \/ Fail(r)
             \/ \E count \in 0..ShardCapacity : DecodeFails(r, count)
             \/ \E kind \in FileKinds :
                  OpenFile(r, kind) \/ WriteFile(r, kind) \/ FailWriting(r, kind)
      PROVE  emptyPolls' = emptyPolls
  BY <1>4 DEF ListShards, LeaveShard, StampFiles, Fail, DecodeFails, OpenFile, WriteFile,
              FailWriting, locals
<1>5. CASE Environment \/ Finished \/ UNCHANGED vars
  BY <1>1, <1>5 DEF Environment, Finished, vars, Seal, Arrive, Tick, locals
<1> QED
  BY <1>1, <1>2, <1>3, <1>4, <1>5 DEF Next, Step, Failure

(* Only shards are sealed.                                                 *)
LEMMA SealedKept ==
  ASSUME BoundsInv, [Next]_vars
  PROVE  sealed' \subseteq Shards
<1>1. ASSUME NEW r \in Runs, Step(r) \/ Failure(r) PROVE sealed' = sealed
  BY <1>1 DEF Step, Failure, ListShards, OpenIterator, LeaveShard, StampFiles, GetRecords,
              DecodeFails, OpenFile, WriteFile, Fail, FailWriting, kinesis
<1>2. CASE Environment \/ Finished \/ UNCHANGED vars
  BY <1>2 DEF BoundsInv, Environment, Finished, vars, Seal, Arrive, Tick, kinesis
<1> QED
  BY <1>1, <1>2 DEF BoundsInv, Next

(* A batch holds records of the stream, so its files do.                   *)
LEMMA FilesHoldRecords ==
  ASSUME PollInv, BoundsInv, NEW r \in Runs
  PROVE  /\ batch[r] \in Seq(Records)
         /\ \A kind \in FileKinds : \A part \in Beginnings(kind, r) :
              \E places \in SUBSET (1..MaxRecords) : part \in [places -> Records]
<1>1. /\ batch[r] \in Seq(Shards \X Nat) /\ Len(batch[r]) \in Nat
      /\ DOMAIN batch[r] = 1..Len(batch[r]) /\ Len(batch[r]) <= MaxRecords
  BY RunFacts DEF PollInv, RunInv, InOrder
<1>2. ASSUME NEW k \in DOMAIN batch[r] PROVE batch[r][k] \in Records
  <2>1. batch[r][k] \in Shards \X Nat
    BY <1>1
  <2>2. batch[r][k][1] \in Shards /\ batch[r][k][2] \in 1..Len(stream[batch[r][k][1]])
    BY <2>1 DEF PollInv, RunInv, InOrder
  <2>3. Len(stream[batch[r][k][1]]) \in Nat /\ Len(stream[batch[r][k][1]]) <= ShardCapacity
    BY <2>2, RunFacts DEF PollInv, BoundsInv
  <2>4. batch[r][k][2] \in 1..ShardCapacity
    BY <2>2, <2>3 DEF ConsumerAssumption
  <2> QED
    BY <2>1, <2>2, <2>4 DEF Records
<1>3. batch[r] \in Seq(Records)
  <2>1. batch[r] \in [1..Len(batch[r]) -> Shards \X Nat]
    BY <1>1, LenProperties
  <2>2. batch[r] \in [1..Len(batch[r]) -> Records]
    BY <1>1, <1>2, <2>1
  <2> DEFINE n == Len(batch[r])
  <2>3. n \in Nat /\ batch[r] \in [1..n -> Records]
    BY <1>1, <2>2
  <2> HIDE DEF n
  <2> QED
    BY <2>3, SeqDef
<1>4. ASSUME NEW kind \in FileKinds, NEW part \in Beginnings(kind, r)
      PROVE  \E places \in SUBSET (1..MaxRecords) : part \in [places -> Records]
  <2>1. PICK n \in 0..Len(batch[r]) : part = Restrict(batch[r], Places(kind, r) \cap (1..n))
    BY <1>4 DEF Beginnings
  <2> DEFINE places == Places(kind, r) \cap (1..n)
  <2>2. places \subseteq DOMAIN batch[r]
    BY DEF Places
  <2>3. 1..Len(batch[r]) \subseteq 1..MaxRecords
    BY <1>1 DEF ConsumerAssumption
  <2>4. part = [k \in places |-> batch[r][k]]
    BY <2>1 DEF Restrict
  <2> HIDE DEF places
  <2>5. part \in [places -> Records]
    BY <1>2, <2>2, <2>4
  <2>6. places \in SUBSET (1..MaxRecords)
    BY <1>1, <2>2, <2>3
  <2> QED
    BY <2>5, <2>6
<1> QED
  BY <1>3, <1>4

(* Every variable of the consumer keeps its type: no clock, iterator, poll *)
(* count or batch runs past its bound, and every file holds records.       *)
THEOREM TypeCorrect == Spec => []TypeOK
<1>1. Init => PollInv /\ FileInv /\ BoundsInv
  <2>1. Init => BoundsInv
    BY DEF Init, BoundsInv, ConsumerAssumption
  <2> QED
    BY <2>1, InitPollInv, InitFileInv
<1>2. PollInv /\ FileInv /\ BoundsInv /\ [Next]_vars => PollInv' /\ FileInv' /\ BoundsInv'
  <2>1. PollInv /\ BoundsInv /\ [Next]_vars => BoundsInv'
    BY CapacityKept, EmptyPollsKept, SealedKept DEF PollInv, BoundsInv
  <2> QED
    BY <2>1, PollInvKept, FileInvKept
<1>3. PollInv /\ FileInv /\ BoundsInv => TypeOK
  <2> SUFFICES ASSUME PollInv, FileInv, BoundsInv PROVE TypeOK
    OBVIOUS
  <2>1. PollTypes /\ FileTypes
    BY DEF PollInv, FileInv
  <2>2. batch \in [Runs -> Seq(Records)]
    BY <2>1, FilesHoldRecords DEF PollTypes
  <2> DEFINE Kept == [by : Runs, text : Texts]
  <2>3. ASSUME NEW kind \in FileKinds, NEW t \in Seconds
        PROVE  file[kind][t] \in {NoFile} \cup Seq(Kept)
    <3>1. CASE file[kind][t] = NoFile
      BY <3>1
    <3>2. CASE file[kind][t] # NoFile
      <4>1. PICK texts \in Seq(Layers) : texts = file[kind][t]
        BY <2>1, <3>2 DEF FileTypes
      <4>2. ASSUME NEW n \in 1..Len(texts) PROVE texts[n] \in Kept
        <5>1. texts[n] \in Layers
          BY <4>1
        <5>2. texts[n].by \in Runs /\ texts[n].text \in Beginnings(kind, texts[n].by)
          BY <3>2, <4>1 DEF FileInv, Used, Whose
        <5>3. texts[n].text \in Texts
          BY <5>2, FilesHoldRecords DEF Texts
        <5>4. texts[n] = [by |-> texts[n].by, text |-> texts[n].text]
          BY <5>1 DEF Layers
        <5> QED
          BY <5>2, <5>3, <5>4
      <4>3. texts \in Seq(Kept)
        <5>1. texts \in [1..Len(texts) -> Layers] /\ Len(texts) \in Nat
          BY <4>1, LenProperties
        <5> HIDE DEF Kept
        <5>2. texts \in [1..Len(texts) -> Kept]
          BY <4>2, <5>1
        <5> DEFINE n == Len(texts)
        <5>3. n \in Nat /\ texts \in [1..n -> Kept]
          BY <5>1, <5>2
        <5> HIDE DEF n
        <5> QED
          BY <5>3, SeqDef
      <4> QED
        BY <4>1, <4>3
    <3> QED
      BY <3>1, <3>2
  <2> HIDE DEF Kept
  <2>4. file \in [FileKinds -> [Seconds -> {NoFile} \cup Seq(Kept)]]
    BY <2>1, <2>3 DEF FileTypes
  <2>5. {InFile[kind] : kind \in FileKinds} = InFiles
    <3>1. \A x \in InFiles : \E kind \in FileKinds : x = InFile[kind]
      BY InFileFacts DEF InFiles
    <3>2. \A kind \in FileKinds : InFile[kind] \in InFiles
      BY InFileFacts
    <3> QED
      BY <3>1, <3>2
  <2>6. pc \in [Runs -> {"start", "open", "poll", "stamp", "done", "failed"}
                        \cup FileKinds \cup {InFile[kind] : kind \in FileKinds}]
    BY <2>1, <2>5 DEF PollTypes
  <2> QED
    BY <2>1, <2>2, <2>4, <2>6 DEF TypeOK, PollTypes, FileTypes, BoundsInv, Kept
<1> QED
  BY <1>1, <1>2, <1>3, PTL DEF Spec

-----------------------------------------------------------------------------
(* Polling runs out.                                                       *)

Room(r) == MaxRecords - Len(batch[r]) + Len(ShardList) - turn[r]

(* Products of natural numbers.                                            *)
LEMMA Products ==
  ASSUME NEW m \in Nat, NEW a \in Nat
  PROVE  /\ m * a \in Nat /\ m * (a + 1) = m * a + m
         /\ \A b \in Nat : b <= a => m * b <= m * a
         /\ \A b \in Nat : b < a => m * b + m <= m * a
<1>1. m * a \in Nat /\ m * (a + 1) = m * a + m
  OBVIOUS
<1>2. ASSUME NEW b \in Nat, b <= a PROVE m * b <= m * a
  <2>1. PICK c \in Nat : a = b + c
    <3>1. a - b \in Nat /\ a = b + (a - b)
      BY <1>2
    <3> QED
      BY <3>1
  <2>2. m * (b + c) = m * b + m * c /\ m * c \in Nat /\ m * b \in Nat
    OBVIOUS
  <2> QED
    BY <2>1, <2>2
<1>3. ASSUME NEW b \in Nat, b < a PROVE m * b + m <= m * a
  <2>1. PICK c \in Nat : a = (b + 1) + c
    <3>1. a - (b + 1) \in Nat /\ a = (b + 1) + (a - (b + 1))
      BY <1>3
    <3> QED
      BY <3>1
  <2>2. m * ((b + 1) + c) = m * (b + 1) + m * c /\ m * c \in Nat /\ m * b \in Nat
    OBVIOUS
  <2>3. m * (b + 1) = m * b + m
    OBVIOUS
  <2> QED
    BY <2>1, <2>2, <2>3
<1> QED
  BY <1>1, <1>2, <1>3

(* What is left to a run is a number of calls.                             *)
CallsFacts(r) ==
  /\ Room(r) \in Nat /\ CallsLeft(r) \in Nat /\ emptyPolls[r] \in 0..MaxEmptyPolls
  /\ pc[r] \in {"start", "open"} => CallsLeft(r) = MaxEmptyPolls * Room(r) + MaxEmptyPolls
  /\ pc[r] = "poll" =>
       CallsLeft(r) = MaxEmptyPolls * Room(r) + (MaxEmptyPolls - emptyPolls[r])
  /\ pc[r] \notin {"start", "open", "poll"} => CallsLeft(r) = 0

(* Reached states satisfy it.                                              *)
LEMMA CallsLeftIs == PollInv /\ BoundsInv => \A r \in Runs : CallsFacts(r)
<1> SUFFICES ASSUME PollInv, BoundsInv, NEW r \in Runs PROVE CallsFacts(r)
  OBVIOUS
<1>1. PollTypes /\ InOrder(r)
  BY DEF PollInv, RunInv
<1>2. turn[r] \in 1..Len(ShardList) /\ Len(batch[r]) \in Nat /\ Len(batch[r]) <= MaxRecords
      /\ Len(ShardList) \in Nat /\ MaxRecords \in Nat
  BY <1>1, RunFacts, ShardListFacts DEF InOrder, ConsumerAssumption
<1>3. Room(r) \in Nat
  BY <1>2 DEF Room
<1>4. emptyPolls[r] \in 0..MaxEmptyPolls /\ MaxEmptyPolls \in Nat
  BY DEF BoundsInv, ConsumerAssumption
<1> DEFINE room == Room(r)
<1>5. /\ pc[r] \in {"start", "open"} => CallsLeft(r) = MaxEmptyPolls * (room + 1)
      /\ pc[r] = "poll" => CallsLeft(r) = MaxEmptyPolls * room + (MaxEmptyPolls - emptyPolls[r])
      /\ pc[r] \notin {"start", "open", "poll"} => CallsLeft(r) = 0
  BY DEF CallsLeft, Room
<1> HIDE DEF room
<1>6. room \in Nat
  BY <1>3 DEF room
<1>7. MaxEmptyPolls * room \in Nat /\ MaxEmptyPolls * (room + 1) = MaxEmptyPolls * room + MaxEmptyPolls
  BY <1>4, <1>6, Products
<1> DEFINE product == MaxEmptyPolls * room
<1>8. /\ product \in Nat
      /\ pc[r] \in {"start", "open"} => CallsLeft(r) = product + MaxEmptyPolls
      /\ pc[r] = "poll" => CallsLeft(r) = product + (MaxEmptyPolls - emptyPolls[r])
  BY <1>5, <1>7
<1> HIDE DEF product
<1>9. CallsLeft(r) \in Nat
  BY <1>4, <1>5, <1>8
<1> QED
  BY <1>4, <1>5, <1>6, <1>8, <1>9 DEF CallsFacts, product, room

(* The counts of empty answers of the other runs stay.                     *)
LEMMA CountsOfOthers ==
  ASSUME BoundsInv, PollTypes, NEW r \in Runs, Step(r) \/ Failure(r)
  PROVE  \A q \in Runs \ {r} : emptyPolls'[q] = emptyPolls[q]
<1>1. emptyPolls \in [Runs -> 0..MaxEmptyPolls]
  BY DEF BoundsInv
<1>2. CASE OpenIterator(r) \/ \E count \in 0..ShardCapacity : GetRecords(r, count)
  BY <1>1, <1>2 DEF OpenIterator, GetRecords
<1>3. CASE ListShards(r) \/ LeaveShard(r) \/ StampFiles(r) \/ Fail(r)
           \/ (\E count \in 0..ShardCapacity : DecodeFails(r, count))
  BY <1>3 DEF ListShards, LeaveShard, StampFiles, Fail, DecodeFails, locals
<1>4. CASE \E kind \in FileKinds : OpenFile(r, kind) \/ WriteFile(r, kind) \/ FailWriting(r, kind)
  BY <1>4, WritersMove
<1> QED
  BY <1>2, <1>3, <1>4 DEF Step, Failure

(* Every get_records call uses up one of the calls that are left.          *)
LEMMA CallUsed ==
  ASSUME PollInv, BoundsInv, NEW r \in Runs, CallsFacts(r), CallsFacts(r)',
         NEW count \in 0..ShardCapacity, GetRecords(r, count)
  PROVE  CallsLeft(r)' < CallsLeft(r)
<1>1. PollTypes /\ count \in Nat
  BY DEF PollInv, ConsumerAssumption
<1>2. /\ pc[r] = "poll" /\ pc'[r] = "poll" /\ turn' = turn /\ emptyPolls[r] < MaxEmptyPolls
      /\ batch'[r] = batch[r] \o Fetched(r, count)
      /\ emptyPolls'[r] = IF count = 0 THEN emptyPolls[r] + 1 ELSE 0
  BY <1>1 DEF GetRecords, KeepsPolling, PollTypes, BoundsInv
<1>3. Len(batch'[r]) = Len(batch[r]) + count
  <2>1. /\ Shard(r) \in Shards /\ batch[r] \in Seq(Shards \X Nat) /\ iterator[r] \in Nat
        /\ iterator[r] > 0
    BY <1>1, RunFacts DEF GetRecords, KeepsPolling, NoIterator
  <2>2. batch'[r] = batch[r] \o [k \in 1..count |-> <<Shard(r), iterator[r] + k - 1>>]
    BY <1>2 DEF Fetched
  <2> DEFINE s == Shard(r)
             from == iterator[r]
             old == batch[r]
             new == batch'[r]
  <2>3. /\ s \in Shards /\ old \in Seq(Shards \X Nat) /\ from \in Nat /\ from > 0
        /\ new = old \o [k \in 1..count |-> <<s, from + k - 1>>]
    BY <2>1, <2>2
  <2> HIDE DEF s, from, old, new
  <2>4. Len(new) = Len(old) + count
    BY <1>1, <2>3, FetchedAppended
  <2> QED
    BY <2>4 DEF old, new
<1>4. /\ Room(r) \in Nat /\ Room(r)' \in Nat /\ emptyPolls[r] \in 0..MaxEmptyPolls
      /\ CallsLeft(r) = MaxEmptyPolls * Room(r) + (MaxEmptyPolls - emptyPolls[r])
      /\ CallsLeft(r)' = MaxEmptyPolls * Room(r)' + (MaxEmptyPolls - emptyPolls'[r])
  BY <1>2 DEF CallsFacts
<1>5. MaxEmptyPolls \in Nat /\ MaxRecords \in Nat
  BY ConsumerAssumption DEF ConsumerAssumption
<1>6. Room(r)' = Room(r) - count
  <2>1. Len(batch[r]) \in Nat /\ turn[r] \in Nat /\ Len(ShardList) \in Nat
    BY <1>1, RunFacts, ShardListFacts
  <2> DEFINE len == Len(batch[r])
             new == Len(batch'[r])
             size == Len(ShardList)
             at == turn[r]
  <2>2. Room(r) = MaxRecords - len + size - at
    BY DEF Room
  <2>3. Room(r)' = MaxRecords - new + size - at
    BY <1>2 DEF Room
  <2>4. len \in Nat /\ at \in Nat /\ size \in Nat /\ new = len + count
    BY <1>3, <2>1
  <2> HIDE DEF len, new, size, at
  <2> QED
    BY <1>1, <1>5, <2>2, <2>3, <2>4
<1> DEFINE m == MaxEmptyPolls
           a == Room(r)
           b == Room(r)'
           e == emptyPolls[r]
<1>7. /\ m \in Nat /\ a \in Nat /\ b \in Nat /\ e \in 0..m /\ e < m /\ b = a - count
      /\ CallsLeft(r) = m * a + (m - e)
      /\ CallsLeft(r)' = m * b + (m - (IF count = 0 THEN e + 1 ELSE 0))
  BY <1>2, <1>4, <1>5, <1>6
<1> HIDE DEF m, a, b, e
<1>8. CASE count = 0
  <2>1. b = a /\ m * a \in Nat
    BY <1>7, <1>8, Products
  <2> QED
    BY <1>7, <1>8, <2>1
<1>9. CASE count # 0
  <2>1. b < a
    BY <1>1, <1>7, <1>9
  <2>2. m * b + m <= m * a /\ m * a \in Nat /\ m * b \in Nat
    BY <1>7, <2>1, Products
  <2> DEFINE ma == m * a
             mb == m * b
  <2>3. /\ ma \in Nat /\ mb \in Nat /\ mb + m <= ma
        /\ CallsLeft(r) = ma + (m - e) /\ CallsLeft(r)' = mb + (m - 0)
    BY <1>7, <1>9, <2>2
  <2> HIDE DEF ma, mb
  <2> QED
    BY <1>7, <2>3
<1> QED
  BY <1>8, <1>9

(* Nothing else adds to them.                                              *)
LEMMA CallsNeverAdded ==
  ASSUME PollInv, BoundsInv, [Next]_vars, NEW r \in Runs,
         CallsFacts(r), CallsFacts(r)'
  PROVE  CallsLeft(r)' <= CallsLeft(r)
<1>1. PollTypes
  BY DEF PollInv
<1>2. CallsLeft(r) \in Nat /\ CallsLeft(r)' \in Nat /\ MaxEmptyPolls \in Nat
  BY ConsumerAssumption DEF CallsFacts, ConsumerAssumption
<1>3. ASSUME pc'[r] \notin {"start", "open", "poll"} PROVE CallsLeft(r)' <= CallsLeft(r)
  <2>1. CallsLeft(r)' = 0
    BY <1>3 DEF CallsFacts
  <2> QED
    BY <1>2, <2>1
<1>4. ASSUME batch'[r] = batch[r], turn'[r] = turn[r], emptyPolls'[r] = emptyPolls[r],
             pc'[r] = pc[r] \/ (pc[r] = "start" /\ pc'[r] = "open")
      PROVE  CallsLeft(r)' <= CallsLeft(r)
  <2>1. CallsLeft(r)' = CallsLeft(r)
    BY <1>4 DEF CallsLeft
  <2> QED
    BY <1>2, <2>1
<1> DEFINE m == MaxEmptyPolls
           a == Room(r)
           b == Room(r)'
<1>5. CASE OpenIterator(r)
  <2>1. pc[r] = "open" /\ pc'[r] = "poll" /\ emptyPolls'[r] = 0 /\ b = a
    BY <1>1, <1>5 DEF OpenIterator, Go, PollTypes, BoundsInv, Room
  <2>2. CallsLeft(r) = m * a + m /\ a \in Nat /\ m \in Nat
    BY <1>2, <2>1 DEF CallsFacts
  <2>3. CallsLeft(r)' = m * b + (m - emptyPolls'[r])
    BY <2>1 DEF CallsFacts
  <2>4. CallsLeft(r)' = m * a + (m - 0)
    BY <2>1, <2>3
  <2> HIDE DEF m, a, b
  <2>5. m * a \in Nat
    BY <2>2, Products
  <2> DEFINE ma == m * a
  <2>6. ma \in Nat /\ m \in Nat /\ CallsLeft(r) = ma + m /\ CallsLeft(r)' = ma + (m - 0)
    BY <2>2, <2>4, <2>5
  <2> HIDE DEF ma
  <2> QED
    BY <2>6
<1>6. CASE LeaveShard(r)
  <2>1. pc[r] = "poll" /\ batch' = batch /\ pc'[r] \in {"stamp", "open"}
        /\ (pc'[r] = "open" => turn'[r] = turn[r] + 1)
    BY <1>1, <1>6 DEF LeaveShard, Go, PollTypes
  <2>2. CASE pc'[r] = "open"
    <3>1. b + 1 = a
      <4>1. Len(batch[r]) \in Nat /\ turn[r] \in Nat /\ Len(ShardList) \in Nat /\ MaxRecords \in Nat
        BY <1>1, RunFacts, ShardListFacts, ConsumerAssumption DEF ConsumerAssumption
      <4> DEFINE len == Len(batch[r])
                 size == Len(ShardList)
                 at == turn[r]
                 next == turn'[r]
      <4>2. a = MaxRecords - len + size - at
        BY DEF Room
      <4>3. b = MaxRecords - len + size - next
        BY <2>1 DEF Room
      <4>4. len \in Nat /\ at \in Nat /\ size \in Nat /\ next = at + 1
        BY <2>1, <2>2, <4>1
      <4> HIDE DEF len, size, at, next, a, b
      <4> QED
        BY <4>1, <4>2, <4>3, <4>4
    <3>2. /\ a \in Nat /\ m \in Nat /\ emptyPolls[r] \in 0..m
          /\ CallsLeft(r) = m * a + (m - emptyPolls[r])
      BY <1>2, <2>1 DEF CallsFacts
    <3>3. b \in Nat
      BY DEF CallsFacts
    <3>4. CallsLeft(r)' = m * b + m
      BY <2>2 DEF CallsFacts
    <3> HIDE DEF a, b, m
    <3>5. m * b + m <= m * a /\ m * a \in Nat /\ m * b \in Nat
      BY <3>1, <3>2, <3>3, Products
    <3> DEFINE ma == m * a
               mb == m * b
    <3>6. /\ ma \in Nat /\ mb \in Nat /\ mb + m <= ma
          /\ CallsLeft(r) = ma + (m - emptyPolls[r]) /\ CallsLeft(r)' = mb + m
      BY <3>2, <3>4, <3>5
    <3> HIDE DEF ma, mb
    <3> QED
      BY <3>2, <3>6
  <2> QED
    BY <1>3, <2>1, <2>2
<1>7. ASSUME NEW count \in 0..ShardCapacity, GetRecords(r, count) PROVE CallsLeft(r)' <= CallsLeft(r)
  BY <1>2, <1>7, CallUsed
<1>8. CASE ListShards(r)
  BY <1>1, <1>4, <1>8 DEF ListShards, Go, PollTypes, locals
<1>9. CASE StampFiles(r) \/ Fail(r) \/ (\E count \in 0..ShardCapacity : DecodeFails(r, count))
           \/ (\E kind \in FileKinds :
                 OpenFile(r, kind) \/ WriteFile(r, kind) \/ FailWriting(r, kind))
  <2>1. pc'[r] \notin {"start", "open", "poll"}
    BY <1>1, <1>9, WritersMove DEF StampFiles, Fail, DecodeFails, Go, PollTypes
  <2> QED
    BY <1>3, <2>1
<1>10. ASSUME NEW q \in Runs \ {r}, Step(q) \/ Failure(q) PROVE CallsLeft(r)' <= CallsLeft(r)
  <2>1. OnlyRun(q) /\ emptyPolls'[r] = emptyPolls[r]
    BY <1>1, <1>10, StepsOneRun, CountsOfOthers
  <2> QED
    BY <1>4, <2>1 DEF OnlyRun
<1>11. CASE Environment \/ Finished \/ UNCHANGED vars
  <2>1. UNCHANGED <<pc, batch, turn, emptyPolls>>
    BY <1>11 DEF Environment, Finished, vars, Seal, Arrive, Tick, locals
  <2> QED
    BY <1>4, <2>1
<1> QED
  BY <1>5, <1>6, <1>7, <1>8, <1>9, <1>10, <1>11 DEF Next, Step, Failure

(* Polling runs out, whatever arrives and however much: the calls left to  *)
(* a run are a number that every call of it lowers and that nothing raises.*)
THEOREM PollingBounded == Spec => PollingRunsOut
<1>1. Init => PollInv /\ BoundsInv
  <2>1. Init => BoundsInv
    BY DEF Init, BoundsInv, ConsumerAssumption
  <2> QED
    BY <2>1, InitPollInv
<1>2. PollInv /\ BoundsInv /\ [Next]_vars => PollInv' /\ BoundsInv'
  BY PollInvKept, CapacityKept, EmptyPollsKept, SealedKept DEF PollInv, BoundsInv
<1>3. (PollInv /\ BoundsInv /\ \A r \in Runs : CallsFacts(r)) /\ [Next]_vars
      /\ (PollInv /\ BoundsInv /\ \A r \in Runs : CallsFacts(r))' =>
        [\A r \in Runs :
           /\ CallsLeft(r)' \in Nat /\ CallsLeft(r)' <= CallsLeft(r)
           /\ (\E count \in 0..ShardCapacity : GetRecords(r, count)) =>
                CallsLeft(r)' < CallsLeft(r)]_vars
  <2> SUFFICES ASSUME PollInv, BoundsInv, \A q \in Runs : CallsFacts(q), [Next]_vars,
                      (\A q \in Runs : CallsFacts(q))', NEW r \in Runs
               PROVE  /\ CallsLeft(r)' \in Nat /\ CallsLeft(r)' <= CallsLeft(r)
                      /\ (\E count \in 0..ShardCapacity : GetRecords(r, count)) =>
                           CallsLeft(r)' < CallsLeft(r)
    OBVIOUS
  <2>1. CallsFacts(r) /\ CallsFacts(r)'
    OBVIOUS
  <2>2. CallsLeft(r)' \in Nat
    BY <2>1 DEF CallsFacts
  <2> QED
    BY <2>1, <2>2, CallsNeverAdded, CallUsed
<1> QED
  BY <1>1, <1>2, <1>3, CallsLeftIs, PTL DEF Spec, PollingRunsOut

=============================================================================
