--------------------- MODULE StreamingForeachBatch_proofs ---------------------
(***************************************************************************)
(* Proofs that a batch which is run again loses nothing, repeats a row     *)
(* once for each crash at most, gives no event two verdicts that did not   *)
(* come in one batch, and keeps the facts behind the silver tables, for    *)
(* any stream, any cut into batches and any number of crashes.             *)
(***************************************************************************)
EXTENDS StreamingForeachBatch, WellFoundedInduction, TLAPS

-----------------------------------------------------------------------------
(* The inductive invariant.                                                *)

TypeInv ==
  /\ source \in [Positions -> Events]
  /\ committed \in Nat /\ planned \in Nat /\ committed <= planned /\ planned <= NEvents
  /\ seen \subseteq Ids
  /\ pc \in {"idle", "batch", "down"} /\ step \in 1..8 /\ crashes \in Nat
  /\ rows \in [Tables -> SUBSET Positions] /\ copies \in [Tables -> [Ids -> Nat]]
  /\ batchEnd \in [Positions -> Nat]

(* The records of the batch in hand have its end; one with nothing left of *)
(* it is not written.                                                      *)
BatchInv ==
  /\ \A i \in BatchPositions : batchEnd[i] = planned
  /\ pc = "batch" /\ Fresh = {} => step = 1

(* The tables this run of the batch has been appended to.                  *)
WrittenNow(t) == pc = "batch" /\ \E k \in 1..(step - 1) : WriteOrder[k] = t

(* A record that is done was late or its id is remembered, and what is     *)
(* remembered, or appended by this run, is in the tables.                  *)
LandInv ==
  /\ \A i \in 1..committed : i \in late \/ source[i].id \in seen
  /\ \A i \in Positions, t \in Tables :
       /\ Alike(i) /\ Belongs(t, source[i].row)
       /\ source[i].id \in seen \/ (source[i].id \in IdsOf(Fresh) /\ WrittenNow(t))
       => copies[t][source[i].id] >= 1

(* An id that is not remembered yet has a row for each run of the batch    *)
(* that was cut off by a crash, and one of the run that is not over; an id *)
(* of no batch has none.                                                   *)
CountInv ==
  \A t \in Tables, id \in Ids :
    /\ copies[t][id] <= crashes + 1
    /\ id \notin seen /\ ~WrittenNow(t) => copies[t][id] <= crashes
    /\ id \notin seen \cup IdsOf(Fresh) => copies[t][id] = 0

(* A row whose id is not remembered was made from the batch in hand, and   *)
(* the rows of an id come from one batch.                                  *)
VerdictInv ==
  /\ \A t \in Tables : \A i \in rows[t] :
       i <= planned /\ (source[i].id \in seen \/ i \in Fresh)
  /\ \A t, u \in Tables : \A i \in rows[t], j \in rows[u] :
       source[i].id = source[j].id => batchEnd[i] = batchEnd[j]

(* Between the append to a silver table and that to its facts, three       *)
(* writes later, the silver table is one row ahead.                        *)
Ahead(k, i) ==
  /\ pc = "batch" /\ k < step /\ step <= k + 3
  /\ source[i].id \in IdsOf(Fresh) /\ Belongs(WriteOrder[k], source[i].row)

FollowInv ==
  \A k \in 2..4 : \A i \in Positions :
    Alike(i) =>
      LET silver == copies[WriteOrder[k]][source[i].id]
          facts == copies[WriteOrder[k + 3]][source[i].id]
      IN /\ facts <= silver
         /\ Ahead(k, i) => facts + 1 <= silver /\ silver <= facts + crashes + 1
         /\ ~Ahead(k, i) => silver <= facts + crashes

BatchesInv == TypeInv /\ BatchInv /\ LandInv /\ CountInv /\ VerdictInv /\ FollowInv

-----------------------------------------------------------------------------
(* The records of the batch in hand that may be written.                   *)
LEMMA FreshFacts ==
  ASSUME TypeInv
  PROVE  /\ BatchPositions \subseteq Positions /\ Fresh \subseteq BatchPositions
         /\ IdsOf(Fresh) \subseteq Ids
         /\ \A i \in Fresh : source[i].id \in IdsOf(Fresh) /\ source[i].id \notin seen
         /\ \A id \in IdsOf(Fresh) : id \notin seen /\ \E i \in Fresh : source[i].id = id
         /\ planned = committed => Fresh = {}
<1>1. BatchPositions \subseteq Positions /\ (planned = committed => BatchPositions = {})
  BY ForeachBatchAssumption DEF TypeInv, BatchPositions, Positions
<1>2. Fresh \subseteq BatchPositions /\ \A i \in Fresh : source[i].id \notin seen
  BY DEF Fresh, OnTime
<1>3. \A i \in Positions : source[i].id \in Ids
  BY DEF TypeInv, Events
<1> QED
  BY <1>1, <1>2, <1>3 DEF IdsOf

(* The same checkpoint gives the same batch.                               *)
LEMMA SameBatch ==
  ASSUME UNCHANGED <<source, checkpoint>>
  PROVE  /\ BatchPositions' = BatchPositions /\ Fresh' = Fresh /\ IdsOf(Fresh)' = IdsOf(Fresh)
         /\ \A i : Alike(i)' <=> Alike(i)
<1>1. BatchPositions' = BatchPositions
  BY DEF checkpoint, BatchPositions
<1>2. Fresh' = Fresh
  BY <1>1 DEF checkpoint, Fresh, OnTime
<1> QED
  BY <1>1, <1>2 DEF IdsOf, Alike, SameId

(* The seven writes are to seven tables.                                   *)
LEMMA Orders ==
  /\ Len(WriteOrder) = 7 /\ \A k \in 1..7 : WriteOrder[k] \in Tables
  /\ \A t \in Tables : \E k \in 1..7 : WriteOrder[k] = t
  /\ \A j, k \in 1..7 : WriteOrder[j] = WriteOrder[k] => j = k
BY DEF WriteOrder, Tables, ToSet

(* The facts are appended from the frame of their silver table.            *)
LEMMA SilverAndFacts ==
  /\ WriteOrder[2] = "silver_transactions" /\ WriteOrder[5] = "fact_transaction"
  /\ WriteOrder[3] = "silver_payments" /\ WriteOrder[6] = "fact_payment"
  /\ WriteOrder[4] = "silver_trades" /\ WriteOrder[7] = "fact_trade"
  /\ \A k \in 2..4 : \A row : Belongs(WriteOrder[k + 3], row) <=> Belongs(WriteOrder[k], row)
<1>1. /\ WriteOrder[2] = "silver_transactions" /\ WriteOrder[5] = "fact_transaction"
      /\ WriteOrder[3] = "silver_payments" /\ WriteOrder[6] = "fact_payment"
      /\ WriteOrder[4] = "silver_trades" /\ WriteOrder[7] = "fact_trade"
  BY DEF WriteOrder
<1>2. ASSUME NEW row
      PROVE  /\ Belongs("fact_transaction", row) <=> Belongs("silver_transactions", row)
             /\ Belongs("fact_payment", row) <=> Belongs("silver_payments", row)
             /\ Belongs("fact_trade", row) <=> Belongs("silver_trades", row)
  BY DEF Belongs
<1>3. ASSUME NEW k \in 2..4, NEW row
      PROVE  Belongs(WriteOrder[k + 3], row) <=> Belongs(WriteOrder[k], row)
  <2>1. CASE k = 2
    BY <1>1, <1>2, <2>1
  <2>2. CASE k = 3
    BY <1>1, <1>2, <2>2
  <2>3. CASE k = 4
    BY <1>1, <1>2, <2>3
  <2> QED
    BY <2>1, <2>2, <2>3
<1> QED
  BY <1>1, <1>3

(* A run of the batch that is cut off by a crash, the restart, and a run   *)
(* that begins anew leave everything but the count of the crashes.         *)
LEMMA RerunKeeps ==
  ASSUME BatchesInv, UNCHANGED <<source, checkpoint, tables, batchEnd, late>>,
         pc' \in {"idle", "batch", "down"}, step' \in 1..8, pc' = "batch" => step' = 1,
         crashes' \in {crashes, crashes + 1}, pc = "batch" => crashes' = crashes + 1
  PROVE  BatchesInv'
<1>1. /\ BatchPositions' = BatchPositions /\ Fresh' = Fresh /\ IdsOf(Fresh)' = IdsOf(Fresh)
      /\ \A i : Alike(i)' <=> Alike(i)
  BY SameBatch
<1>2. /\ \A t : ~WrittenNow(t)'
      /\ \A k \in 2..4 : \A i : ~Ahead(k, i)'
  <2>1. pc' = "batch" => (\A k \in 1..(step' - 1) : FALSE) /\ (\A k \in 2..4 : ~(k < step'))
    OBVIOUS
  <2> QED
    BY <2>1 DEF WrittenNow, Ahead
<1>3. /\ UNCHANGED <<source, committed, planned, seen, rows, copies, batchEnd, late>>
      /\ crashes' \in Nat /\ crashes <= crashes' /\ crashes \in Nat
  BY DEF checkpoint, tables, BatchesInv, TypeInv
<1>4. TypeInv'
  BY <1>3 DEF BatchesInv, TypeInv
<1>5. BatchInv'
  BY <1>1, <1>3 DEF BatchesInv, BatchInv
<1>6. LandInv'
  BY <1>1, <1>2, <1>3 DEF BatchesInv, LandInv
<1>7. CountInv'
  <2> SUFFICES ASSUME NEW t \in Tables, NEW id \in Ids
               PROVE  /\ copies[t][id] <= crashes' + 1
                      /\ id \notin seen => copies[t][id] <= crashes'
                      /\ id \notin seen \cup IdsOf(Fresh) => copies[t][id] = 0
    BY <1>1, <1>3 DEF CountInv
  <2>1. copies[t][id] \in Nat
    BY DEF BatchesInv, TypeInv
  <2>2. /\ copies[t][id] <= crashes + 1
        /\ id \notin seen /\ ~WrittenNow(t) => copies[t][id] <= crashes
        /\ id \notin seen \cup IdsOf(Fresh) => copies[t][id] = 0
    BY DEF BatchesInv, CountInv
  <2>3. pc # "batch" => ~WrittenNow(t)
    BY DEF WrittenNow
  <2> QED
    BY <1>3, <2>1, <2>2, <2>3
<1>8. VerdictInv'
  BY <1>1, <1>3 DEF BatchesInv, VerdictInv
<1>9. FollowInv'
  <2> SUFFICES ASSUME NEW k \in 2..4, NEW i \in Positions, Alike(i)
               PROVE  LET silver == copies[WriteOrder[k]][source[i].id]
                          facts == copies[WriteOrder[k + 3]][source[i].id]
                      IN facts <= silver /\ silver <= facts + crashes'
    BY <1>1, <1>2, <1>3 DEF FollowInv, Positions
  <2> DEFINE silver == copies[WriteOrder[k]][source[i].id]
             facts == copies[WriteOrder[k + 3]][source[i].id]
  <2>1. silver \in Nat /\ facts \in Nat
    <3>1. WriteOrder[k] \in Tables /\ WriteOrder[k + 3] \in Tables
      BY Orders
    <3>2. source[i].id \in Ids
      BY DEF BatchesInv, TypeInv, Events
    <3> QED
      BY <3>1, <3>2 DEF BatchesInv, TypeInv
  <2>2. /\ facts <= silver
        /\ Ahead(k, i) => silver <= facts + crashes + 1
        /\ ~Ahead(k, i) => silver <= facts + crashes
    BY DEF BatchesInv, FollowInv
  <2>3. Ahead(k, i) => crashes' = crashes + 1
    BY DEF Ahead
  <2> HIDE DEF silver, facts
  <2>4. CASE Ahead(k, i)
    <3>1. facts <= silver /\ silver <= facts + crashes + 1 /\ crashes' = crashes + 1
      BY <2>2, <2>3, <2>4
    <3>2. facts <= silver /\ silver <= facts + crashes'
      BY <1>3, <2>1, <3>1
    <3> QED
      BY <3>2 DEF silver, facts
  <2>5. CASE ~Ahead(k, i)
    <3>1. facts <= silver /\ silver <= facts + crashes
      BY <2>2, <2>5
    <3> QED
      BY <1>3, <2>1, <3>1 DEF silver, facts
  <2> QED
    BY <2>4, <2>5
<1> QED
  BY <1>4, <1>5, <1>6, <1>7, <1>8, <1>9 DEF BatchesInv

(* A new batch is of records not written before.                           *)
LEMMA PlanKeeps ==
  ASSUME BatchesInv, NEW end \in Positions, PlanBatch(end)
  PROVE  BatchesInv'
<1>1. /\ pc = "idle" /\ planned = committed /\ committed < end /\ planned' = end
      /\ batchEnd' = [i \in Positions |-> IF i \in (committed + 1)..end THEN end ELSE batchEnd[i]]
      /\ pc' = "batch" /\ step' = 1
      /\ UNCHANGED <<source, committed, seen, rows, copies, crashes, late>>
  BY DEF PlanBatch, tables
<1>2. Fresh = {} /\ IdsOf(Fresh) = {}
  BY <1>1, FreshFacts DEF BatchesInv, IdsOf
<1>3. /\ \A t : ~WrittenNow(t) /\ ~WrittenNow(t)'
      /\ \A k \in 2..4 : \A i : ~Ahead(k, i) /\ ~Ahead(k, i)'
  BY <1>1 DEF WrittenNow, Ahead
<1>4. \A i : Alike(i)' <=> Alike(i)
  BY <1>1 DEF Alike, SameId
<1>5. committed \in Nat /\ end \in Nat /\ end <= NEvents
  BY ForeachBatchAssumption DEF BatchesInv, TypeInv, Positions
<1>6. TypeInv'
  <2>1. batchEnd' \in [Positions -> Nat]
    BY <1>1, <1>5 DEF BatchesInv, TypeInv
  <2> QED
    BY <1>1, <1>5, <2>1 DEF BatchesInv, TypeInv
<1>7. BatchInv'
  BY <1>1, <1>5, ForeachBatchAssumption DEF BatchInv, BatchPositions, Positions
<1>8. LandInv'
  BY <1>1, <1>3, <1>4 DEF BatchesInv, LandInv
<1>9. CountInv'
  BY <1>1, <1>2, <1>3 DEF BatchesInv, CountInv
<1>10. VerdictInv'
  <2>1. \A t \in Tables : \A i \in rows[t] :
          i \in Positions /\ i <= committed /\ source[i].id \in seen
    BY <1>1, <1>2 DEF BatchesInv, TypeInv, VerdictInv
  <2>2. \A t \in Tables : \A i \in rows[t] : batchEnd'[i] = batchEnd[i] /\ i <= planned'
    BY <1>1, <1>5, <2>1 DEF Positions
  <2> QED
    BY <1>1, <2>1, <2>2 DEF BatchesInv, VerdictInv
<1>11. FollowInv'
  BY <1>1, <1>3, <1>4 DEF BatchesInv, FollowInv
<1> QED
  BY <1>6, <1>7, <1>8, <1>9, <1>10, <1>11 DEF BatchesInv

(* The batch that is committed has been written whole, or is empty.        *)
LEMMA CommitKeeps ==
  ASSUME BatchesInv, CommitBatch
  PROVE  BatchesInv'
<1>1. /\ pc = "batch" /\ (step > 7 \/ Fresh = {}) /\ committed' = planned
      /\ seen' = seen \cup IdsOf(Fresh)
      /\ late' = late \cup (BatchPositions \ OnTime) /\ pc' = "idle"
      /\ UNCHANGED <<source, planned, step, rows, copies, crashes, batchEnd>>
  BY Orders DEF CommitBatch, Written, Remembered, tables
<1>2. TypeInv'
  BY <1>1, FreshFacts DEF BatchesInv, TypeInv
<1>3. Fresh' = {} /\ IdsOf(Fresh)' = {}
  <2>1. Fresh' = {}
    <3>1. BatchPositions' = {}
      BY <1>1, <1>2 DEF TypeInv, BatchPositions
    <3> QED
      BY <3>1 DEF Fresh, OnTime
  <2> QED
    BY <2>1 DEF IdsOf
<1>4. /\ \A t : ~WrittenNow(t)'
      /\ \A k \in 2..4 : \A i : ~Ahead(k, i) /\ ~Ahead(k, i)'
  <2>1. \A k \in 2..4 : ~(k < step /\ step <= k + 3)
    BY <1>1 DEF BatchesInv, BatchInv, TypeInv
  <2> QED
    BY <1>1, <2>1 DEF WrittenNow, Ahead
<1>5. \A i : Alike(i)' <=> Alike(i)
  BY <1>1 DEF Alike, SameId
<1>6. \A t \in Tables : IdsOf(Fresh) # {} => WrittenNow(t)
  <2> SUFFICES ASSUME NEW t \in Tables, IdsOf(Fresh) # {} PROVE WrittenNow(t)
    OBVIOUS
  <2>1. step > 7 /\ step \in Nat
    BY <1>1 DEF BatchesInv, TypeInv, IdsOf
  <2>2. PICK k \in 1..7 : WriteOrder[k] = t
    BY Orders
  <2> QED
    BY <1>1, <2>1, <2>2 DEF WrittenNow
<1>7. BatchInv'
  BY <1>1, <1>2 DEF BatchInv, BatchPositions, TypeInv
<1>8. LandInv'
  <2>1. ASSUME NEW i \in 1..committed' PROVE i \in late' \/ source'[i].id \in seen'
    <3>1. CASE i \in 1..committed
      BY <1>1, <3>1 DEF BatchesInv, LandInv
    <3>2. CASE i \notin 1..committed
      <4>1. i \in BatchPositions
        BY <1>1, <2>1, <3>2 DEF BatchesInv, TypeInv, BatchPositions
      <4>2. i \in OnTime => source[i].id \in seen \/ i \in Fresh
        BY DEF Fresh
      <4>3. i \in Fresh => source[i].id \in IdsOf(Fresh)
        BY DEF IdsOf
      <4> QED
        BY <1>1, <4>1, <4>2, <4>3
    <3> QED
      BY <3>1, <3>2
  <2>2. ASSUME NEW i \in Positions, NEW t \in Tables, Alike(i), Belongs(t, source[i].row),
               source[i].id \in seen'
        PROVE  copies[t][source[i].id] >= 1
    BY <1>1, <1>6, <2>2 DEF BatchesInv, LandInv
  <2> QED
    BY <1>1, <1>3, <1>4, <1>5, <2>1, <2>2 DEF LandInv, Positions
<1>9. CountInv'
  <2> SUFFICES ASSUME NEW t \in Tables, NEW id \in Ids
               PROVE  /\ copies[t][id] <= crashes + 1
                      /\ id \notin seen \cup IdsOf(Fresh) => copies[t][id] <= crashes /\ copies[t][id] = 0
    BY <1>1, <1>3 DEF CountInv
  <2>1. /\ copies[t][id] <= crashes + 1
        /\ id \notin seen \cup IdsOf(Fresh) => copies[t][id] = 0
    BY DEF BatchesInv, CountInv
  <2> QED
    BY <2>1 DEF BatchesInv, TypeInv
<1>10. VerdictInv'
  <2>1. \A i \in Fresh : source[i].id \in IdsOf(Fresh)
    BY DEF IdsOf
  <2> QED
    BY <1>1, <2>1 DEF BatchesInv, VerdictInv
<1>11. FollowInv'
  BY <1>1, <1>4, <1>5 DEF BatchesInv, FollowInv
<1> QED
  BY <1>2, <1>7, <1>8, <1>9, <1>10, <1>11 DEF BatchesInv

(* What one append changes, and to which ids it adds a row.                *)
LEMMA WriteFacts ==
  ASSUME BatchesInv, WriteTable
  PROVE  \E added \in SUBSET Fresh :
           LET table == WriteOrder[step] IN
           /\ pc = "batch" /\ step \in 1..7 /\ table \in Tables /\ Fresh # {}
           /\ rows' = [rows EXCEPT ![table] = @ \cup added]
           /\ copies' = [copies EXCEPT ![table] =
                [id \in Ids |-> @[id] + IF id \in IdsOf(added) THEN 1 ELSE 0]]
           /\ step' = step + 1
           /\ UNCHANGED <<source, checkpoint, pc, crashes, batchEnd, late>>
           /\ \A i \in added : Belongs(table, source[i].row)
           /\ \A id \in IdsOf(Fresh) \ IdsOf(added) :
                \E j \in Fresh : source[j].id = id /\ ~Belongs(table, source[j].row)
<1> DEFINE table == WriteOrder[step]
<1>1. pc = "batch" /\ step \in 1..7 /\ table \in Tables /\ Fresh # {}
  BY Orders DEF WriteTable, BatchesInv, TypeInv
<1>2. PICK kept \in Deduplicated :
        /\ rows' = [rows EXCEPT ![table] = @ \cup Appended(table, kept)]
        /\ copies' = [copies EXCEPT ![table] =
             [id \in Ids |-> @[id] + IF id \in IdsOf(Appended(table, kept)) THEN 1 ELSE 0]]
  BY DEF WriteTable
<1>3. step' = step + 1 /\ UNCHANGED <<source, checkpoint, pc, crashes, batchEnd, late>>
  BY DEF WriteTable
<1>4. kept \subseteq Fresh /\ IdsOf(kept) = IdsOf(Fresh)
  BY DEF Deduplicated
<1>5. /\ Appended(table, kept) \in SUBSET Fresh
      /\ \A i \in Appended(table, kept) : Belongs(table, source[i].row)
  BY <1>4 DEF Appended
<1>6. ASSUME NEW id \in IdsOf(Fresh), id \notin IdsOf(Appended(table, kept))
      PROVE  \E j \in Fresh : source[j].id = id /\ ~Belongs(table, source[j].row)
  <2>1. PICK j \in kept : source[j].id = id
    BY <1>4 DEF IdsOf
  <2>2. ~Belongs(table, source[j].row)
    BY <1>6, <2>1 DEF Appended, IdsOf
  <2> QED
    BY <1>4, <2>1, <2>2
<1> QED
  BY <1>1, <1>2, <1>3, <1>5, <1>6

(* An append of the batch in hand.                                         *)
LEMMA WriteKeeps ==
  ASSUME BatchesInv, WriteTable
  PROVE  BatchesInv'
<1> DEFINE table == WriteOrder[step]
<1>1. PICK added \in SUBSET Fresh :
        /\ pc = "batch" /\ step \in 1..7 /\ table \in Tables /\ Fresh # {}
        /\ rows' = [rows EXCEPT ![table] = @ \cup added]
        /\ copies' = [copies EXCEPT ![table] =
             [id \in Ids |-> @[id] + IF id \in IdsOf(added) THEN 1 ELSE 0]]
        /\ step' = step + 1
        /\ UNCHANGED <<source, checkpoint, pc, crashes, batchEnd, late>>
        /\ \A i \in added : Belongs(table, source[i].row)
        /\ \A id \in IdsOf(Fresh) \ IdsOf(added) :
             \E j \in Fresh : source[j].id = id /\ ~Belongs(table, source[j].row)
  BY WriteFacts
<1> HIDE DEF table
<1>2. /\ BatchPositions' = BatchPositions /\ Fresh' = Fresh /\ IdsOf(Fresh)' = IdsOf(Fresh)
      /\ \A i : Alike(i)' <=> Alike(i)
  BY <1>1, SameBatch
<1>3. UNCHANGED <<source, committed, planned, seen, pc, crashes, batchEnd, late>>
  BY <1>1 DEF checkpoint
<1>4. /\ Fresh \subseteq BatchPositions /\ BatchPositions \subseteq Positions
      /\ \A i \in Fresh : source[i].id \in IdsOf(Fresh) /\ source[i].id \notin seen
      /\ \A id \in IdsOf(Fresh) : id \notin seen
      /\ IdsOf(added) \subseteq IdsOf(Fresh) /\ IdsOf(Fresh) \subseteq Ids
  BY FreshFacts DEF BatchesInv, IdsOf
<1>5. /\ rows'[table] = rows[table] \cup added
      /\ \A t \in Tables \ {table} : rows'[t] = rows[t]
  BY <1>1 DEF BatchesInv, TypeInv
<1>6. /\ \A t \in Tables, id \in Ids : copies[t][id] \in Nat
      /\ \A t \in Tables \ {table}, id \in Ids : copies'[t][id] = copies[t][id]
      /\ \A id \in Ids \ IdsOf(added) : copies'[table][id] = copies[table][id]
      /\ \A id \in IdsOf(added) : copies'[table][id] = copies[table][id] + 1
  BY <1>1, <1>4 DEF BatchesInv, TypeInv
<1>7. \A t : WrittenNow(t)' <=> WrittenNow(t) \/ t = table
  <2> SUFFICES ASSUME NEW t
               PROVE  (\E k \in 1..(step' - 1) : WriteOrder[k] = t)
                        <=> (\E k \in 1..(step - 1) : WriteOrder[k] = t) \/ t = WriteOrder[step]
    BY <1>1, <1>3 DEF WrittenNow, table
  <2>1. step' - 1 = step /\ step \in Nat
    BY <1>1
  <2>2. \A k : k \in 1..step <=> k \in 1..(step - 1) \/ k = step
    BY <1>1
  <2> QED
    BY <2>1, <2>2
<1>8. ~WrittenNow(table)
  <2>1. ASSUME NEW k \in 1..(step - 1) PROVE WriteOrder[k] # WriteOrder[step]
    <3>1. k \in 1..7 /\ k # step
      BY <1>1
    <3> QED
      BY <1>1, <3>1, Orders
  <2> QED
    BY <2>1 DEF WrittenNow, table
<1>9. ASSUME NEW i \in Positions, Alike(i), source[i].id \in IdsOf(Fresh), Belongs(table, source[i].row)
      PROVE  source[i].id \in IdsOf(added)
  <2>1. SUFFICES ASSUME NEW j \in Fresh, source[j].id = source[i].id, ~Belongs(table, source[j].row)
                 PROVE  FALSE
    BY <1>1, <1>9
  <2>2. source[j].row = source[i].row
    BY <1>4, <1>9, <2>1 DEF Alike, SameId
  <2> QED
    BY <1>9, <2>1, <2>2
<1>10. ASSUME NEW i \in Positions, Alike(i), source[i].id \in IdsOf(added)
       PROVE  Belongs(table, source[i].row)
  <2>1. PICK j \in added : source[j].id = source[i].id
    BY <1>10 DEF IdsOf
  <2>2. source[j].row = source[i].row
    BY <1>1, <1>4, <1>10, <2>1 DEF Alike, SameId
  <2> QED
    BY <1>1, <2>1, <2>2
<1>11. \A i \in Positions : source[i].id \in Ids
  BY DEF BatchesInv, TypeInv, Events
<1>12. TypeInv'
  <2>1. rows' \in [Tables -> SUBSET Positions]
    BY <1>1, <1>4 DEF BatchesInv, TypeInv
  <2>2. copies' \in [Tables -> [Ids -> Nat]]
    BY <1>1 DEF BatchesInv, TypeInv
  <2> QED
    BY <1>1, <1>3, <2>1, <2>2 DEF BatchesInv, TypeInv
<1>13. BatchInv'
  BY <1>1, <1>2, <1>3 DEF BatchesInv, BatchInv
<1>14. LandInv'
  <2> SUFFICES ASSUME NEW i \in Positions, NEW t \in Tables, Alike(i), Belongs(t, source[i].row),
                      source[i].id \in seen \/ (source[i].id \in IdsOf(Fresh) /\ (WrittenNow(t) \/ t = table))
               PROVE  copies'[t][source[i].id] >= 1
    BY <1>2, <1>3, <1>7 DEF BatchesInv, LandInv, Positions
  <2>1. copies'[t][source[i].id] >= copies[t][source[i].id] /\ copies[t][source[i].id] \in Nat
    BY <1>6, <1>11
  <2>2. CASE source[i].id \in seen \/ (source[i].id \in IdsOf(Fresh) /\ WrittenNow(t))
    <3>1. copies[t][source[i].id] >= 1
      BY <2>2 DEF BatchesInv, LandInv
    <3>2. copies'[t][source[i].id] \in Nat
      BY <1>11, <1>12 DEF TypeInv
    <3> QED
      BY <2>1, <3>1, <3>2
  <2>3. CASE source[i].id \in IdsOf(Fresh) /\ t = table
    BY <1>6, <1>9, <1>11, <2>3
  <2> QED
    BY <2>2, <2>3
<1>15. CountInv'
  <2> SUFFICES ASSUME NEW t \in Tables, NEW id \in Ids
               PROVE  /\ copies'[t][id] <= crashes + 1
                      /\ id \notin seen /\ ~(WrittenNow(t) \/ t = table) => copies'[t][id] <= crashes
                      /\ id \notin seen \cup IdsOf(Fresh) => copies'[t][id] = 0
    BY <1>2, <1>3, <1>7 DEF CountInv
  <2>1. /\ copies[t][id] <= crashes + 1
        /\ id \notin seen /\ ~WrittenNow(t) => copies[t][id] <= crashes
        /\ id \notin seen \cup IdsOf(Fresh) => copies[t][id] = 0
    BY DEF BatchesInv, CountInv
  <2>2. CASE t = table /\ id \in IdsOf(added)
    <3>1. copies[t][id] <= crashes /\ copies'[t][id] = copies[t][id] + 1
      BY <1>4, <1>6, <1>8, <2>1, <2>2
    <3>2. copies[t][id] \in Nat /\ crashes \in Nat
      BY <1>6 DEF BatchesInv, TypeInv
    <3> QED
      BY <1>4, <2>2, <3>1, <3>2
  <2>3. CASE ~(t = table /\ id \in IdsOf(added))
    <3>1. copies'[t][id] = copies[t][id]
      BY <1>6, <2>3
    <3> QED
      BY <2>1, <3>1
  <2> QED
    BY <2>2, <2>3
<1>16. VerdictInv'
  <2>1. ASSUME NEW t \in Tables, NEW i \in rows'[t]
        PROVE  /\ i \in Positions /\ i <= planned /\ (source[i].id \in seen \/ i \in Fresh)
               /\ i \in Fresh \/ i \in rows[t]
    <3>1. i \in rows[t] \/ i \in added
      BY <1>5, <2>1
    <3>2. CASE i \in rows[t]
      BY <3>2 DEF BatchesInv, TypeInv, VerdictInv
    <3>3. CASE i \in added
      BY <1>4, <3>3 DEF BatchPositions, BatchesInv, TypeInv
    <3> QED
      BY <3>1, <3>2, <3>3
  <2>2. ASSUME NEW t \in Tables, NEW u \in Tables, NEW i \in rows'[t], NEW j \in rows'[u],
               source[i].id = source[j].id
        PROVE  batchEnd[i] = batchEnd[j]
    <3>1. CASE i \in rows[t] /\ j \in rows[u]
      BY <2>2, <3>1 DEF BatchesInv, VerdictInv
    <3>2. CASE i \in Fresh \/ j \in Fresh
      <4>1. i \in Fresh /\ j \in Fresh
        BY <1>4, <2>1, <2>2, <3>2
      <4> QED
        BY <1>4, <4>1 DEF BatchesInv, BatchInv
    <3> QED
      BY <2>1, <2>2, <3>1, <3>2
  <2> QED
    BY <1>2, <1>3, <2>1, <2>2 DEF VerdictInv
<1>17. FollowInv'
  <2> SUFFICES ASSUME NEW k \in 2..4, NEW i \in Positions, Alike(i)
               PROVE  LET silver == copies'[WriteOrder[k]][source[i].id]
                          facts == copies'[WriteOrder[k + 3]][source[i].id]
                      IN /\ facts <= silver
                         /\ Ahead(k, i)' => facts + 1 <= silver /\ silver <= facts + crashes + 1
                         /\ ~Ahead(k, i)' => silver <= facts + crashes
    BY <1>2, <1>3 DEF FollowInv, Positions
  <2> DEFINE id == source[i].id
             silver == copies[WriteOrder[k]][id]
             facts == copies[WriteOrder[k + 3]][id]
             silverNext == copies'[WriteOrder[k]][id]
             factsNext == copies'[WriteOrder[k + 3]][id]
             due == id \in IdsOf(Fresh) /\ Belongs(WriteOrder[k], source[i].row)
  <2>1. /\ WriteOrder[k] \in Tables /\ WriteOrder[k + 3] \in Tables /\ id \in Ids
        /\ Belongs(WriteOrder[k + 3], source[i].row) <=> Belongs(WriteOrder[k], source[i].row)
        /\ WriteOrder[k] = table <=> step = k
        /\ WriteOrder[k + 3] = table <=> step = k + 3
    <3>1. k \in 1..7 /\ k + 3 \in 1..7 /\ step \in 1..7
      BY <1>1
    <3>2. Belongs(WriteOrder[k + 3], source[i].row) <=> Belongs(WriteOrder[k], source[i].row)
      BY SilverAndFacts
    <3> QED
      BY <1>11, <3>1, <3>2, Orders DEF table
  <2>2. silver \in Nat /\ facts \in Nat /\ crashes \in Nat
    BY <1>6, <2>1 DEF BatchesInv, TypeInv
  <2>3. silverNext = IF step = k /\ due THEN silver + 1 ELSE silver
    BY <1>6, <1>4, <1>9, <1>10, <2>1
  <2>4. factsNext = IF step = k + 3 /\ due THEN facts + 1 ELSE facts
    BY <1>6, <1>4, <1>9, <1>10, <2>1
  <2>5. /\ Ahead(k, i) <=> k < step /\ step <= k + 3 /\ due
        /\ Ahead(k, i)' <=> k < step + 1 /\ step + 1 <= k + 3 /\ due
    BY <1>1, <1>2, <1>3 DEF Ahead
  <2>6. /\ facts <= silver
        /\ Ahead(k, i) => facts + 1 <= silver /\ silver <= facts + crashes + 1
        /\ ~Ahead(k, i) => silver <= facts + crashes
    BY DEF BatchesInv, FollowInv
  <2> HIDE DEF silver, facts, silverNext, factsNext, due, id
  <2>7. /\ factsNext <= silverNext
        /\ Ahead(k, i)' => factsNext + 1 <= silverNext /\ silverNext <= factsNext + crashes + 1
        /\ ~Ahead(k, i)' => silverNext <= factsNext + crashes
    <3>1. CASE ~due
      BY <2>2, <2>3, <2>4, <2>5, <2>6, <3>1
    <3>2. CASE due
      <4>1. CASE step = k
        BY <1>1, <2>2, <2>3, <2>4, <2>5, <2>6, <3>2, <4>1
      <4>2. CASE step = k + 3
        BY <1>1, <2>2, <2>3, <2>4, <2>5, <2>6, <3>2, <4>2
      <4>3. CASE step # k /\ step # k + 3
        <5>1. Ahead(k, i)' <=> Ahead(k, i)
          BY <1>1, <2>5, <4>3
        <5> QED
          BY <2>3, <2>4, <2>6, <4>3, <5>1
      <4> QED
        BY <4>1, <4>2, <4>3
    <3> QED
      BY <3>1, <3>2
  <2> QED
    BY <2>7 DEF silverNext, factsNext, id
<1> QED
  BY <1>12, <1>13, <1>14, <1>15, <1>16, <1>17 DEF BatchesInv

-----------------------------------------------------------------------------
(* Every step keeps the invariant.                                         *)
LEMMA BatchesInvCorrect == Spec => []BatchesInv
<1>1. Init => BatchesInv
  <2> SUFFICES ASSUME Init PROVE BatchesInv
    OBVIOUS
  <2>1. /\ source \in [Positions -> Events] /\ committed = 0 /\ planned = 0 /\ seen = {}
        /\ pc = "idle" /\ step = 1 /\ crashes = 0
        /\ rows = [t \in Tables |-> {}] /\ copies = [t \in Tables |-> [id \in Ids |-> 0]]
        /\ batchEnd = [i \in Positions |-> 0]
    BY DEF Init
  <2>2. TypeInv
    BY <2>1, ForeachBatchAssumption DEF TypeInv
  <2>3. BatchPositions = {} /\ (\A t : ~WrittenNow(t)) /\ \A k, i : ~Ahead(k, i)
    BY <2>1 DEF BatchPositions, WrittenNow, Ahead
  <2>4. BatchInv
    BY <2>1, <2>3 DEF BatchInv
  <2>5. LandInv
    BY <2>1, <2>3 DEF LandInv
  <2>6. CountInv
    BY <2>1 DEF CountInv
  <2>7. VerdictInv
    BY <2>1 DEF VerdictInv
  <2>8. FollowInv
    <3>1. \A t \in Tables, id \in Ids : copies[t][id] = 0
      BY <2>1
    <3>2. \A k \in 2..4 : WriteOrder[k] \in Tables /\ WriteOrder[k + 3] \in Tables
      BY Orders
    <3>3. \A i \in Positions : source[i].id \in Ids
      BY <2>1 DEF Events
    <3> QED
      BY <2>1, <2>3, <3>1, <3>2, <3>3 DEF FollowInv
  <2> QED
    BY <2>2, <2>4, <2>5, <2>6, <2>7, <2>8 DEF BatchesInv
<1>2. BatchesInv /\ [Next]_vars => BatchesInv'
  <2> SUFFICES ASSUME BatchesInv, [Next]_vars PROVE BatchesInv'
    OBVIOUS
  <2>1. ASSUME NEW end \in Positions, PlanBatch(end) PROVE BatchesInv'
    BY <2>1, PlanKeeps
  <2>2. CASE ReplayBatch
    BY <2>2, RerunKeeps DEF ReplayBatch, BatchesInv, TypeInv
  <2>3. CASE WriteTable
    BY <2>3, WriteKeeps
  <2>4. CASE CommitBatch
    BY <2>4, CommitKeeps
  <2>5. CASE Crash
    BY <2>5, RerunKeeps DEF Crash, BatchesInv, TypeInv
  <2>6. CASE Restart
    BY <2>6, RerunKeeps DEF Restart, BatchesInv, TypeInv
  <2>7. CASE UNCHANGED vars
    <3>1. /\ UNCHANGED <<source, committed, planned, seen, pc, step, rows, copies, crashes, batchEnd, late>>
          /\ UNCHANGED checkpoint
      BY <2>7 DEF vars, checkpoint, tables
    <3>2. /\ BatchPositions' = BatchPositions /\ Fresh' = Fresh /\ IdsOf(Fresh)' = IdsOf(Fresh)
          /\ \A i : Alike(i)' <=> Alike(i)
      BY <3>1, SameBatch
    <3>3. (\A t : WrittenNow(t)' <=> WrittenNow(t)) /\ \A k, i : Ahead(k, i)' <=> Ahead(k, i)
      BY <3>1, <3>2 DEF WrittenNow, Ahead
    <3>4. TypeInv' /\ BatchInv' /\ VerdictInv'
      BY <3>1, <3>2 DEF BatchesInv, TypeInv, BatchInv, VerdictInv
    <3>5. LandInv' /\ CountInv'
      BY <3>1, <3>2, <3>3 DEF BatchesInv, LandInv, CountInv
    <3>6. FollowInv'
      BY <3>1, <3>2, <3>3 DEF BatchesInv, FollowInv
    <3> QED
      BY <3>4, <3>5, <3>6 DEF BatchesInv
  <2> QED
    BY <2>1, <2>2, <2>3, <2>4, <2>5, <2>6, <2>7 DEF Next, Query, Drained
<1> QED
  BY <1>1, <1>2, PTL DEF Spec

(* Every record of a committed batch that was not late is in each table it *)
(* belongs to, wherever the query died and however the batch was run again *)
(* (foreach_batch_processor), if its id stands for one row only.           *)
THEOREM LandingCorrect == Spec => []CommittedLands
<1>1. BatchesInv => CommittedLands
  <2> SUFFICES ASSUME BatchesInv, NEW i \in 1..committed, i \notin late, Alike(i),
                      NEW t \in Tables, Belongs(t, source[i].row)
               PROVE  Rows(i, t) >= 1
    BY DEF CommittedLands
  <2>1. i \in Positions /\ source[i].id \in seen
    BY ForeachBatchAssumption DEF BatchesInv, TypeInv, LandInv, Positions
  <2> QED
    BY <2>1 DEF BatchesInv, LandInv, Rows
<1> QED
  BY <1>1, BatchesInvCorrect, PTL

(* A table has one row of an event id, and one more for each crash at most,*)
(* however often the event came and its batch was run.                     *)
THEOREM CopiesCorrect == Spec => []CopiesBounded
<1>1. BatchesInv => CopiesBounded
  <2> SUFFICES ASSUME BatchesInv, NEW i \in Positions, NEW t \in Tables
               PROVE  Rows(i, t) <= 1 + crashes
    BY DEF CopiesBounded
  <2>1. source[i].id \in Ids
    BY DEF BatchesInv, TypeInv, Events
  <2>2. copies[t][source[i].id] <= crashes + 1 /\ copies[t][source[i].id] \in Nat /\ crashes \in Nat
    BY <2>1 DEF BatchesInv, CountInv, TypeInv
  <2> QED
    BY <2>2 DEF Rows
<1> QED
  BY <1>1, BatchesInvCorrect, PTL

(* An event is both rejected and accepted only by rows of one batch: no    *)
(* replay and no duplicate of a later batch gives it another verdict.      *)
THEOREM VerdictCorrect == Spec => []OneVerdictPerBatch
<1>1. BatchesInv => OneVerdictPerBatch
  <2>1. "rejected_events" \in Tables
    BY DEF Tables, WriteOrder, ToSet
  <2> QED
    BY <2>1 DEF BatchesInv, VerdictInv, OneVerdictPerBatch
<1> QED
  BY <1>1, BatchesInvCorrect, PTL

(* The facts never run ahead of the silver tables they go with, and fall   *)
(* behind by the batch in hand and one row for each crash at most.         *)
THEOREM FactsCorrect == Spec => []FactsFollowSilver
<1>1. BatchesInv => FactsFollowSilver
  <2> SUFFICES ASSUME BatchesInv, NEW i \in Positions, Alike(i), NEW k \in 2..4
               PROVE  /\ Rows(i, WriteOrder[k + 3]) <= Rows(i, WriteOrder[k])
                      /\ Rows(i, WriteOrder[k]) <= Rows(i, WriteOrder[k + 3]) + crashes
                           + IF pc = "batch" THEN 1 ELSE 0
    <3>1. /\ WriteOrder[2] = "silver_transactions" /\ WriteOrder[5] = "fact_transaction"
          /\ WriteOrder[3] = "silver_payments" /\ WriteOrder[6] = "fact_payment"
          /\ WriteOrder[4] = "silver_trades" /\ WriteOrder[7] = "fact_trade"
      BY SilverAndFacts
    <3>2. /\ 2 \in 2..4 /\ 3 \in 2..4 /\ 4 \in 2..4 /\ 2 + 3 = 5 /\ 3 + 3 = 6 /\ 4 + 3 = 7
      OBVIOUS
    <3> QED
      BY <3>1, <3>2 DEF FactsFollowSilver
  <2> DEFINE silver == copies[WriteOrder[k]][source[i].id]
             facts == copies[WriteOrder[k + 3]][source[i].id]
  <2>1. silver \in Nat /\ facts \in Nat /\ crashes \in Nat
    <3>1. WriteOrder[k] \in Tables /\ WriteOrder[k + 3] \in Tables /\ source[i].id \in Ids
      BY Orders DEF BatchesInv, TypeInv, Events
    <3> QED
      BY <3>1 DEF BatchesInv, TypeInv
  <2>2. /\ facts <= silver
        /\ Ahead(k, i) => silver <= facts + crashes + 1
        /\ ~Ahead(k, i) => silver <= facts + crashes
    BY DEF BatchesInv, FollowInv
  <2>3. Ahead(k, i) => pc = "batch"
    BY DEF Ahead
  <2> HIDE DEF silver, facts
  <2>4. silver <= facts + crashes + IF pc = "batch" THEN 1 ELSE 0
    <3>1. CASE Ahead(k, i)
      <4>1. silver <= facts + crashes + 1 /\ pc = "batch"
        BY <2>2, <2>3, <3>1
      <4> QED
        BY <4>1
    <3>2. CASE ~Ahead(k, i)
      <4>1. silver <= facts + crashes
        BY <2>2, <3>2
      <4> QED
        BY <2>1, <4>1
    <3> QED
      BY <3>1, <3>2
  <2> QED
    BY <2>2, <2>4 DEF silver, facts, Rows
<1> QED
  BY <1>1, BatchesInvCorrect, PTL

(* The watermark and the times of some records, and the latest of them.    *)
TimesOf(w, f, a, n) == {w} \cup {f[i] : i \in (a + 1)..n}
HasLatest(S) == \E m \in S : \A x \in S : x <= m

(* Of finitely many times and the watermark, one is the latest.            *)
LEMMA LatestTime ==
  ASSUME NEW a \in Nat, NEW n \in Nat, a <= n, NEW w \in Nat, NEW f,
         \A i \in (a + 1)..n : f[i] \in Int
  PROVE  HasLatest(TimesOf(w, f, a, n))
<1> DEFINE S(k) == {w} \cup {f[i] : i \in (a + 1)..k}
           top(k) == \E m \in S(k) : \A x \in S(k) : x <= m
           without == {k \in a..n : ~top(k)}
<1> SUFFICES ASSUME ~top(n) PROVE FALSE
  BY DEF HasLatest, TimesOf
<1>1. \A k \in a..n : S(k) \subseteq Int
  OBVIOUS
<1>2. top(a)
  <2>1. S(a) = {w}
    OBVIOUS
  <2> QED
    BY <2>1
<1>3. ASSUME NEW k \in a..n, k # a, top(k - 1) PROVE top(k)
  <2>1. S(k) = S(k - 1) \cup {f[k]} /\ f[k] \in Int
    BY <1>3
  <2>2. PICK m \in S(k - 1) : \A x \in S(k - 1) : x <= m
    BY <1>3
  <2>3. S(k - 1) \subseteq Int
    BY <1>1, <1>3
  <2> HIDE DEF S
  <2>4. CASE f[k] <= m
    BY <2>1, <2>2, <2>3, <2>4
  <2>5. CASE ~(f[k] <= m)
    <3>1. \A x \in S(k) : x <= f[k]
      BY <2>1, <2>2, <2>3, <2>5
    <3> QED
      BY <2>1, <3>1
  <2> QED
    BY <2>4, <2>5
<1> HIDE DEF top
<1>4. PICK k \in without : \A j \in without : ~(j < k)
  <2>1. without # {} /\ without \subseteq Nat
    OBVIOUS
  <2> HIDE DEF without
  <2>2. IsWellFoundedOn(OpToRel(<, Nat), Nat)
    BY NatLessThanWellFounded
  <2>3. PICK k \in without : \A j \in without : <<j, k>> \notin OpToRel(<, Nat)
    BY <2>1, <2>2, WFMin
  <2> QED
    BY <2>1, <2>3 DEF OpToRel
<1>5. k # a /\ k \in a..n
  BY <1>2, <1>4
<1>6. top(k - 1)
  BY <1>4, <1>5
<1> QED
  BY <1>3, <1>4, <1>5, <1>6

(* The times the watermark is made from are numbers.                       *)
LEMMA ShiftedTimes ==
  ASSUME TypeInv, NEW i \in Positions
  PROVE  source[i].time - WatermarkDelay \in Int
<1>1. source[i].time \in Times
  BY DEF TypeInv, Events
<1>2. \A t \in Times : t \in Nat
  BY ForeachBatchAssumption
<1>3. WatermarkDelay \in Nat
  BY ForeachBatchAssumption
<1> DEFINE t == source[i].time
<1>4. t \in Nat
  BY <1>1, <1>2
<1> HIDE DEF t
<1>5. t - WatermarkDelay \in Int
  BY <1>3, <1>4
<1> QED
  BY <1>5 DEF t

(* The watermark never goes back.                                          *)
LEMMA WatermarkMoves ==
  ASSUME TypeInv, watermark \in Nat
  PROVE  NextWatermark \in Nat /\ watermark <= NextWatermark
<1> DEFINE f == [i \in Positions |-> source[i].time - WatermarkDelay]
           S == TimesOf(watermark, f, committed, planned)
<1>1. \A i \in BatchPositions : i \in Positions
  BY FreshFacts
<1>2. \A i \in BatchPositions : f[i] = source[i].time - WatermarkDelay
  BY <1>1
<1>3. \A i \in BatchPositions : f[i] \in Int
  BY <1>1, <1>2, ShiftedTimes
<1>4. NextWatermark = Max(S)
  BY <1>2 DEF NextWatermark, TimesOf, BatchPositions
<1> HIDE DEF f
<1>5. /\ committed \in Nat /\ planned \in Nat /\ committed <= planned
      /\ \A i \in (committed + 1)..planned : f[i] \in Int
  BY <1>3 DEF BatchPositions, TypeInv
<1>6. HasLatest(S)
  BY <1>5, LatestTime
<1>7. S \subseteq Int /\ watermark \in S
  BY <1>5 DEF TimesOf
<1> HIDE DEF S
<1> DEFINE latest == Max(S)
<1>8. latest \in Int /\ watermark <= latest
  BY <1>6, <1>7 DEF HasLatest, Max
<1> HIDE DEF latest
<1>9. latest \in Nat /\ watermark <= latest
  BY <1>8
<1> QED
  BY <1>4, <1>9 DEF latest

(* What TypeOK says and the invariant above does not.                      *)
BoundsInv ==
  /\ watermark \in Nat /\ crashes <= MaxCrashes
  /\ batchEnd \in [Positions -> 0..NEvents] /\ late \subseteq Positions

(* Every variable keeps its type: the checkpoint stays within the stream,  *)
(* the next write is one of the seven or past them, and the watermark is   *)
(* a time.                                                                 *)
THEOREM TypeCorrect == Spec => []TypeOK
<1>1. Init => BoundsInv
  BY ForeachBatchAssumption DEF Init, BoundsInv
<1>2. BatchesInv /\ BoundsInv /\ [Next]_vars => BoundsInv'
  <2> SUFFICES ASSUME TypeInv, BoundsInv, [Next]_vars PROVE BoundsInv'
    BY DEF BatchesInv
  <2> USE DEF BoundsInv
  <2>1. CASE \E end \in Positions : PlanBatch(end)
    <3>1. PICK end \in Positions : PlanBatch(end)
      BY <2>1
    <3>2. end \in 0..NEvents
      BY DEF Positions
    <3>3. batchEnd' = [i \in Positions |->
                         IF i \in (committed + 1)..end THEN end ELSE batchEnd[i]]
      BY <3>1 DEF PlanBatch
    <3> QED
      BY <3>1, <3>2, <3>3 DEF PlanBatch
  <2>2. CASE ReplayBatch
    BY <2>2 DEF ReplayBatch, checkpoint
  <2>3. CASE WriteTable
    BY <2>3 DEF WriteTable, checkpoint
  <2>4. CASE CommitBatch
    <3>1. /\ watermark' = NextWatermark /\ late' = late \cup (BatchPositions \ OnTime)
          /\ crashes' = crashes /\ batchEnd' = batchEnd
      BY <2>4 DEF CommitBatch
    <3>2. BatchPositions \subseteq Positions
      BY FreshFacts
    <3> QED
      BY <3>1, <3>2, WatermarkMoves
  <2>5. CASE Crash
    BY <2>5, ForeachBatchAssumption DEF Crash, checkpoint, TypeInv
  <2>6. CASE Restart
    BY <2>6 DEF Restart, checkpoint
  <2>7. CASE Drained \/ UNCHANGED vars
    BY <2>7 DEF Drained, vars, checkpoint
  <2> QED
    BY <2>1, <2>2, <2>3, <2>4, <2>5, <2>6, <2>7 DEF Next, Query
<1>3. BatchesInv /\ BoundsInv => TypeOK
  BY Orders, ForeachBatchAssumption DEF BatchesInv, TypeInv, BoundsInv, TypeOK
<1> QED
  BY <1>1, <1>2, <1>3, BatchesInvCorrect, PTL DEF Spec

=============================================================================
