-------------------------- MODULE SyntheticRecords --------------------------
(***************************************************************************)
(* The transactions, payments and trades of the synthetic data             *)
(* (src/generators/synthetic_data.py): valid records, then copies of the   *)
(* first ones at the end, then the first ones damaged in turn.             *)
(***************************************************************************)
EXTENDS SqlLogic, Integers, Sequences

CONSTANT RecordIds     \* the ids in the order they are given

(* What every generated record has in common as far as the split sees it.  *)
Generated(dataset, i) ==
  [dataset |-> dataset, id |-> RecordIds[i], currency_code |-> "EUR",
   transaction_amount |-> "nonnegative",
   transaction_status |-> IF dataset = "payments" THEN "SETTLED" ELSE "POSTED",
   risk_score |-> "within", kind |-> "valid"]

(* The damage done at the i-th place, counted from 1.                      *)
Damage(record, i) ==
  CASE i % 4 = 1 -> [record EXCEPT !.id = Null]
    [] i % 4 = 2 -> [record EXCEPT !.currency_code = "ZZZ"]
    [] i % 4 = 3 -> [record EXCEPT !.transaction_amount = "negative"]
    [] i % 4 = 0 -> [record EXCEPT !.risk_score = "outside"]

(* Mutant of InjectAnomalies: the copies are made of the damaged records.  *)
CopyDamaged(dataset, n, duplicates, invalid) ==
  LET damaged == [i \in 1..n |-> IF i <= invalid THEN Damage(Generated(dataset, i), i)
                                 ELSE Generated(dataset, i)]
  IN damaged \o SubSeq(damaged, 1, duplicates)

(* _inject_batch_anomalies: at least one copy, at least one damaged.       *)
InjectAnomalies(dataset, n, duplicates, invalid) ==
  LET records == [i \in 1..n |-> Generated(dataset, i)]
      copied == records \o SubSeq(records, 1, duplicates)
  IN [i \in DOMAIN copied |-> IF i <= invalid THEN Damage(copied[i], i) ELSE copied[i]]

Frames ==
  UNION {{InjectAnomalies(dataset, n, duplicates, invalid) :
            duplicates \in 1..n, invalid \in 1..n} :
         dataset \in {"transactions", "payments", "trades"}, n \in 1..Len(RecordIds)}

=============================================================================
