----------------------------- MODULE BatchSplit -----------------------------
(***************************************************************************)
(* split_valid_and_rejected (databricks/common/transformations.py) as      *)
(* financial_batch_pipeline.py applies it to transactions, payments and    *)
(* trades.  A row is reduced to what the checks can tell apart: a checked  *)
(* column is inside its valid values, outside them or NULL; an amount that *)
(* does not parse as a decimal is NULL.  `kind` stands for the column of   *)
(* the extra condition: transaction_type or side.                          *)
(***************************************************************************)
EXTENDS SqlLogic, Sequences, SequencesExt

CONSTANT Keys     \* the ids of records

Datasets == {"transactions", "payments", "trades"}

Row ==
  [dataset : Datasets,
   id : Keys \cup {Null},
   currency_code : {"USD", "EUR", "ZZZ", Null},
   transaction_amount : {"nonnegative", "negative", Null},
   transaction_status : {"PENDING", "POSTED", "SETTLED", "UNKNOWN", Null},
   risk_score : {"within", "outside", Null},
   kind : {"valid", "invalid", Null}]

ValidCurrencies == {"USD", "EUR"}

(* Of the statuses valid for a dataset, PENDING and the one of its own.    *)
ValidStatuses(row) ==
  IF row.dataset = "payments" THEN {"PENDING", "SETTLED"} ELSE {"PENDING", "POSTED"}

ExtraCondition(row) ==
  IF row.dataset = "payments" THEN IsIn(row.transaction_status, ValidStatuses(row))
  ELSE IsIn(row.kind, {"valid"})

Checks(row) ==
  {IsNotNull(row.id),
   IsIn(row.currency_code, ValidCurrencies),
   IsIn(row.transaction_amount, {"nonnegative"}),
   IsIn(row.transaction_status, ValidStatuses(row)),
   IsIn(row.risk_score, {"within"}),
   ExtraCondition(row)}

IsValid(row) == Holds(AllOf(Checks(row)))

(* Mutant of IsRejected: whatever is not valid is rejected.                *)
IsRejectedOtherwise(row) == ~IsValid(row)

IsRejected(row) == Holds(Negation(AllOf(Checks(row))))

(* The rejection reasons, in the order of the when()s.                     *)
Reasons(row) ==
  << <<"id_null", Negation(IsNotNull(row.id))>>,
     <<"invalid_currency", Negation(IsIn(row.currency_code, ValidCurrencies))>>,
     <<"negative_amount", IsIn(row.transaction_amount, {"negative"})>>,
     <<"invalid_status", Negation(IsIn(row.transaction_status, ValidStatuses(row)))>>,
     <<"validation_failed", "true">> >>

(* Mutant of RejectionReason: the last when() that holds.                  *)
LastReason(row) ==
  Reasons(row)[SelectLastInSeq(Reasons(row), LAMBDA when : Holds(when[2]))][1]

RejectionReason(row) ==
  Reasons(row)[SelectInSeq(Reasons(row), LAMBDA when : Holds(when[2]))][1]

=============================================================================
