---------------------------- MODULE StreamSplit ----------------------------
(***************************************************************************)
(* split_stream_valid_and_rejected and the projections that follow it      *)
(* (databricks/common/streaming_transformations.py).  A row is reduced to  *)
(* what the checks can tell apart: a checked column is inside its valid    *)
(* values, outside them or NULL.  An amount or a risk score that does not  *)
(* parse is NULL.                                                          *)
(***************************************************************************)
EXTENDS SqlLogic, Sequences, SequencesExt

(* Statuses by the event types they are valid for: PENDING and FAILED for  *)
(* all, POSTED and REVERSED for transactions and trades, SETTLED and       *)
(* CANCELLED for payments.                                                 *)
TransactionStatuses == {"PENDING", "POSTED"}
PaymentStatuses == {"PENDING", "SETTLED"}

(* Of VALID_CURRENCY_CODES, the dollar and one other.                      *)
ValidCurrencies == {"USD", "EUR"}

Row ==
  [event_type : {"transaction", "payment", "trade", "other", Null},
   transaction_id : {"given", Null}, payment_id : {"given", Null},
   trade_id : {"given", Null},
   transaction_type : {"valid", "invalid", Null},
   side : {"valid", "invalid", Null},
   transaction_status : {"PENDING", "POSTED", "SETTLED", "UNKNOWN", Null},
   currency_code : {"USD", "EUR", "ZZZ", Null},
   risk_score : {"within", "outside", Null},
   transaction_amount : {"nonnegative", "negative", Null}]

(* Mutant of MicrobatchRow: trades lose their id too.                      *)
MicrobatchRowWithoutIds(row) ==
  [row EXCEPT !.transaction_id = Null, !.transaction_type = Null, !.payment_id = Null,
              !.trade_id = Null]

(* ensure_stream_optional_columns: what the micro-batch schema does not    *)
(* read from the files is NULL in every row.                               *)
MicrobatchRow(row) ==
  [row EXCEPT !.transaction_id = Null, !.transaction_type = Null, !.payment_id = Null]

-----------------------------------------------------------------------------
TransactionChecks(row) ==
  {IsIn(row.event_type, {"transaction"}), IsNotNull(row.transaction_id),
   IsIn(row.transaction_type, {"valid"}),
   IsIn(row.transaction_status, TransactionStatuses)}

PaymentChecks(row) ==
  {IsIn(row.event_type, {"payment"}), IsNotNull(row.payment_id),
   IsIn(row.transaction_status, PaymentStatuses)}

TradeChecks(row) ==
  {IsIn(row.event_type, {"trade"}), IsNotNull(row.trade_id),
   IsIn(row.side, {"valid"}), IsIn(row.transaction_status, TransactionStatuses)}

UniversalChecks(row) ==
  {IsIn(row.currency_code, ValidCurrencies), IsIn(row.risk_score, {"within"}),
   IsIn(row.transaction_amount, {"nonnegative"})}

ValidCondition(row) ==
  AllOf({AllOf(UniversalChecks(row)),
         AnyOf({AllOf(TransactionChecks(row)), AllOf(PaymentChecks(row)),
                AllOf(TradeChecks(row))})})

IsValid(row) == Holds(ValidCondition(row))

(* Mutant of IsRejected: whatever is not valid is rejected.                *)
IsRejectedOtherwise(row) == ~IsValid(row)

IsRejected(row) == Holds(Negation(ValidCondition(row)))

(* The rejection reasons, in the order of the when()s.                     *)
Reasons(row) ==
  << <<"invalid_currency", Negation(IsIn(row.currency_code, ValidCurrencies))>>,
     <<"invalid_risk_score", Negation(IsIn(row.risk_score, {"within"}))>>,
     <<"negative_amount", IsIn(row.transaction_amount, {"negative"})>>,
     <<"invalid_transaction_record", IsIn(row.event_type, {"transaction"})>>,
     <<"invalid_payment_record", IsIn(row.event_type, {"payment"})>>,
     <<"invalid_trade_record", "true">> >>

(* Mutant of RejectionReason: the last when() that holds.                  *)
LastReason(row) ==
  Reasons(row)[SelectLastInSeq(Reasons(row), LAMBDA when : Holds(when[2]))][1]

RejectionReason(row) ==
  Reasons(row)[SelectInSeq(Reasons(row), LAMBDA when : Holds(when[2]))][1]

(* project_transactions, project_payments and project_trades, applied to   *)
(* the valid rows.                                                         *)
ProjectedTo(type, row) == IsValid(row) /\ Holds(IsIn(row.event_type, {type}))

=============================================================================
