---------------------------- MODULE PlaidMapping ----------------------------
(***************************************************************************)
(* map_transaction and map_account (src/sources/plaid_batch/mapper.py): a  *)
(* transaction as Plaid sends it and the row the batch split sees of it,   *)
(* and the type an account is given.  The texts are reduced to the group   *)
(* of keywords they hold.                                                  *)
(***************************************************************************)
EXTENDS Integers, SqlLogic

(* A category or location that is there but null is "null"; one that is    *)
(* left out is "absent".                                                   *)
Records(amounts) ==
  [category : {"PAYROLL", "TRANSFER", "LOAN", "other", "absent", Null},
   text : {"credit", "wire", "fee", "other"},
   amount : amounts,
   iso_currency_code : {"USD", "EUR", "ZZZ", Null},
   pending : BOOLEAN,
   country : {"US", "abroad", "absent", "location is null"}]

(* The type of an account, or "savings" when its subtype has that word.    *)
PlaidAccountTypes ==
  {"depository", "savings", "credit", "loan", "investment", "brokerage", "other"}

(* A card and a loan come out as the account money is held in does.        *)
MapAccountType(type) ==
  CASE type = "savings" -> "SAVINGS"
    [] type \in {"investment", "brokerage"} -> "BROKERAGE"
    [] OTHER -> "CHECKING"

Magnitude(t) == IF t.amount < 0 THEN -t.amount ELSE t.amount

Currency(code) == IF code = Null THEN "USD" ELSE code

TransactionType(t) ==
  CASE t.category = "PAYROLL" -> "CREDIT"
    [] t.category \in {"TRANSFER", "LOAN"} -> "WIRE"
    [] OTHER ->
         IF t.text = "other" THEN IF t.amount < 0 THEN "CREDIT" ELSE "DEBIT"
         ELSE [credit |-> "CREDIT", wire |-> "WIRE", fee |-> "FEE"][t.text]

RiskScore(t) ==
  LET score == 20 + (IF Magnitude(t) > 1000 THEN 20 ELSE 0)
                  + (IF Magnitude(t) > 5000 THEN 20 ELSE 0)
                  + (IF t.pending THEN 10 ELSE 0)
                  + (IF t.country = "abroad" THEN 15 ELSE 0)
  IN IF score > 100 THEN 100 ELSE score

(* The records' validators refuse other currencies; a null category or     *)
(* location has no .get.  Either ends the whole extraction.                *)
Raises(t) ==
  \/ Currency(t.iso_currency_code) \notin {"USD", "EUR"}
  \/ t.category = Null \/ t.country = "location is null"

(* Mutant of MappedAmount: the sign Plaid uses is kept.                    *)
SignedAmount(t) == t.amount

MappedAmount(t) == Magnitude(t)

MapTransaction(t, id) ==
  [dataset |-> "transactions", id |-> id,
   currency_code |-> Currency(t.iso_currency_code),
   transaction_amount |-> IF MappedAmount(t) < 0 THEN "negative" ELSE "nonnegative",
   transaction_status |-> IF t.pending THEN "PENDING" ELSE "POSTED",
   risk_score |-> IF RiskScore(t) \in 0..100 THEN "within" ELSE "outside",
   kind |-> IF TransactionType(t) \in {"DEBIT", "CREDIT", "FEE", "REFUND", "WIRE", "ACH"}
            THEN "valid" ELSE "invalid"]

=============================================================================
