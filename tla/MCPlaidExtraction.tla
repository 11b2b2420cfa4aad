------------------------- MODULE MCPlaidExtraction -------------------------
(* Money in, a wire in, a payment held and a record the mapper refuses, on *)
(* an account money is held in and on a card.                              *)
EXTENDS PlaidExtraction

Kind(text, amount, currency, pending) ==
  [category |-> "other", text |-> text, amount |-> amount,
   iso_currency_code |-> currency, pending |-> pending, country |-> "US"]

MCAccountType == [checking |-> "depository", card |-> "credit"]

MCKinds ==
  {Kind("other", -2, "USD", FALSE), Kind("wire", -2, "USD", FALSE),
   Kind("other", 3, "null", TRUE), Kind("other", 3, "ZZZ", FALSE)}

=============================================================================
