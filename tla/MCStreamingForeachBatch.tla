---------------------- MODULE MCStreamingForeachBatch ----------------------
(* TLC instances of StreamingForeachBatch: a good trade, a good payment and *)
(* a trade in an unknown currency.                                          *)
EXTENDS StreamingForeachBatch, TLC

GoodTrade ==
  [event_type |-> "trade", transaction_id |-> Null, payment_id |-> Null,
   trade_id |-> "given", transaction_type |-> Null, side |-> "valid",
   transaction_status |-> "POSTED", currency_code |-> "USD",
   risk_score |-> "within", transaction_amount |-> "nonnegative"]

GoodPayment ==
  [GoodTrade EXCEPT !.event_type = "payment", !.payment_id = "given", !.trade_id = Null,
                    !.side = Null, !.transaction_status = "SETTLED"]

MCRowKinds == {GoodTrade, GoodPayment, [GoodTrade EXCEPT !.currency_code = "ZZZ"]}

MCSymmetry == Permutations(Ids)

MCRowKindsFair == {GoodTrade, [GoodTrade EXCEPT !.currency_code = "ZZZ"]}

=============================================================================
