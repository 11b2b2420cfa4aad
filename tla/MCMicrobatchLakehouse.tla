----------------------- MODULE MCMicrobatchLakehouse -----------------------
(* TLC instances of MicrobatchLakehouse: a good trade and one in an unknown *)
(* currency.                                                                *)
EXTENDS MicrobatchLakehouse, TLC

GoodTrade ==
  [event_type |-> "trade", transaction_id |-> Null, payment_id |-> Null,
   trade_id |-> "given", transaction_type |-> Null, side |-> "valid",
   transaction_status |-> "POSTED", currency_code |-> "USD",
   risk_score |-> "within", transaction_amount |-> "nonnegative"]

MCRowKinds == {GoodTrade, [GoodTrade EXCEPT !.currency_code = "ZZZ"]}

MCGoldTables == <<"fact_trade", "trade_minute_metrics", "customer_trade_exposure">>
MCNoGoldTables == <<>>

MCGoodOnly == {GoodTrade}

MCRunSymmetry == Permutations(Runs)

=============================================================================
