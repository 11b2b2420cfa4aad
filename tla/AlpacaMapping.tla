--------------------------- MODULE AlpacaMapping ---------------------------
(***************************************************************************)
(* map_alpaca_trade_to_stream_event (src/sources/alpaca_streaming/         *)
(* mapper.py): a trade as Alpaca sends it, and the row the stream split    *)
(* sees of it.                                                             *)
(***************************************************************************)
EXTENDS Integers, SqlLogic

Trades(sizes, prices, scores) ==
  [s : sizes, p : prices,
   tks : {"B", "S", "other"}, c : {"with B", "other"}, z : {"A", "other"},
   broker_risk : scores]

(* A taker side the feed does not give is guessed from the conditions.     *)
TradeSide(t) ==
  IF t.tks = "B" \/ (t.tks # "S" /\ t.c = "with B") THEN "BUY" ELSE "SELL"

TradeRiskScore(t) ==
  LET score == t.broker_risk + (IF t.s >= 100 THEN 10 ELSE 0)
                  + (IF t.p * t.s >= 10000 THEN 15 ELSE 0)
                  + (IF t.z = "A" THEN 0 ELSE 5)
  IN IF score > 100 THEN 100 ELSE score

MapTrade(t) ==
  [event_type |-> "trade", transaction_id |-> Null, payment_id |-> Null,
   trade_id |-> "given", transaction_type |-> Null,
   side |-> IF TradeSide(t) \in {"BUY", "SELL"} THEN "valid" ELSE "invalid",
   transaction_status |-> "POSTED", currency_code |-> "USD",
   risk_score |-> IF TradeRiskScore(t) \in 0..100 THEN "within" ELSE "outside",
   transaction_amount |-> IF t.s * t.p < 0 THEN "negative" ELSE "nonnegative"]

=============================================================================
