---------------------------- MODULE MCWorldModel ----------------------------
(* WorldModel with a rising market and what may be different in it: calmer,  *)
(* falling before an event, with the arbiter's verdict, or with nothing but  *)
(* the session because the other skills failed.                              *)
EXTENDS WorldModel

UpMarket ==
  [price |-> 1000, spread |-> 10, bias |-> "Bullish", rsi |-> 550, adx |-> 310, hist |-> 1,
   mtf |-> "Bullish", regime |-> "trending", session |-> "london", allowed |-> TRUE,
   signal |-> "BUY"]
DownMarket ==
  [UpMarket EXCEPT !.price = 900, !.bias = "Bearish", !.rsi = 290, !.hist = -1, !.signal = "SELL"]
    @@ [rates |-> "USD stronger", soon |-> 25]
Calmer == [UpMarket EXCEPT !.bias = "Neutral", !.rsi = 553, !.adx = 260, !.mtf = "Neutral"]
Resolved ==
  [Calmer EXCEPT !.session = "overlap", !.regime = "volatile", !.allowed = FALSE] @@ [verdict |-> "BUY"]

ReportSet == {UpMarket, DownMarket, Calmer, Resolved, [session |-> "asian"]}
TickSet == {[price |-> 1004, spread |-> 10], [price |-> 1150, spread |-> 90]}
=============================================================================
