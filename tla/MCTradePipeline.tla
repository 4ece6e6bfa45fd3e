--------------------------- MODULE MCTradePipeline ---------------------------
(* TradePipeline for TLC: the auto trader's pipeline, run again and again.   *)
EXTENDS TradePipeline

CONSTANT autoTrader
=============================================================================
