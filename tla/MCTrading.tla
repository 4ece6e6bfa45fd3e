----------------------------- MODULE MCTrading -----------------------------
(* The live side of a trade: its stop in TrailingStop, with pips scaled     *)
(* down (entry at 10, trail and break-even distance 2, target 5 pips away), *)
(* the windows of RiskManager, with results of -2 and +1, days of two       *)
(* instants, weeks of three and months of two days, and the auto trader's   *)
(* pipeline, which has the shared context to itself or shares it with one   *)
(* of the agent's.  A behaviour is one of a single part, chosen at the      *)
(* start.                                                                   *)
EXTENDS TrailingStop, RiskManager, TradePipeline

CONSTANTS MinPrice, MaxPrice, autoTrader, analyst,
          MaxStarts \* bound: runs of each pipeline that shares its context

VARIABLES focus, starts

PriceRange == MinPrice .. MaxPrice
Results == {-2, 1}

AnyStop ==
  CHOOSE i \in [direction : {"BUY", "SELL"}, at : InitStops] :
    IF i.direction = "BUY" THEN i.at < Entry ELSE i.at > Entry

TradingInit ==
  /\ focus \in {"stop", "windows", "alone", "shared"}
  /\ starts = [p \in Pipelines |-> 0]
  /\ StopInit /\ (focus # "stop" => direction = AnyStop.direction /\ initial = AnyStop.at)
  /\ Init
  /\ PipelineInit /\ (focus # "alone" => debating /\ enabled)

StopMoves == focus = "stop" /\ StopNext /\ UNCHANGED <<focus, starts, vars, pipelineVars>>
WindowsMove == focus = "windows" /\ Next /\ UNCHANGED <<focus, starts, stopVars, pipelineVars>>

\* The auto trader runs again and again.
Alone ==
  /\ focus = "alone" /\ PipelineNext
  /\ \A p \in Analysts : run'[p] = Idle
  /\ UNCHANGED <<focus, starts, stopVars, vars>>

\* Both run, MaxStarts times each, with debates and the switch on.
Shared ==
  /\ focus = "shared" /\ PipelineNext
  /\ starts' = [p \in Pipelines |->
       starts[p] + IF run[p].at = "idle" /\ run'[p].at # "idle" THEN 1 ELSE 0]
  /\ \A p \in Pipelines : starts'[p] <= MaxStarts
  /\ enabled'
  /\ UNCHANGED <<focus, stopVars, vars>>

TradingNext == StopMoves \/ WindowsMove \/ Alone \/ Shared

TradingSpec == TradingInit /\ [][TradingNext]_<<focus, starts, stopVars, vars, pipelineVars>>
=============================================================================
