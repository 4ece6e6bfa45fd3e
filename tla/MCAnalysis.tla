----------------------------- MODULE MCAnalysis -----------------------------
(* The data and what is computed of it, part by part: the strategies, the    *)
(* charts, the market's context, the backtests, the market data, the         *)
(* connection pool, the notices, the sizing of trades and the world model    *)
(* share no state here.  A behaviour is one of a single part, chosen at the  *)
(* start; the others rest in one initial state, so that one run checks each  *)
(* by itself.                                                                *)
EXTENDS StrategyChoice, ChartReading, MarketContext, Backtest, MarketData, StoragePool,
        Notices, TradeSizing, MCWorldModel

CONSTANTS a1, a2, r1, r2, u1, u2

VARIABLE focus

vars == <<focus, choiceVars, chartVars, contextVars, backtestVars, marketVars, poolVars, noticesVars, sizingVars, worldVars>>

(* The strategies: most markets in calm surroundings, and a few of them with *)
(* all there may be around them; all ballots.  Of two that are each other    *)
(* upside down one is enough, as the property turns it itself.               *)
FewMarkets ==
  {m \in Market : /\ m.adx \in {15, 27} /\ m.rsi = 28 /\ m.z \in {-13, 0} /\ m.hist = 1
                  /\ m.atr = 100 /\ m.width = 50 /\ m.near = "none" /\ m.bias = "bearish"}
ManyMarkets ==
  {m \in Market : /\ m.z <= 0
                  /\ m.bias = "neutral" => m.near = "none"
                  /\ m.hist = 0 => m.width = 50}
SceneSet ==
  [market : ManyMarkets, ambient : {Calm, [Calm EXCEPT !.taught = [@ EXCEPT !["bullish"] = 150,
                                                                           !["bearish"] = 50]]}]
    \cup [market : FewMarkets, ambient : {a \in Ambient : a.taught = Unlearned}]
    \cup [market : FewMarkets,
          ambient : {a \in Ambient : a.session \in {"unset", "overlap"} /\ a.oversold = 30
                                       /\ a.overbought = 70 /\ a.trend = 25 /\ a.mtf = "Neutral"}]
BallotSet == {b \in Ballot : b.says["liquidity"] # "SELL"}

(* The charts: all closes of seven bars in a quiet market, up to turning     *)
(* them upside down, which the property does itself, and four telling ones   *)
(* with everything around them; four timeframes.                             *)
Plain == [session |-> "london", move |-> "range", sweep |-> FALSE, zones |-> {},
          bias |-> "neutral", news |-> FALSE, spike |-> FALSE]
NearbyZone == [price : {0, 3}, kind : {"session_high", "session_low"}, strong : BOOLEAN]
Surroundings ==
  [session : {"london", "asian", "weekend"}, move : {"up", "down", "range"}, sweep : BOOLEAN,
   zones : {{}} \cup {{z} : z \in NearbyZone}, bias : {"bullish", "bearish"},
   news : BOOLEAN, spike : BOOLEAN]
Telling == {<<0, 2, 1, 3, 1, 2, 0>>, <<0, 3, 0, 3, 1, 2, 1>>,
            <<3, 0, 3, 0, 2, 1, 2>>, <<1, 2, 1, 2, 0, 3, 3>>}
ChartSet == [close : {c \in [1 .. 7 -> 0 .. 3] : c[1] < 2}, around : {Plain}]
              \cup [close : Telling, around : Surroundings]
SomeQuotes == {Unknown} \cup {q \in Quote : q.adx = 20 /\ q.rsi \in {42, 58, 70}
                                             /\ (q.up <=> q.ema = "up")}
ConfluenceSet ==
  [M15 : {Unknown} \cup {q \in Quote : q.rsi = 50 /\ q.adx = 20}, H1 : {q \in Quote : q.rsi \in {30, 50} /\ q.adx = 30},
   H4 : SomeQuotes, D1 : SomeQuotes]

(* The context: four bars and the hour of the last, and all that may raise   *)
(* doubt.                                                                    *)
ContextBar(o, c, up, dn, day, hour) ==
  [open |-> o, close |-> c, high |-> Max({o, c}) + up, low |-> Min({o, c}) - dn,
   day |-> day, hour |-> hour]
Paths == {<<25, 28, 22, 25>>, <<22, 25, 28, 25>>, <<3, 25, 28, 25>>,
          <<47, 22, 47, 22>>, <<28, 25, 25, 28>>}
LastBars == [close : {3, 22, 25, 28, 47}, up : {0, 3, 12}, down : {0, 3, 12}]
Hours == {<<0, 8>>, <<1, 3>>, <<0, 19>>, <<5, 9>>, <<1, 14>>}
ContextBars(p, last, at) ==
  [i \in 1 .. 4 |->
     IF i < 4 THEN ContextBar(p[i], p[i + 1], 2, 2, IF at[1] = 1 THEN 0 ELSE at[1], 4 + i)
     ELSE ContextBar(p[4], last.close, last.up, last.down, at[1], at[2])]
ViewSet == {[bars |-> ContextBars(p, last, at), rush |-> r] :
              p \in Paths, last \in LastBars, at \in Hours, r \in BOOLEAN}
DoubtSet == {e \in Evidence : e.near => e.event}

(* The backtests: six bars, a detector that follows the last move.           *)
Follow(w) ==
  LET n == Len(w)
      d == IF n < 2 THEN 0 ELSE w[n].close - w[n - 1].close
  IN  [direction |-> IF d > 0 THEN "BUY" ELSE IF d < 0 THEN "SELL" ELSE "WAIT",
       strategy |-> "trend_following", sure |-> n < 3 \/ w[n].close # w[n - 2].close]
Moments == {[off |-> FALSE, hour |-> 8, noise |-> 4, draw |-> 30],
            [off |-> TRUE, hour |-> 23, noise |-> 30, draw |-> -60],
            [off |-> FALSE, hour |-> 21, noise |-> 30, draw |-> 200]}
TestBar(o, c, r, at) ==
  [open |-> o, close |-> c, high |-> Max({o, c}) + r, low |-> Min({o, c}) - r,
   fills |-> at.hour # 21 \/ c # 60, now |-> at, adx |-> IF r = 0 THEN 20 ELSE 30,
   volume |-> IF c = 120 THEN 31 ELSE 10, override |-> IF at.off THEN "extreme" ELSE "none",
   emergency |-> FALSE, deviation |-> at.hour = 21]
HistorySet == {[i \in 1 .. 6 |-> TestBar(IF i = 1 THEN 0 ELSE c[i - 1], c[i], r, at)] :
                 c \in {f \in [1 .. 6 -> {0, 60, 120}] : f[1] < 120}, r \in {0, 40}, at \in Moments}
FoldPlan == [number |-> 2, purge |-> 1, embargo |-> 1]

(* The sizing: an ordinary trade with any stops near and far, and with any    *)
(* circumstances.                                                            *)
Usual == [trades |-> 0, won |-> 0, gain |-> 1, loss |-> 1]
Ordinary ==
  [direction |-> "BUY", atr |-> 100, usual |-> 100, support |-> <<-150, -400>>,
   resistance |-> <<150, 400>>, zones |-> {-90, 120}, session |-> "london", intent |-> 70,
   lift |-> 80, tolerance |-> 2, losses |-> 0, down |-> 0, limits |-> TRUE, gbp |-> 0,
   chf |-> 0, regime |-> "", strength |-> 50, swings |-> 100, record |-> Usual,
   account |-> 1, alarm |-> FALSE, volatile |-> FALSE, uncertain |-> FALSE]
Sessions == {"asian", "overlap", "weekend", "unknown"}
Stops ==
  {[Ordinary EXCEPT !.direction = d, !.atr = a, !.support = s, !.resistance = r, !.zones = z,
                    !.session = at, !.volatile = v, !.alarm = a > 200] :
     d \in {"BUY", "SELL", "WAIT"}, a \in {0, 60, 290, 1500},
     s \in {<<>>, <<-20, -300>>, <<-1500>>}, r \in {<<>>, <<30, 200>>},
     z \in {{}, {-500, -60}, {40, 300}, {-70, 700}}, at \in Sessions \ {"unknown"}, v \in BOOLEAN}
Circumstances ==
  {[Ordinary EXCEPT !.intent = i, !.lift = l, !.tolerance = t, !.losses = n, !.down = w,
                    !.gbp = g, !.chf = c, !.uncertain = u, !.session = at] :
     i \in {-1, 30, 50, 90}, l \in {50, 100}, t \in {1, 3}, n \in {0, 1, 2}, w \in {0, 2, 5},
     g \in {0, 1}, c \in {-1, 1}, u \in BOOLEAN, at \in {"overlap", "unknown"}}
Records == {Usual, [trades |-> 20, won |-> 15, gain |-> 3, loss |-> 2],
            [trades |-> 30, won |-> 9, gain |-> 2, loss |-> 2],
            [trades |-> 25, won |-> 25, gain |-> 2, loss |-> 0]}
Sizes ==
  {[Ordinary EXCEPT !.direction = "SELL", !.atr = a, !.regime = r, !.strength = s, !.swings = v,
                    !.record = k, !.account = b, !.losses = 2, !.limits = ok] :
     a \in {0, 70, 400}, r \in {"", "trending", "ranging", "breakout"}, s \in {0, 40, 100},
     v \in {30, 400}, k \in Records, b \in {0, 1, 40}, ok \in BOOLEAN}
ProposalSet == Stops \cup Circumstances \cup Sizes

LongestRest == 1   \* bound on the ticks of a market that stands still
MemoryTTL == [yfinance |-> 2, oanda |-> 1, tiingo |-> 2, alphavantage |-> 2]
RecipientList == <<"c1", "c2">>
-----------------------------------------------------------------------------
AnyScene == CHOOSE s \in SceneSet : TRUE
AnyChart == CHOOSE c \in ChartSet : TRUE
AnyView == CHOOSE v \in ViewSet : TRUE
AnyHistory == CHOOSE h \in HistorySet : TRUE
AnyProposal == Ordinary

Init ==
  /\ focus \in {"choice", "chart", "context", "backtest", "price", "candles", "pool",
                "notices", "sizing", "world"}
  /\ \E s \in IF focus = "choice" THEN Scenes \cup Ballots ELSE {AnyScene} : ChoiceStart(s)
  /\ \E c \in IF focus = "chart" THEN Charts \cup Confluences ELSE {AnyChart} : ChartStart(c)
  /\ \E v \in IF focus = "context" THEN Views \cup Doubts ELSE {AnyView} : ContextStart(v)
  /\ \E h \in IF focus = "backtest" THEN Histories ELSE {AnyHistory} : BacktestStart(h)
  /\ \E p \in IF focus = "sizing" THEN Proposals ELSE {AnyProposal} : SizingStart(p)
  /\ MarketInit /\ PoolInit /\ NoticesInit /\ WorldInit

Choice ==
  /\ focus = "choice" /\ ChoiceNext
  /\ UNCHANGED <<focus, chartVars, contextVars, backtestVars, marketVars, poolVars, noticesVars, sizingVars, worldVars>>
Chart ==
  /\ focus = "chart" /\ ChartNext
  /\ UNCHANGED <<focus, choiceVars, contextVars, backtestVars, marketVars, poolVars, noticesVars, sizingVars, worldVars>>
Context ==
  /\ focus = "context" /\ ContextNext
  /\ UNCHANGED <<focus, choiceVars, chartVars, backtestVars, marketVars, poolVars, noticesVars, sizingVars, worldVars>>
Replays ==
  /\ focus = "backtest" /\ BacktestNext
  /\ UNCHANGED <<focus, choiceVars, chartVars, contextVars, marketVars, poolVars, noticesVars, sizingVars, worldVars>>
Data ==
  /\ \/ focus = "price" /\ PriceNext
     \/ focus = "candles" /\ CandleNext
     \/ focus = "price" /\ MarketTick /\ still' <= LongestRest
     \/ focus = "candles" /\ MarketTick /\ still' = 0   \* nothing to the candles' ages
  /\ UNCHANGED <<focus, choiceVars, chartVars, contextVars, backtestVars, poolVars, noticesVars, sizingVars, worldVars>>
Pool ==
  /\ focus = "pool" /\ PoolNext
  /\ UNCHANGED <<focus, choiceVars, chartVars, contextVars, backtestVars, marketVars, noticesVars, sizingVars, worldVars>>
Told ==
  /\ focus = "notices" /\ NoticesNext
  /\ UNCHANGED <<focus, choiceVars, chartVars, contextVars, backtestVars, marketVars, poolVars, sizingVars, worldVars>>
Sizing ==
  /\ focus = "sizing" /\ SizingNext
  /\ UNCHANGED <<focus, choiceVars, chartVars, contextVars, backtestVars, marketVars, poolVars,
                 noticesVars, worldVars>>

Picture ==
  /\ focus = "world" /\ WorldNext
  /\ UNCHANGED <<focus, choiceVars, chartVars, contextVars, backtestVars, marketVars, poolVars,
                 noticesVars, sizingVars>>

Next == Choice \/ Chart \/ Context \/ Replays \/ Data \/ Pool \/ Told \/ Sizing \/ Picture

Spec == Init /\ [][Next]_vars
-----------------------------------------------------------------------------
\* Nothing has a taste for one side of the market: the strategies and the vote,
\* the charts and the timeframes, the zones and the intent, the stops and the
\* sizes, each turned upside down, say the opposite.
Mirrored == Impartial /\ ChartsMirrored /\ IntentMirrored /\ SizingMirrored /\ ThesesMirrored

\* What is doubtful or dangerous is never followed with more confidence or size.
CautionKept == DoubtNeverHelps /\ CautionNeverEnlarges /\ StandsAside

\* What is not marked as cached is a quote of this call, late only with a
\* warning, and no candle was fetched longer ago than the two caches it went
\* through allow together.
DataFresh == PricesMarked /\ CandlesFresh
=============================================================================
