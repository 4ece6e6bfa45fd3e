--------------------------- MODULE StrategyChoice ---------------------------
(* TradingStrategySkill.detect_signal: which strategy the StrategyEngine      *)
(* chooses for a market, the direction and the confidence it gives, what the  *)
(* session, the uncertainty, the higher timeframe, remembered regimes and what *)
(* was learned of the patterns at hand make of it; and the vote of the        *)
(* ConflictArbiter.  Pure computations, each without an await: one step.      *)
(* Indicators come in the bands their thresholds make; confidences in         *)
(* hundredths of a percent, rounded down.                                     *)
EXTENDS Integers, FiniteSets

CONSTANTS Scenes, \* the markets and circumstances looked at
          Ballots \* the votes looked at

VARIABLES scene,  \* what _detect reads of the context
          signals \* context.signals

choiceVars == <<scene, signals>>

\* ADX, RSI, z-score in tenths, sign of the MACD histogram, ATR in percent of
\* its average, width of the bands in hundredths of a percent of the price,
\* the level within 20 pips, and the structure.
Market == [adx : {15, 22, 27, 35}, rsi : {20, 28, 50, 72, 80}, z : {-21, -16, -13, 0, 13, 16, 21},
           hist : {-1, 0, 1}, atr : {70, 100, 150, 200}, width : {5, 10, 50},
           near : {"support", "resistance", "none"}, bias : {"bullish", "bearish", "neutral"}]

\* What the pipeline has left in metadata and user_prefs.  taught: the average
\* of the tracker's multipliers, in hundredths, of the patterns at hand of each
\* bias; 100 for none.  It learns by a pattern's name.
Ambient == [session : {"asian", "london", "overlap", "closing", "unset"}, adjust : {50, 100},
            high : BOOLEAN, mtf : {"Bullish", "Bearish", "Neutral"},
            memory : {"poor", "good", "none"}, emergency : BOOLEAN,
            oversold : {25, 30}, overbought : {70, 75}, trend : {25, 30},
            taught : [{"bullish", "bearish"} -> {50, 100, 150}]]
Unlearned == [bias \in {"bullish", "bearish"} |-> 100]
Calm == [session |-> "unset", adjust |-> 100, high |-> FALSE, mtf |-> "Neutral",
         memory |-> "none", emergency |-> FALSE, oversold |-> 30, overbought |-> 70, trend |-> 25,
         taught |-> Unlearned]

\* What the tools tell the arbiter, and when.
Tools == {"liquidity", "technical", "pattern", "fundamental", "strategy"}
Ballot == [says : [Tools -> {"BUY", "SELL", "NEUTRAL", "silent"}],
           session : {"asian", "overlap", "other"}, regime : {"trending", "ranging", "volatile"}]

ASSUME ChoiceAssumption ==
  /\ \A s \in Scenes :
       /\ DOMAIN s = {"market", "ambient"}
       /\ s.market \in [adx : Int, rsi : Int, z : Int, hist : Int, atr : Int, width : Int,
                        near : {"support", "resistance", "none"},
                        bias : {"bullish", "bearish", "neutral"}]
       /\ {"session", "adjust", "high", "mtf", "memory", "emergency", "oversold", "overbought", "trend",
           "taught"} \subseteq DOMAIN s.ambient
       /\ s.ambient.mtf \in {"Bullish", "Bearish", "Neutral"}
       /\ s.ambient.oversold \in Int /\ s.ambient.overbought \in Int
       /\ s.ambient.oversold <= s.ambient.overbought
       /\ DOMAIN s.ambient.taught = {"bullish", "bearish"}
  /\ Ballots \subseteq Ballot

When(condition, points) == IF condition THEN points ELSE 0
AtMost(limit, n) == IF n > limit THEN limit ELSE n
Abs(n) == IF n < 0 THEN -n ELSE n

\* The bands are two deviations wide, so that |z| > 2 is outside of them.
Outside(m) == Abs(m.z) > 20
Extreme(m) == m.rsi >= 75 \/ m.rsi <= 25

\* RegimeAdaptiveEngine.detect_regime; a band width in percent is compared
\* with 0.02, so that it is always wide enough.
BaseRegime(m) ==
  CASE m.atr > 180                                    -> "volatile"
    [] m.atr <= 180 /\ m.adx > 25                     -> "trending"
    [] m.atr <= 180 /\ m.adx \in 21 .. 25 /\ m.width > 2 -> "breakout"
    [] OTHER                                          -> "ranging"

\* Nearest levels are the nearest ones above and below the price, so that the
\* price has never broken one: no trigger of its own makes a breakout.
Regime(m) ==
  LET base == BaseRegime(m) IN
  IF /\ Extreme(m)
     /\ \/ base = "ranging" /\ (Outside(m) \/ m.width <= 8)
        \/ base = "volatile" /\ Outside(m)
    THEN "breakout" ELSE base

\* strength < 0.4 is possible in a range only.
Ambiguous(m) == Regime(m) = "ranging" /\ Abs(m.rsi - 50) * 18 < 50 /\ Abs(m.z) * 45 < 50

Signal(direction, strategy, confidence) ==
  [direction |-> direction, strategy |-> strategy, confidence |-> confidence]

Along(bias) == CASE bias = "bullish" -> "BUY" [] bias = "bearish" -> "SELL" [] OTHER -> "WAIT"

\* The sign a direction has.
Towards(d) == CASE d = "BUY" -> 1 [] d = "SELL" -> -1 [] OTHER -> 0

\* Confirmations of a trend; patterns carry no "bias", which would add to them.
TrendPoints(m, a, d) ==
  When(d # "WAIT", 1500)                                           \* structure
  + When(m.atr > 125, 1000) - When(m.atr < 75, 500)
  + When(m.adx > a.trend + 5, 1500) + When(m.adx > a.trend /\ m.adx <= a.trend + 5, 800)
  + When(d # "WAIT" /\ m.hist = Towards(d), 1000)                   \* MACD
  + When(35 < m.rsi /\ m.rsi < 65, 500)                            \* room left
  + When(d # "WAIT" /\ m.z * Towards(d) \in -5 .. 15, 1000)
  - When(d # "WAIT" /\ m.z * Towards(d) > 20, 2000)                 \* chased

TrendFollowing(m, a) ==
  LET d == Along(m.bias) IN
  Signal(d, "trend_following", AtMost(9500, 4000 + TrendPoints(m, a, d)))

VolatileDefensive(m, a) ==
  IF m.adx >= 30
    THEN LET s == TrendFollowing(m, a) IN [s EXCEPT !.confidence = AtMost(6000, (@ * 7) \div 10)]
    ELSE Signal("WAIT", "volatile_defensive", 1500)

\* Without a broken level a breakout has no direction.
Breakout == Signal("WAIT", "breakout", 3500)

\* Within 0.1 % of a band.
AtLower(m) == (m.z + 20) * m.width <= 400
AtUpper(m) == (20 - m.z) * m.width <= 400

\* An oversold market is bought, whatever else; an overbought one sold.
Fade(m, a) ==
  IF m.rsi < a.oversold \/ m.z <= -13 THEN "BUY"
  ELSE IF m.rsi > a.overbought \/ m.z >= 13 THEN "SELL" ELSE "WAIT"

\* Mutant: near resistance a range is bought and sold alike.
FadePointsTypo(m, a, d) ==
  When(d # "WAIT", 1500)
  + When(d = "BUY" /\ m.rsi < a.oversold /\ m.z <= -13, 800)
  + When(d = "SELL" /\ m.rsi > a.overbought /\ m.z >= 13, 800)
  + When(d # "WAIT" /\ Abs(m.z) >= 20, 1000) + When(d # "WAIT" /\ Abs(m.z) \in 15 .. 19, 500)
  + When(d = "BUY" /\ m.near # "none", 1500) + When(d = "SELL" /\ m.near = "resistance", 1500)
  + When(d = "BUY" /\ AtLower(m), 1000) + When(d = "SELL" /\ AtUpper(m), 1000)
  - When(m.width < 12, 800)

FadePoints(m, a, d) ==
  When(d # "WAIT", 1500)
  + When(d = "BUY" /\ m.rsi < a.oversold /\ m.z <= -13, 800)
  + When(d = "SELL" /\ m.rsi > a.overbought /\ m.z >= 13, 800)
  + When(d # "WAIT" /\ Abs(m.z) >= 20, 1000) + When(d # "WAIT" /\ Abs(m.z) \in 15 .. 19, 500)
  + When(d = "BUY" /\ m.near = "support", 1500) + When(d = "SELL" /\ m.near = "resistance", 1500)
  + When(d = "BUY" /\ AtLower(m), 1000) + When(d = "SELL" /\ AtUpper(m), 1000)
  - When(m.width < 12, 800)

MeanReversion(m, a) ==
  LET d == Fade(m, a) IN
  IF m.adx >= 25 THEN Signal("WAIT", "mean_reversion", 2000)
  ELSE Signal(d, "mean_reversion", AtMost(9000, 3500 + FadePoints(m, a, d)))

Chosen(m, a) ==
  LET r == Regime(m)
      s == CASE r = "trending" -> TrendFollowing(m, a)
             [] r = "breakout" -> Breakout
             [] r = "volatile" -> VolatileDefensive(m, a)
             [] OTHER          -> MeanReversion(m, a) IN
  IF Ambiguous(m) THEN [s EXCEPT !.confidence = (@ * 85) \div 100] ELSE s

\* _apply_session_gating.
Multiplier(session) == CASE session = "asian" -> 90 [] session = "overlap" -> 105 [] OTHER -> 100
Gated(s, a) ==
  IF a.session = "closing" THEN Signal("WAIT", s.strategy, 0)
  ELSE IF s.direction = "WAIT" \/ a.session = "unset" THEN s
  ELSE [s EXCEPT !.confidence = AtMost(9500, (@ * Multiplier(a.session)) \div 100)]

\* _apply_uncertainty: the macro data has no "differential", so nothing
\* confirms a direction in high uncertainty.
Doubted(s, a) ==
  IF a.high /\ s.direction # "WAIT" THEN Signal("WAIT", "uncertain", 0)
  ELSE [s EXCEPT !.confidence = AtMost(9500, (@ * a.adjust) \div 100)]

\* The higher timeframe's bias is written with a capital letter, and compared
\* with "bearish" and "bullish".
Opposed(s, a) ==
  \/ s.direction = "BUY" /\ a.mtf = "bearish"
  \/ s.direction = "SELL" /\ a.mtf = "bullish"
Confirmed(s, a) == IF Opposed(s, a) THEN [s EXCEPT !.confidence = @ \div 2] ELSE s

\* Similar regimes of the past, at least two of three.
Remembered(s, a) ==
  IF s.direction = "WAIT" \/ a.memory = "none" THEN s
  ELSE IF a.memory = "poor" THEN [s EXCEPT !.confidence = (@ * 6) \div 10]
  ELSE [s EXCEPT !.confidence = AtMost(9500, (@ * 12) \div 10)]

\* Mutant: what bullish patterns taught is applied to a sale as well.
TaughtByBullish(d, a) == a.taught["bullish"]

\* _apply_pattern_multipliers: the patterns that speak for the direction.
TaughtBy(d, a) == IF d = "BUY" THEN a.taught["bullish"] ELSE a.taught["bearish"]
Taught(s, a) ==
  IF s.direction \notin {"BUY", "SELL"} THEN s
  ELSE [s EXCEPT !.confidence = AtMost(9500, (@ * TaughtBy(s.direction, a)) \div 100)]

\* _fallback_to_technical_only, in an emergency: neither session nor doubt, and
\* nothing that was learned.
Fallback(m) ==
  LET d == IF m.rsi >= 55 /\ m.hist > 0 THEN "BUY"
           ELSE IF m.rsi <= 45 /\ m.hist < 0 THEN "SELL" ELSE "WAIT" IN
  IF m.adx > 25 /\ d # "WAIT" THEN Signal(d, "STRONG_SIGNAL", 8000)
  ELSE IF m.adx < 20 THEN Signal("WAIT", "NEUTRAL", 0)
  ELSE Signal(d, "WEAK_SIGNAL", 5000)

Detected(m, a) ==
  IF a.emergency THEN Fallback(m)
  ELSE Taught(Remembered(Confirmed(Doubted(Gated(Chosen(m, a), a), a), a), a), a)

\* The arbiter: what the tools say is weighted by session and regime.  The
\* record of a tool's forecasts would weigh in as well; nothing registers any,
\* so that each has the weight of none.
Base == [liquidity |-> 30, technical |-> 25, pattern |-> 15, fundamental |-> 10, strategy |-> 20]

\* Percentages of RegimeAdaptiveEngine's averages for the indicators.
Momentum == [trending |-> 130, ranging |-> 63, volatile |-> 90]
Oscillators == [trending |-> 60, ranging |-> 135, volatile |-> 100]

SessionFactor(t, s) ==
  CASE s = "asian" /\ t = "pattern"    -> 60
    [] s = "asian" /\ t = "technical"  -> 80
    [] s = "overlap" /\ t = "technical" -> 120
    [] s = "overlap" /\ t = "pattern"  -> 110
    [] OTHER                           -> 100

RegimeFactor(t, r) ==
  (CASE t = "technical" -> Momentum[r] [] t = "pattern" -> Oscillators[r] [] OTHER -> 100)
    * (IF r = "volatile" /\ t # "liquidity" THEN 8 ELSE 10)

Weight(b, t) == IF b.says[t] = "silent" THEN 0
                ELSE Base[t] * SessionFactor(t, b.session) * RegimeFactor(t, b.regime)
Total(of) == of.liquidity + of.technical + of.pattern + of.fundamental + of.strategy
Votes(b, d) == Total([t \in Tools |-> IF b.says[t] = d THEN Weight(b, t) ELSE 0])

\* max over BUY, SELL, NEUTRAL: the first of equals.
Winner(b) ==
  IF Votes(b, "BUY") >= Votes(b, "SELL") /\ Votes(b, "BUY") >= Votes(b, "NEUTRAL") THEN "BUY"
  ELSE IF Votes(b, "SELL") >= Votes(b, "NEUTRAL") THEN "SELL" ELSE "NEUTRAL"

\* Winning tools of one family weigh less, in hundredths.
Diversity(b, w) ==
  LET for == {t \in Tools : b.says[t] = w}
      priced == Cardinality(for \cap {"technical", "pattern", "strategy"})
      free == Cardinality(for \cap {"liquidity", "fundamental"}) IN
  CASE w = "NEUTRAL" \/ Cardinality(for) <= 1 -> 100
    [] w # "NEUTRAL" /\ free = 0 /\ priced >= 2 -> 100 - 25 * (priced - 1)
    [] w # "NEUTRAL" /\ priced = 0 /\ free >= 2 -> 100
    [] OTHER                                  -> 90

\* A diversity below one half takes its part of a majority; the verdict is
\* NEUTRAL below a share that depends on session and regime.
Neutral(b) == CASE b.regime = "volatile" -> 45 [] b.regime = "ranging" -> 38
                [] b.regime = "trending" /\ b.session = "asian" -> 40 [] OTHER -> 35
Confidence(b) ==
  LET all == Total([t \in Tools |-> Weight(b, t)])
      share == (100 * Votes(b, Winner(b))) \div all
      div == Diversity(b, Winner(b)) IN
  IF div < 50 /\ share > 50 THEN (share * (70 + (30 * div) \div 100)) \div 100 ELSE share

Verdict(b) ==
  IF \A t \in Tools : b.says[t] = "silent" THEN "NEUTRAL"
  ELSE IF Confidence(b) < Neutral(b) THEN "NEUTRAL" ELSE Winner(b)

ChoiceStart(s) == scene = s /\ signals = Signal("none", "none", 0)
ChoiceInit == \E s \in Scenes \cup Ballots : ChoiceStart(s)

DetectSignal ==
  /\ "market" \in DOMAIN scene /\ signals.direction = "none"
  /\ signals' = Detected(scene.market, scene.ambient)
  /\ UNCHANGED scene

Vote ==
  /\ "says" \in DOMAIN scene /\ signals.direction = "none"
  /\ signals' = Signal(Verdict(scene), "verdict", 0)
  /\ UNCHANGED scene

ChoiceNext == DetectSignal \/ Vote

ChoiceSpec == ChoiceInit /\ [][ChoiceNext]_choiceVars
----------------------------------------------------------------------------
Swap(x) ==
  CASE x = "BUY" -> "SELL" [] x = "SELL" -> "BUY" [] x = "bullish" -> "bearish"
    [] x = "bearish" -> "bullish" [] x = "support" -> "resistance"
    [] x = "resistance" -> "support" [] OTHER -> x

MirrorMarket(m) ==
  [m EXCEPT !.rsi = 100 - @, !.z = -@, !.hist = -@, !.near = Swap(@), !.bias = Swap(@)]
MirrorAmbient(a) ==
  [a EXCEPT !.oversold = 100 - a.overbought, !.overbought = 100 - a.oversold,
            !.taught = [bias \in {"bullish", "bearish"} |-> a.taught[Swap(bias)]]]

\* Oversold by one measure and overbought by the other.
Torn(m, a) ==
  \/ m.rsi < a.oversold /\ m.z >= 13
  \/ m.rsi > a.overbought /\ m.z <= -13

\* The program has no taste for one side of the market: with every price
\* turned upside down, and with it the tuned thresholds and what was learned of
\* a pattern and of its opposite, the doubled branches of the strategies give
\* the opposite signal with the same confidence, and exchanging the votes
\* exchanges the verdict, unless the evidence contradicts itself or the vote is
\* a draw.  A taste that was learned is a taste: of two opposite patterns with
\* different records it prefers the one that did better.
Impartial ==
  /\ ("market" \in DOMAIN scene /\ signals.direction # "none" /\ ~Torn(scene.market, scene.ambient)) =>
       Detected(MirrorMarket(scene.market), MirrorAmbient(scene.ambient))
         = [signals EXCEPT !.direction = Swap(@)]
  /\ ("says" \in DOMAIN scene /\ signals.direction # "none"
        /\ Votes(scene, "BUY") # Votes(scene, "SELL")) =>
       Verdict([scene EXCEPT !.says = [t \in Tools |-> Swap(scene.says[t])]]) = Swap(signals.direction)
=============================================================================
