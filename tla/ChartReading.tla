---------------------------- MODULE ChartReading ----------------------------
(* What TechnicalAnalysisSkill.full reads from candles: the swing points, the *)
(* classical patterns and the levels made of them, the bias of the            *)
(* indicators, the confidence a pattern keeps in its surroundings; and the    *)
(* verdict of MultiTimeframeConfluenceSkill.  Pure computations, each without *)
(* an await: one step.  Prices in units of ten pips, the tolerance of the     *)
(* patterns; confidences in percent.                                          *)
EXTENDS Integers, FiniteSets, Sequences, SequencesExt, Ordering

CONSTANTS SwingWindow,  \* bars a swing point stands out on each side: 5, for levels 3
          Gap,          \* bars between two tops, 5
          Charts,       \* the closes and surroundings looked at
          Confluences   \* the readings of several timeframes looked at

\* A chart: its closes, no more than the fifty _in_range_midpoint looks back on, and
\* what is known of the market around its patterns.
Zoning == [price : Int, strong : BOOLEAN,
           kind : {"session_high", "session_low", "previous_day_high", "previous_day_low",
                   "weekly_high", "weekly_low", "psychological", "equal_highs", "equal_lows",
                   "order_block"}]
Backdrop == [session : {"asian", "london", "overlap", "newyork", "closing", "weekend", "unknown"},
             move : {"up", "down", "range", "breakout_pending"}, sweep : BOOLEAN,
             zones : SUBSET Zoning, bias : {"bullish", "bearish", "neutral"},
             news : BOOLEAN, spike : BOOLEAN]
PlottedChart == [close : {s \in Seq(Nat) : Len(s) >= 1 /\ Len(s) <= 50}, around : Backdrop]

\* What analyze says of one timeframe, or that it has too few candles.
Quote == [rsi : {30, 42, 50, 58, 70}, up : BOOLEAN, ema : {"up", "down", "mixed"}, adx : {20, 30}]
Unknown == [rsi |-> 0, up |-> FALSE, ema |-> "none", adx |-> 0]

ASSUME ChartAssumption ==
  /\ SwingWindow \in Nat \ {0} /\ Gap \in Nat
  /\ \A c \in Charts : c \in PlottedChart
  /\ \A q \in Confluences : /\ DOMAIN q = {"M15", "H1", "H4", "D1"}
                            /\ \A f \in DOMAIN q : q[f] \in Quote \cup {Unknown}

VARIABLES chart,  \* what is read
          reading \* what came of it

chartVars == <<chart, reading>>

Apart(a, b) == IF a > b THEN a - b ELSE b - a
If(condition, points) == IF condition THEN points ELSE 0
Final(s, n) == SubSeq(s, IF Len(s) > n THEN Len(s) - n + 1 ELSE 1, Len(s))

\* Bars as high (as low) as every bar around them.
Inner(close) == (SwingWindow + 1) .. (Len(close) - SwingWindow)
Around(close, i) == {close[j] : j \in (i - SwingWindow) .. (i + SwingWindow)}
SwingHighs(close) ==
  Ascending({i \in Inner(close) : \A p \in Around(close, i) : close[i] >= p})
SwingLows(close) ==
  Ascending({i \in Inner(close) : \A p \in Around(close, i) : close[i] <= p})
SwingPrices(close, at) == [k \in DOMAIN at |-> close[at[k]]]

\* The price a pattern is at, in half units: the middle of two tops is one.
NoLevel == -1
Pattern(name, type, level, confidence) ==
  [name |-> name, type |-> type, level |-> level, confidence |-> confidence]
\* The last one of those that begin at the positions of a set.
LastOf(where, pattern(_)) ==
  IF where = {} THEN <<>> ELSE <<pattern(CHOOSE k \in where : \A j \in where : j <= k)>>

\* Two tops (or bottoms) one after the other, of one height.
Twins(close, at) ==
  {k \in 1 .. Len(at) - 1 : /\ Apart(close[at[k]], close[at[k + 1]]) <= 1
                            /\ at[k + 1] - at[k] >= Gap}
Twin(name, type, a, b) == Pattern(name, type, a + b, IF a = b THEN 95 ELSE 90)
DoubleTop(close) ==
  LET at == SwingHighs(close)
  IN  LastOf(Twins(close, at),
             LAMBDA k : Twin("double top", "bearish", close[at[k]], close[at[k + 1]]))
DoubleBottom(close) ==
  LET at == SwingLows(close)
  IN  LastOf(Twins(close, at),
             LAMBDA k : Twin("double bottom", "bullish", close[at[k]], close[at[k + 1]]))

\* There is no detector of the inverse pattern.
HeadShoulders(close) ==
  LET p == SwingPrices(close, SwingHighs(close))
      heads == {k \in 1 .. Len(p) - 2 : /\ p[k + 1] > p[k] /\ p[k + 1] > p[k + 2]
                                        /\ Apart(p[k], p[k + 2]) <= 2}
  IN  LastOf(heads, LAMBDA k : Pattern("head & shoulders", "bearish", 2 * p[k + 1],
                                      60 + (2 * p[k + 1] - p[k] - p[k + 2]) \div 2))

Rising(p) == \A k \in 1 .. Len(p) - 1 : p[k] <= p[k + 1]
Falling(p) == \A k \in 1 .. Len(p) - 1 : p[k] >= p[k + 1]

\* Highs and lows that all stay the same are an ascending channel, too.
Channel(highs, lows) ==
  LET h == Final(highs, 4)
      l == Final(lows, 4)
  IN  IF Rising(h) /\ Rising(l) THEN <<Pattern("ascending channel", "bullish", 2 * Last(h), 65)>>
      ELSE IF Falling(h) /\ Falling(l) THEN <<Pattern("descending channel", "bearish", 2 * Last(h), 65)>>
      ELSE <<>>

\* Mutant: lows that do not move do rise.
TriangleLoose(highs, lows) ==
  LET lower == Last(highs) < Last(Front(highs))
      higher == Last(lows) >= Last(Front(lows))
  IN  IF lower /\ higher THEN <<Pattern("symmetrical triangle", "neutral", NoLevel, 60)>>
      ELSE IF lower THEN <<Pattern("descending triangle", "bearish", NoLevel, 65)>>
      ELSE IF higher THEN <<Pattern("ascending triangle", "bullish", NoLevel, 65)>>
      ELSE <<>>

Triangle(highs, lows) ==
  LET lower == Last(highs) < Last(Front(highs))
      higher == Last(lows) > Last(Front(lows))
  IN  IF lower /\ higher THEN <<Pattern("symmetrical triangle", "neutral", NoLevel, 60)>>
      ELSE IF lower THEN <<Pattern("descending triangle", "bearish", NoLevel, 65)>>
      ELSE IF higher THEN <<Pattern("ascending triangle", "bullish", NoLevel, 65)>>
      ELSE <<>>

DetectAll(close) ==
  LET highs == SwingPrices(close, SwingHighs(close))
      lows == SwingPrices(close, SwingLows(close))
  IN  DoubleTop(close) \o DoubleBottom(close) \o HeadShoulders(close)
        \o (IF Len(highs) < 2 \/ Len(lows) < 2 THEN <<>>
            ELSE Channel(highs, lows) \o Triangle(highs, lows))

Typed(patterns, type) == Cardinality({p \in patterns : p.type = type})
PatternSignal(patterns) ==
  IF Typed(patterns, "bullish") > Typed(patterns, "bearish") THEN "bullish"
  ELSE IF Typed(patterns, "bearish") > Typed(patterns, "bullish") THEN "bearish"
  ELSE "neutral"

Near(level, zone) == level # NoLevel /\ Apart(level, 2 * zone.price) <= 2
Beyond(type, close, zone) ==
  /\ zone.strong
  /\ \/ type = "bullish" /\ 2 * Last(close) > 2 * zone.price + 3
     \/ type = "bearish" /\ 2 * Last(close) < 2 * zone.price - 3
MidRange(level, close) ==
  LET low == 2 * Min(ToSet(close))
      range == 2 * Max(ToSet(close)) - low
  IN  level # NoLevel /\ range > 0 /\ 4 * range <= 10 * (level - low) /\ 10 * (level - low) <= 6 * range

\* What the surroundings take from, or add to, the confidence.
Penalty(p, close, s) ==
  LET reversal == p.name \in {"double top", "double bottom", "head & shoulders"}
      head == p.name = "head & shoulders"
      twin == p.name \in {"double top", "double bottom"}
  IN  If(s.session = "weekend", -30) + If(s.session = "asian" /\ reversal, -20)
      + If(reversal /\ p.type = "bearish" /\ s.move = "up", -25)
      + If(reversal /\ p.type = "bullish" /\ s.move = "down", -25)
      + If(s.sweep /\ \E z \in s.zones : Near(p.level, z), -20)
      + If(\E z \in s.zones : Beyond(p.type, close, z), 15)
      + If(head /\ s.bias = "bullish", -20) + If(head /\ s.news, -25)
      + If(head /\ MidRange(p.level, close), -15)
      + If(p.name = "double top" /\ \E z \in s.zones : Near(p.level, z) /\ z.kind = "session_high", 10)
      + If(p.name = "double bottom" /\ \E z \in s.zones : Near(p.level, z) /\ z.kind = "session_low", 10)
      + If(twin /\ s.spike, 15)

Adjusted(p, close, s) ==
  [p EXCEPT !.confidence = Max({0, Min({100, @ + Penalty(p, close, s)})}), !.level = NoLevel]

\* Prices of swings no further apart than 15 pips make one level, their mean.
Swings(close) == SwingPrices(close, SwingHighs(close)) \o SwingPrices(close, SwingLows(close))
Clusters(swings) ==
  {{q \in ToSet(swings) : q >= p /\ p .. q \subseteq ToSet(swings)} :
     p \in {p \in ToSet(swings) : p - 1 \notin ToSet(swings)}}
Centre(swings, cluster) ==
  LET upTo[k \in 0 .. Len(swings)] ==
        IF k = 0 THEN [sum |-> 0, of |-> 0]
        ELSE IF swings[k] \in cluster
          THEN [sum |-> upTo[k - 1].sum + swings[k], of |-> upTo[k - 1].of + 1]
          ELSE upTo[k - 1]
  IN  upTo[Len(swings)]
\* All of them: of a side the code names the nearest five.
Levels(close) == {Centre(Swings(close), c) : c \in Clusters(Swings(close))}
Support(close) == {l \in Levels(close) : l.sum < Last(close) * l.of}
Resistance(close) == {l \in Levels(close) : l.sum > Last(close) * l.of}

\* One timeframe: RSI, MACD above its signal, and how the averages lie.
FrameVote(q) ==
  If(q.rsi > 60, 1) - If(q.rsi < 40, 1) + (IF q.up THEN 1 ELSE -1)
  + If(q.ema = "up", 1) - If(q.ema = "down", 1)
OverallBias(q) ==
  LET score == If(q.rsi > 55, 1) - If(q.rsi < 45, 1) + (IF q.up THEN 1 ELSE -1)
               + If(q.ema = "up", 1) - If(q.ema = "down", 1)
  IN  IF score >= 2 THEN "bullish" ELSE IF score <= -2 THEN "bearish" ELSE "neutral"

TFWeight == [M15 |-> 15, H1 |-> 25, H4 |-> 30, D1 |-> 30]
Strength(q) == IF q.adx > 25 THEN 12 ELSE 8
\* The timeframes that were read and lean to one side, and their weight in thousandths.
Leaning(quotes, sign) == {f \in DOMAIN quotes : quotes[f] # Unknown /\ sign * FrameVote(quotes[f]) > 0}
Together(of) == of.M15 + of.H1 + of.H4 + of.D1
WeightOf(quotes, frames) ==
  Together([f \in DOMAIN quotes |-> If(f \in frames, TFWeight[f] * Strength(quotes[f]))])

Confluence(quotes) ==
  LET known == {f \in DOMAIN quotes : quotes[f] # Unknown}
      total == Together([f \in DOMAIN quotes |-> If(f \in known, TFWeight[f])])
      bull == WeightOf(quotes, Leaning(quotes, 1))
      bear == WeightOf(quotes, Leaning(quotes, -1))
      verdict == IF known # {} /\ bull > bear /\ bull > 5 * total THEN "bullish"
                 ELSE IF known # {} /\ bear > bull /\ bear > 5 * total THEN "bearish" ELSE "mixed"
      aligned == CASE verdict = "bullish" -> Cardinality(Leaning(quotes, 1))
                   [] verdict = "bearish" -> Cardinality(Leaning(quotes, -1)) [] OTHER -> 0
  IN  [verdict |-> IF known = {} THEN "failed" ELSE verdict,
       confidence |-> IF known = {} THEN 0
                      ELSE Min({95, (10 * Apart(bull, bear)) \div total + 5 * aligned})]

Unread == [patterns |-> {}, support |-> {}, resistance |-> {}, biases |-> {},
           verdict |-> "unread", confidence |-> 0]

ReadChart(c) ==
  LET patterns == {Adjusted(p, c.close, c.around) : p \in ToSet(DetectAll(c.close))}
  IN  [Unread EXCEPT !.patterns = patterns, !.verdict = PatternSignal(patterns),
                     !.support = Support(c.close), !.resistance = Resistance(c.close)]
ReadFrames(quotes) ==
  LET c == Confluence(quotes)
  IN  [Unread EXCEPT !.verdict = c.verdict, !.confidence = c.confidence,
         !.biases = {[frame |-> f, bias |-> OverallBias(quotes[f])] :
                       f \in {f \in DOMAIN quotes : quotes[f] # Unknown}}]

ChartStart(c) == chart = c /\ reading = Unread
ChartInit == \E c \in Charts \cup Confluences : ChartStart(c)

FullAnalysis ==
  /\ "close" \in DOMAIN chart /\ reading = Unread
  /\ reading' = ReadChart(chart) /\ UNCHANGED chart

FullConfluence ==
  /\ "H1" \in DOMAIN chart /\ reading = Unread
  /\ reading' = ReadFrames(chart) /\ UNCHANGED chart

ChartNext == FullAnalysis \/ FullConfluence

ChartSpec == ChartInit /\ [][ChartNext]_chartVars
----------------------------------------------------------------------------
Turned(x) ==
  CASE x = "bullish" -> "bearish" [] x = "bearish" -> "bullish" [] x = "up" -> "down"
    [] x = "down" -> "up" [] x = "session_high" -> "session_low"
    [] x = "session_low" -> "session_high" [] x = "double top" -> "double bottom"
    [] x = "double bottom" -> "double top" [] x = "ascending channel" -> "descending channel"
    [] x = "descending channel" -> "ascending channel"
    [] x = "ascending triangle" -> "descending triangle"
    [] x = "descending triangle" -> "ascending triangle" [] OTHER -> x

Axis(c) == Max(ToSet(c.close)) + Min(ToSet(c.close))
MirrorChart(c) ==
  [close |-> [k \in DOMAIN c.close |-> Axis(c) - c.close[k]],
   around |-> [c.around EXCEPT !.move = Turned(@),
                 !.zones = {[z EXCEPT !.price = Axis(c) - @, !.kind = Turned(@)] : z \in @}]]
MirrorQuotes(quotes) ==
  [f \in DOMAIN quotes |-> IF quotes[f] = Unknown THEN Unknown
                           ELSE [quotes[f] EXCEPT !.rsi = 100 - @, !.up = ~@, !.ema = Turned(@)]]
MirrorLevels(c, levels) == {[l EXCEPT !.sum = Axis(c) * l.of - @] : l \in levels}
\* The channel's reference price is its upper line in both directions.
Paired(patterns) ==
  {[p EXCEPT !.confidence = IF p.name \in {"ascending channel", "descending channel"} THEN 0 ELSE @] :
     p \in {p \in patterns : p.name # "head & shoulders"}}

\* Nothing moved at all: "ascending" by the order of the branches.
Motionless(close) ==
  LET h == SwingPrices(close, SwingHighs(close))
      l == SwingPrices(close, SwingLows(close))
  IN  Rising(Final(h, 4)) /\ Falling(Final(h, 4)) /\ Rising(Final(l, 4)) /\ Falling(Final(l, 4))

\* The chart turned upside down reads the other way round: every top that is
\* found is the bottom that would be found, with the same confidence, support
\* is resistance, and timeframes agree on the opposite; but for the head and
\* shoulders, which has no inverse.
ChartsMirrored ==
  /\ ("close" \in DOMAIN chart /\ reading # Unread /\ ~Motionless(chart.close)) =>
       LET m == ReadChart(MirrorChart(chart))
       IN  /\ Paired(m.patterns) = {[p EXCEPT !.name = Turned(@), !.type = Turned(@)] : p \in Paired(reading.patterns)}
           /\ m.support = MirrorLevels(chart, reading.resistance)
           /\ m.resistance = MirrorLevels(chart, reading.support)
  /\ ("H1" \in DOMAIN chart /\ reading # Unread) =>
       ReadFrames(MirrorQuotes(chart)) =
         [reading EXCEPT !.verdict = Turned(@), !.biases = {[b EXCEPT !.bias = Turned(@)] : b \in @}]
=============================================================================
