---------------------------- MODULE MarketContext ----------------------------
(* What the pipeline reads out of the market before it chooses a strategy:    *)
(* the session, the liquidity zones and the intent LiquidityAwarenessSkill    *)
(* infers from them, and the doubt UncertaintyAssessmentSkill adds up.  Pure  *)
(* computations, each without an await: one step.  Prices in pips; strengths  *)
(* in 300ths, doubt in 200ths; bars are an hour long.                         *)
EXTENDS Integers, FiniteSets, Sequences, SequencesExt, Ordering

CONSTANTS Block,    \* bars an order block breaks out of, 5
          Strongest, \* zones kept, 12
          Views,    \* the bars and sessions looked at
          Doubts    \* the evidence looked at

\* The bars of an hour that are looked at, and whether the last has the volume of a move.
HourBar == [open : Int, close : Int, high : Int, low : Int, day : Nat, hour : 0 .. 23]
MarketView == [bars : {b \in Seq(HourBar) : Len(b) >= 2}, rush : BOOLEAN]

ASSUME ContextAssumption ==
  /\ Block \in Nat \ {0} /\ Strongest \in Nat \ {0}
  /\ \A v \in Views : v \in MarketView
  /\ \A e \in Doubts : {"adx", "rsi", "hist", "types", "session", "near", "event"} \subseteq DOMAIN e
  /\ \A e \in Doubts : "bars" \notin DOMAIN e

VARIABLES view,   \* what is read of the market
          context \* what is left in the metadata

contextVars == <<view, context>>

Plus(condition, points) == IF condition THEN points ELSE 0

\* _detect_session: day of the week from Monday = 0, hour in UTC.
SessionAt(day, hour) ==
  CASE day % 7 >= 5                    -> "weekend"
    [] day % 7 < 5 /\ hour < 7         -> "asian"
    [] day % 7 < 5 /\ hour \in 7 .. 11 -> "london"
    [] day % 7 < 5 /\ hour \in 12 .. 15 -> "overlap"
    [] day % 7 < 5 /\ hour \in 16 .. 20 -> "newyork"
    [] OTHER                           -> "closing"

Zone(level, kind, strength) == [level |-> level, kind |-> kind, strength |-> strength]
At(bars, i) == 24 * bars[i].day + bars[i].hour
Highs(bars, at) == {bars[i].high : i \in at}
Lows(bars, at) == {bars[i].low : i \in at}
LevelReached(bars, level) == {i \in DOMAIN bars : bars[i].low - 2 <= level /\ level <= bars[i].high + 2}

\* The two ends of a stretch of bars.
Ends(bars, at, high, low, strength) ==
  IF at = {} THEN <<>>
  ELSE <<Zone(Max(Highs(bars, at)), high, strength), Zone(Min(Lows(bars, at)), low, strength)>>

Today(bars) == Last(bars).day
Earlier(bars) == {i \in DOMAIN bars : bars[i].day < Today(bars)}
InHours(bars, hours) == {i \in DOMAIN bars : bars[i].day = Today(bars) /\ bars[i].hour \in hours}
DayBefore(bars) == {i \in Earlier(bars) : \A j \in Earlier(bars) : bars[j].day <= bars[i].day}
Week(bars) == {i \in Earlier(bars) : bars[i].day >= Today(bars) - 7}

\* The zones of a function from numbers, in the order of the numbers.
ZonesOf(zone) ==
  LET order == Ascending(DOMAIN zone)
  IN  [k \in DOMAIN order |-> zone[order[k]]]

\* Round levels, fifty pips apart, that were touched twice.
Psychological(bars) ==
  LET all == DOMAIN bars
      round == {50 * k : k \in Min(Lows(bars, all)) \div 50 .. (Max(Highs(bars, all)) + 49) \div 50}
      touched == {p \in round : Cardinality(LevelReached(bars, p)) >= 2}
  IN  ZonesOf([p \in touched |->
        Zone(p, "psychological", Min({270, 150 + 30 * (Cardinality(LevelReached(bars, p)) - 1)}))])

\* Three ends in one bin of five pips.
Bin(p) == 5 * ((p + 2) \div 5)
Equal(ends, kind) ==
  LET inBin(p) == {i \in DOMAIN ends : Bin(ends[i]) = p}
      shared == {p \in {Bin(ends[i]) : i \in DOMAIN ends} : Cardinality(inBin(p)) >= 3}
  IN  ZonesOf([p \in shared |-> Zone(p, kind, 270)])

\* The far end of a bar that closed beyond the bars before it, weaker by the hour.
Before(i) == (i - Block) .. (i - 1)
Broke(bars) ==
  [up |-> {i \in Block + 1 .. Len(bars) : bars[i].close > Max(Highs(bars, Before(i))) + 2},
   down |-> {i \in Block + 1 .. Len(bars) : bars[i].close < Min(Lows(bars, Before(i))) - 2}]
Fading(bars, i) == Max({0, 10 * (24 - (At(bars, Len(bars)) - At(bars, i)))})
OrderBlocks(bars) ==
  ZonesOf([i \in Broke(bars).up |-> Zone(bars[i].low, "order_block", Fading(bars, i))])
    \o ZonesOf([i \in Broke(bars).down |-> Zone(bars[i].high, "order_block", Fading(bars, i))])

\* The strongest, those of one strength in the order they were found.
ByStrength(zones) ==
  LET all == DOMAIN zones
      order == Sorted(all, {p \in all \X all :
                              \/ zones[p[1]].strength > zones[p[2]].strength
                              \/ zones[p[1]].strength = zones[p[2]].strength /\ p[1] < p[2]})
  IN  [k \in all |-> zones[order[k]]]

DetectZones(bars) ==
  LET found == Ends(bars, InHours(bars, 7 .. 11), "session_high", "session_low", 225)
                 \o Ends(bars, InHours(bars, 16 .. 20), "session_high", "session_low", 225)
                 \o Ends(bars, DayBefore(bars), "previous_day_high", "previous_day_low", 255)
                 \o Ends(bars, Week(bars), "weekly_high", "weekly_low", 270)
                 \o Psychological(bars)
                 \o Equal([i \in DOMAIN bars |-> bars[i].high], "equal_highs")
                 \o Equal([i \in DOMAIN bars |-> bars[i].low], "equal_lows")
                 \o OrderBlocks(bars)
  IN  SubSeq(ByStrength(found), 1, Min({Strongest, Len(found)}))

Intent(phase, move, confidence) == [phase |-> phase, move |-> move, confidence |-> confidence]
NeutralIntent == Intent("unknown", "range", 0)

Distance(a, b) == IF a > b THEN a - b ELSE b - a
NearestOf(zones, close) ==
  zones[CHOOSE k \in DOMAIN zones :
          \A j \in DOMAIN zones : \/ Distance(zones[k].level, close) < Distance(zones[j].level, close)
                                  \/ /\ Distance(zones[k].level, close) = Distance(zones[j].level, close)
                                     /\ k <= j]

\* Conditions of a sweep; bars an hour apart never fulfil the fourth, 90 seconds.
Counting(far, wick, body, back, range) ==
  Plus(10 * far > 18, 1) + Plus(wick > 3 * body, 1) + Plus(range > 0 /\ 10 * back > 7 * range, 1)
Upper(last, prev, level) ==
  Counting(last.high - level, last.high - Max({last.open, last.close}),
           Distance(last.open, last.close), prev.high - last.close, prev.high - prev.low)
\* Mutant: the way back is measured from the wrong end.
LowerFromHigh(last, prev, level) ==
  Counting(level - last.low, Min({last.open, last.close}) - last.low,
           Distance(last.open, last.close), prev.high - last.close, prev.high - prev.low)

Lower(last, prev, level) ==
  Counting(level - last.low, Min({last.open, last.close}) - last.low,
           Distance(last.open, last.close), last.close - prev.low, prev.high - prev.low)

\* Of the last fifteen bars those that touch a zone, zone by zone.
Recent(bars) == {i \in DOMAIN bars : i > Len(bars) - 15}
Touches(bars, zones) ==
  {t \in (DOMAIN zones) \X Recent(bars) : t[2] \in LevelReached(bars, zones[t[1]].level)}

\* Compression and momentum, in hundredths.
Momentum100(session) == CASE session = "asian" -> 50 [] session = "overlap" -> 80 [] OTHER -> 70
Structure(bars, zones, session, rush) ==
  LET last == Last(bars)
      prev == Last(Front(bars))
      recent == Recent(bars)
      up == \E k \in DOMAIN zones : prev.close <= zones[k].level + 10 /\ last.close > zones[k].level + 10
      down == \E k \in DOMAIN zones : prev.close >= zones[k].level - 10 /\ last.close < zones[k].level - 10
  IN  IF Max(Highs(bars, recent)) - Min(Lows(bars, recent)) < 10 /\ Cardinality(Touches(bars, zones)) >= 2
        THEN Intent("compression", "breakout_pending", 40 + Min({15, Len(bars)}))
      ELSE IF up /\ rush THEN Intent("momentum", "up", Momentum100(session))
      ELSE IF down /\ rush THEN Intent("momentum", "down", Momentum100(session))
      ELSE IF session = "asian" THEN Intent("accumulation", "range", 40)
      ELSE Intent("unknown", "range", 30)

\* _assess_market_intent: a price on the zone that went through it on both
\* sides is taken for one that came back from above.
Assess(bars, zones, session, rush) ==
  LET last == Last(bars)
      prev == Last(Front(bars))
      level == NearestOf(zones, last.close).level
      swept(points, move) == IF points >= 3 THEN Intent("liquidity_sweep", move, 85)
                             ELSE IF points = 2 THEN Intent("possible_sweep", move, 55)
                             ELSE Structure(bars, zones, session, rush)
  IN  CASE session \in {"weekend", "holiday"} -> NeutralIntent
        [] session \notin {"weekend", "holiday"} /\ zones = <<>> ->
             Structure(bars, zones, session, rush)
        [] session \notin {"weekend", "holiday"} /\ zones # <<>> ->
             IF last.high > level /\ last.close <= level THEN swept(Upper(last, prev, level), "down")
             ELSE IF last.low < level /\ last.close >= level THEN swept(Lower(last, prev, level), "up")
             ELSE Structure(bars, zones, session, rush)

LiquiditySignal(intent) ==
  CASE intent.move = "up" -> "BUY" [] intent.move = "down" -> "SELL" [] OTHER -> "NEUTRAL"

Liquidity(v) ==
  LET zones == DetectZones(v.bars)
      session == SessionAt(Today(v.bars), Last(v.bars).hour)
      intent == Assess(v.bars, zones, session, v.rush)
  IN  [zones |-> ToSet(zones), intent |-> intent, signal |-> LiquiditySignal(intent)]

\* What can be in doubt.  Unknown indicators are -1; the histogram is in
\* hundred thousandths; types are those of the patterns, in their order.
Evidence == [adx : {-1, 15, 30, 45}, rsi : {-1, 30, 42, 50}, hist : {-1, 1, 3, 6},
             types : {<<>>, <<"bullish">>, <<"bearish">>, <<"bullish", "bearish">>},
             session : {"unknown", "asian", "overlap", "weekend"},
             intent : {NeutralIntent, Intent("liquidity_sweep", "up", 85),
                       Intent("possible_sweep", "down", 55), Intent("compression", "breakout_pending", 55)},
             near : BOOLEAN, event : BOOLEAN]

Technical(e) ==
  Min({200,
    (IF e.adx < 40 THEN 140 ELSE 10)
    + (IF e.rsi = -1 \/ e.rsi \in 45 .. 55 THEN 40 ELSE IF e.rsi \in 40 .. 60 THEN 20 ELSE 10)
    + (IF e.hist < 2 THEN 40 ELSE IF e.hist < 5 THEN 20 ELSE 10)
    + Plus(e.types = <<>>, 20) + Plus({"bullish", "bearish"} \subseteq ToSet(e.types), 40)})

Conflict(e) ==
  /\ e.types # <<>>
  /\ \/ Head(e.types) = "bullish" /\ e.intent.move = "down"
     \/ Head(e.types) = "bearish" /\ e.intent.move = "up"

\* No name of a pattern has the underscores _is_reversal_context looks for.
Behavioral(e) ==
  Min({200,
    Plus(e.session = "weekend", 80)
    + Plus(e.session = "asian" /\ e.intent.phase = "liquidity_sweep", 40)
    + Plus(e.session = "overlap" /\ e.intent.move = "range", 30)
    + Plus(e.intent.confidence < 50, 50) + Plus(e.intent.phase = "compression", 20)
    + Plus(Conflict(e), 40) + Plus(e.near, 30) + Plus(e.event, 60)})

\* Mutant: the layers that say something are averaged.
ComposedMean(t, b) == IF b = 0 THEN t ELSE (t + b) \div 2

\* The greatest, and three tenths of the other; nobody sets the tracker of
\* causal patterns, so that the third layer is always zero.
Composed(t, b) == Min({200, Max({t, b}) + (3 * Min({t, b})) \div 10})

AssessDoubt(e) ==
  LET doubt == Composed(Technical(e), Behavioral(e))
  IN  [high |-> doubt > 130,
       adjust |-> IF doubt <= 80 THEN 100 ELSE IF doubt <= 110 THEN 80
                  ELSE IF doubt <= 140 THEN 50 ELSE 0]

Blank == [kind |-> "blank"]
ContextStart(v) == view = v /\ context = Blank
ContextInit == \E v \in Views \cup Doubts : ContextStart(v)

Analyze ==
  /\ "bars" \in DOMAIN view /\ context = Blank
  /\ context' = [kind |-> "liquidity", read |-> Liquidity(view)]
  /\ UNCHANGED view

AssessUncertainty ==
  /\ "adx" \in DOMAIN view /\ context = Blank
  /\ context' = [kind |-> "doubt", read |-> AssessDoubt(view)]
  /\ UNCHANGED view

ContextNext == Analyze \/ AssessUncertainty

ContextSpec == ContextInit /\ [][ContextNext]_contextVars
----------------------------------------------------------------------------
\* One more reason to doubt.
Worse(e) ==
  {[e EXCEPT !.adx = a] : a \in {a \in {-1, 15, 30} : a < e.adx}}
    \cup {[e EXCEPT !.rsi = r] : r \in {50, -1}}
    \cup {[e EXCEPT !.hist = -1], [e EXCEPT !.near = TRUE], [e EXCEPT !.event = TRUE]}
    \cup (IF e.types = <<"bullish">> THEN {[e EXCEPT !.types = <<"bullish", "bearish">>]} ELSE {})
    \cup (IF e.session = "unknown" THEN {[e EXCEPT !.session = "weekend"]} ELSE {})

\* The layers of doubt are combined so that no further doubt ever helps: with
\* one more, a signal is not given more of its confidence, and one that was
\* blocked is not let through.  And below an ADX of 40 a market is always in
\* high uncertainty, which is what the weights are chosen for.
DoubtNeverHelps ==
  (context.kind = "doubt") =>
    /\ view.adx < 40 => context.read.high
    /\ \A e \in Worse(view) : /\ AssessDoubt(e).adjust <= context.read.adjust
                              /\ context.read.high => AssessDoubt(e).high

Flip(x) ==
  CASE x = "up" -> "down" [] x = "down" -> "up" [] x = "BUY" -> "SELL" [] x = "SELL" -> "BUY"
    [] x = "session_high" -> "session_low" [] x = "session_low" -> "session_high"
    [] x = "previous_day_high" -> "previous_day_low" [] x = "previous_day_low" -> "previous_day_high"
    [] x = "weekly_high" -> "weekly_low" [] x = "weekly_low" -> "weekly_high"
    [] x = "equal_highs" -> "equal_lows" [] x = "equal_lows" -> "equal_highs" [] OTHER -> x

MirrorView(v) ==
  [v EXCEPT !.bars = [i \in DOMAIN v.bars |->
     [v.bars[i] EXCEPT !.high = 50 - v.bars[i].low, !.low = 50 - v.bars[i].high,
                       !.open = 50 - @, !.close = 50 - @]]]

\* Two zones as near as each other, or a price that went through its zone both ways.
Undecided(v) ==
  LET zones == DetectZones(v.bars)
      close == Last(v.bars).close
  IN  /\ zones # <<>>
      /\ \/ NearestOf(zones, close).level = close
         \/ \E k \in DOMAIN zones :
              zones[k].level - close = close - NearestOf(zones, close).level

\* The market turned upside down has its zones where the mirror puts them, as
\* strong as before, and the intent that is read off them moves the other way
\* with the same confidence.
IntentMirrored ==
  (context.kind = "liquidity" /\ Len(DetectZones(view.bars)) < Strongest) =>
    LET m == Liquidity(MirrorView(view))
    IN  /\ m.zones = {[z EXCEPT !.level = 50 - @, !.kind = Flip(@)] : z \in context.read.zones}
        /\ ~Undecided(view) => /\ m.intent = [context.read.intent EXCEPT !.move = Flip(@)]
                               /\ m.signal = Flip(context.read.signal)
=============================================================================
