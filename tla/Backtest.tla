------------------------------ MODULE Backtest ------------------------------
(* The two backtest engines and what is computed from their trades: the      *)
(* analytics engine (bar by bar, and with its indicators computed in         *)
(* advance), the offline engine with its execution simulator, the metrics,   *)
(* and the walk-forward and cross-validation splits.  Each is a pure         *)
(* function of the candles; the strategy is any function of the candles it   *)
(* is shown.  Prices and costs are in tenths of a pip.                       *)
EXTENDS Integers, FiniteSets, Sequences, SequencesExt

CONSTANTS Detect(_),  \* the signal of a window: [direction, strategy, sure]
          Lookback,   \* bars before the first signal, 50
          Spare,      \* bars a test must have beyond them, 10
          MaxOpen,    \* positions the offline engine holds, 3
          StopAway, TargetAway, \* what RiskManager puts around an entry
          Commission, \* of a round turn, 7
          Folds,      \* the cross-validation: [number, purge, embargo]
          Histories   \* the candles replayed

\* A candle, with what becomes of an order on it: whether it is filled, what the
\* clock and the noise make of its cost, and what the volatility is judged by.
Candle ==
  [open : Int, close : Int, high : Int, low : Int, fills : BOOLEAN,
   now : [off : BOOLEAN, hour : Int, noise : Int, draw : Int], adx : Int, volume : Int,
   override : {"none", "normal", "elevated", "high", "extreme"}, emergency : BOOLEAN, deviation : BOOLEAN]

\* The bars purged around a test, 50, are those a signal looks back on.
ASSUME BacktestAssumption ==
  /\ Lookback \in Nat \ {0} /\ Spare \in Nat /\ MaxOpen \in Nat
  /\ {StopAway, TargetAway, Commission} \subseteq Nat
  /\ Folds \in [number : Nat \ {0}, purge : Nat, embargo : Nat] /\ Lookback <= Folds.purge
  /\ \A h \in Histories : /\ h \in Seq(Candle)
                          /\ \A i \in DOMAIN h : h[i].low <= h[i].close /\ h[i].close <= h[i].high

VARIABLES history, report

backtestVars == <<history, report>>

Clamp(low, x, high) == IF x < low THEN low ELSE IF x > high THEN high ELSE x
Upto(bars, i) == SubSeq(bars, 1, i)
Side(direction) == IF direction = "BUY" THEN 1 ELSE -1

-----------------------------------------------------------------------------
(* Analytics engine. *)

\* _get_volatility_regime: volume as tenths of its average, 0 when unknown.
VolatilityRegime(bar) ==
  CASE bar.override # "none" -> bar.override
    [] bar.override = "none" /\ bar.emergency -> "extreme"
    [] bar.override = "none" /\ ~bar.emergency /\ bar.deviation -> "high"
    [] OTHER ->
         IF bar.adx > 35 \/ bar.volume > 30 THEN "high"
         ELSE IF bar.adx >= 25 \/ bar.volume >= 15 THEN "elevated"
         ELSE "normal"

RealisticSlippage(bar) ==
  [normal |-> 15, elevated |-> 25, high |-> 40, extreme |-> 70][VolatilityRegime(bar)]

\* Mutant: the fill of a sale is moved the way of a purchase.
SimulateFillUp(direction, price, slip, i) ==
  [direction |-> direction, entry |-> price + slip,
   stop   |-> price + slip - Side(direction) * StopAway,
   target |-> price + slip + Side(direction) * TargetAway,
   slip   |-> slip, bar |-> i, at |-> 0, reason |-> "open", pnl |-> 0]

\* assess_trade as the engines call it, then _simulate_fill at bar i: the levels
\* are moved with the price.  A trade that is not closed is closed at bar 0.
SimulateFill(direction, price, slip, i) ==
  [direction |-> direction,
   entry  |-> price + Side(direction) * slip,
   stop   |-> price + Side(direction) * (slip - StopAway),
   target |-> price + Side(direction) * (slip + TargetAway),
   slip   |-> slip, bar |-> i, at |-> 0, reason |-> "open", pnl |-> 0]

Ended(trade, i, reason, pnl) == [trade EXCEPT !.at = i, !.reason = reason, !.pnl = pnl]

\* The level a bar takes a position out at: the stop when it touches both.
Touched(trade, bar) ==
  LET worst == IF trade.direction = "BUY" THEN bar.low ELSE bar.high
      best  == IF trade.direction = "BUY" THEN bar.high ELSE bar.low
      side  == Side(trade.direction)
  IN  IF side * worst <= side * trade.stop THEN "stop_loss"
      ELSE IF side * best >= side * trade.target THEN "take_profit"
      ELSE "none"

LevelOf(trade, reason) == IF reason = "stop_loss" THEN trade.stop ELSE trade.target

Gain(trade, price) == Side(trade.direction) * (price - trade.entry)

\* Mutant: the window reaches one bar too far.
WindowAhead(bars, i) == SubSeq(bars, Max({1, i - Lookback}), Min({Len(bars), i + 1}))

\* The candles a signal at bar i is computed from.
Window(bars, i) == SubSeq(bars, Max({1, i - Lookback}), i)

\* What the costs are: none, fixed ones of run_fast, or those of run.
Slip(costs, bar) ==
  CASE costs = "none" -> 0
    [] costs = "fixed" -> 10
    [] costs = "realistic" -> RealisticSlippage(bar)
Fee(costs) == IF costs = "none" THEN 0 ELSE IF costs = "fixed" THEN 5 ELSE Commission

\* The signal on bar i: run_fast computes its indicators from all bars up to it.
SeenAt(bars, costs, i) == Detect(IF costs = "fixed" THEN Upto(bars, i) ELSE Window(bars, i))

\* One bar of run and run_fast, and its signal: a bar that looks after a
\* position, even one that ends it, opens none.
ReplayOn(bar, seen, filter, costs, s, i) ==
  LET taken == /\ filter \in {"all", seen.strategy}
               /\ seen.direction \in {"BUY", "SELL"} /\ seen.sure
  IN  IF s.open # <<>>
      THEN LET trade == s.open[1]
               reason == Touched(trade, bar)
           IN  IF reason = "none" THEN s
               ELSE [open |-> <<>>,
                     trades |-> Append(s.trades,
                       Ended(trade, i, reason, Gain(trade, LevelOf(trade, reason)) - trade.slip - Fee(costs)))]
      ELSE IF taken
           THEN [s EXCEPT !.open = <<SimulateFill(seen.direction, bar.close, Slip(costs, bar), i)>>]
           ELSE s

ReplayBar(bars, filter, costs, s, i) ==
  ReplayOn(bars[i], SeenAt(bars, costs, i), filter, costs, s, i)

\* What run and run_fast (costs = "fixed") have after each of the first n bars
\* they look at.
Replaying(bars, filter, costs, n) ==
  LET after[k \in 0 .. n] ==
        IF k = 0 THEN [open |-> <<>>, trades |-> <<>>]
        ELSE ReplayBar(bars, filter, costs, after[k - 1], Lookback + k)
  IN  after

\* The trade left at the end is closed at the last close, at no cost.
Replay(bars, filter, costs) ==
  LET n == Len(bars)
      end == Replaying(bars, filter, costs, n - Lookback)[n - Lookback]
  IN  IF n < Lookback + Spare THEN <<>>
      ELSE end.trades \o [k \in DOMAIN end.open |->
             Ended(end.open[k], n, "end", Gain(end.open[k], bars[n].close))]

CompareStrategies(bars, strategies) == [s \in strategies |-> Replay(bars, s, "realistic")]

\* walk_forward_analysis: the trades of every window.
WalkForward(bars, filter, window, step) ==
  [k \in 1 .. (IF Len(bars) < window THEN 0 ELSE 1 + (Len(bars) - window) \div step) |->
     Replay(SubSeq(bars, (k - 1) * step + 1, (k - 1) * step + window), filter, "realistic")]

-----------------------------------------------------------------------------
(* Offline engine, with ExecutionSimulator. *)

\* _get_spread in hundredths of a pip: hour and day are those of the clock on
\* the wall, noise is drawn at random, the ATR is always the default one.
Spread(now) ==
  LET hour == now.hour
      session == CASE now.off -> 30
                   [] ~now.off /\ (hour >= 22 \/ hour < 7) -> 25
                   [] ~now.off /\ hour \in 7 .. 11 -> 10
                   [] ~now.off /\ hour \in 12 .. 15 -> 9
                   [] ~now.off /\ hour \in 16 .. 20 -> 11
                   [] ~now.off /\ hour = 21 -> 30
  IN  Clamp(50, ((96 + now.noise) * session) \div 10, 500)

\* _get_slippage: a draw, scaled by what the order is for.
Scaled(reason, draw) ==
  CASE reason = "stop_loss" -> (18 * draw) \div 10
    [] reason = "take_profit" -> (3 * draw) \div 10
    [] OTHER -> draw
Drawn(now, reason) == Clamp(-50, Scaled(reason, now.draw), 300)

\* Half the spread and the slippage, in tenths of a pip.
Cost(now, reason) == (Spread(now) \div 2 + Drawn(now, reason)) \div 10

SimulateEntry(direction, price, now) == price + Side(direction) * Cost(now, "entry")
\* Mutant: the exit costs are credited.
SimulateExitUp(direction, price, reason, now) == price + Side(direction) * Cost(now, reason)
SimulateExit(direction, price, reason, now) == price - Side(direction) * Cost(now, reason)

ClosePosition(position, price, reason, i, now) ==
  Ended(position, i, reason, Gain(position, SimulateExit(position.direction, price, reason, now)))

IsOpen(position) == position.at = 0

\* update_positions: every open position against the extremes of the bar.
UpdatePositions(positions, bar, i) ==
  [k \in DOMAIN positions |->
     LET p == positions[k] reason == Touched(p, bar)
     IN  IF ~IsOpen(p) \/ reason = "none" THEN p
         ELSE ClosePosition(p, LevelOf(p, reason), reason, i, bar.now)]

HasRoom(positions) == Cardinality({k \in DOMAIN positions : IsOpen(positions[k])}) < MaxOpen
Wanted(bar, seen) == seen.direction \in {"BUY", "SELL"} /\ bar.fills

\* The order placed at a bar's open: its levels are those of the price asked for.
OrderAt(bar, seen, i) ==
  [SimulateFill(seen.direction, bar.open, 0, i)
     EXCEPT !.entry = SimulateEntry(seen.direction, bar.open, bar.now)]

EnterAtOpen(bar, seen, positions, i) ==
  IF HasRoom(positions) /\ Wanted(bar, seen) THEN Append(positions, OrderAt(bar, seen, i)) ELSE positions

\* One bar of run: positions first, then an entry at the open of the same bar,
\* on the signal of the bars before it.
OfflineOn(bar, seen, before, i) == EnterAtOpen(bar, seen, UpdatePositions(before, bar, i), i)

OfflineBar(bars, before, i) == OfflineOn(bars[i], Detect(Upto(bars, i - 1)), before, i)

\* The positions after each of the first n bars behind the warm-up.
Offlining(bars, warmup, n) ==
  LET after[k \in 0 .. n] == IF k = 0 THEN <<>> ELSE OfflineBar(bars, after[k - 1], warmup + k)
  IN  after

\* What is open at the end is closed at the last close.
Offline(bars, warmup) ==
  LET n == Len(bars)
      end == Offlining(bars, warmup, n - warmup)[n - warmup]
  IN  IF n < warmup THEN <<>>
      ELSE [k \in DOMAIN end |->
              IF IsOpen(end[k])
              THEN ClosePosition(end[k], bars[n].close, "end_of_backtest", n, bars[n].now)
              ELSE end[k]]

-----------------------------------------------------------------------------
(* Metrics and splits. *)

Pnls(trades) == [k \in DOMAIN trades |-> trades[k].pnl]
\* The balance after each trade, 0 before the first.
Balances(pnls) ==
  LET sum[k \in 0 .. Len(pnls)] == IF k = 0 THEN 0 ELSE sum[k - 1] + pnls[k]
  IN  sum
TotalOf(pnls) == Balances(pnls)[Len(pnls)]
Equity(pnls) == [k \in DOMAIN pnls |-> Balances(pnls)[k]]

\* Mutant: one trade at a time.
DrawdownStep(pnls) == Max({0} \cup {-pnls[k] : k \in DOMAIN pnls})

\* One trade more: its balance, the highest so far, the deepest fall from one.
FallBy(fall, pnl) ==
  LET now == fall.sum + pnl
      peak == IF now > fall.peak THEN now ELSE fall.peak
  IN  [sum |-> now, peak |-> peak, most |-> IF peak - now > fall.most THEN peak - now ELSE fall.most]

\* _compute_metrics and the tear sheet start from a peak of zero.
Falls(pnls) ==
  LET fall[k \in 0 .. Len(pnls)] ==
        IF k = 0 THEN [sum |-> 0, peak |-> 0, most |-> 0] ELSE FallBy(fall[k - 1], pnls[k])
  IN  fall
Drawdown(pnls) == Falls(pnls)[Len(pnls)].most

Metrics(trades) ==
  LET pnls == Pnls(trades)
      wins == {k \in DOMAIN pnls : pnls[k] > 0}
      profit == TotalOf([k \in DOMAIN pnls |-> IF k \in wins THEN pnls[k] ELSE 0])
  IN  [total |-> Len(pnls), wins |-> Cardinality(wins), losses |-> Len(pnls) - Cardinality(wins),
       pnl |-> TotalOf(pnls), profit |-> profit, loss |-> profit - TotalOf(pnls),
       equity |-> Equity(pnls), drawdown |-> Drawdown(pnls)]

\* _max_drawdown of the evaluation harness starts from the first trade's result.
HarnessDrawdown(pnls) ==
  IF pnls = <<>> THEN 0
  ELSE Drawdown(Tail(pnls))

\* cpcv_splits, which CPCVEvaluator.run calls when every fold has room for the
\* purge and the embargo (the bars are numbered from 1 here).
Splits(total) ==
  LET size == total \div Folds.number
      fold(k) == (k - 1) * size + 1 .. (IF k < Folds.number THEN k * size ELSE total)
      apart(i, test) == /\ Folds.purge > 0 => i < Min(test) - Folds.purge \/ i > Max(test) + Folds.purge
                        /\ i \notin Max(test) + 1 .. Max(test) + Folds.embargo
  IN  IF total < Folds.number * (Folds.purge + Folds.embargo + Spare) THEN {}
      ELSE {[test |-> fold(k), train |-> {i \in (1 .. total) \ fold(k) : apart(i, fold(k))}]
              : k \in 1 .. Folds.number}

-----------------------------------------------------------------------------

BacktestStart(h) == history = h /\ report = <<>>
BacktestInit == \E h \in Histories : BacktestStart(h)

Engine(bars, name) ==
  CASE name = "run" -> Replay(bars, "all", "realistic")
    [] name = "fast" -> Replay(bars, "all", "fixed")
    [] name = "offline" -> Offline(bars, Lookback)

Engines == {"run", "fast", "offline"}

RunBacktest ==
  /\ report = <<>>
  /\ report' = [trades |-> [name \in Engines |-> Engine(history, name)],
                drawdown |-> [name \in Engines |-> Metrics(Engine(history, name)).drawdown],
                compared |-> CompareStrategies(history, {"trend_following", "breakout"}),
                windows |-> WalkForward(history, "all", Len(history) - 1, 1),
                splits |-> Splits(Len(history))]
  /\ UNCHANGED history

BacktestNext == RunBacktest

BacktestSpec == BacktestInit /\ [][BacktestNext]_backtestVars

-----------------------------------------------------------------------------

Ran == report # <<>>

Opened(trades, n) == {<<t.bar, t.direction, t.entry>> : t \in {u \in Range(trades) : u.bar <= n}}
ClosedBy(trades, n) == {t \in Range(trades) : t.at <= n /\ t.reason \in {"stop_loss", "take_profit"}}

\* Nothing is decided on a bar that had not closed: the positions an engine had
\* opened by a bar, and those it had closed by then, are those it reports when
\* no bar follows; and no bar a fold's signals are computed from is among those it is trained on.
NoLookAhead ==
  Ran =>
    /\ \A name \in Engines, n \in Lookback + Spare .. Len(history) - 1 :
         LET alone == Engine(Upto(history, n), name)
         IN  /\ Opened(report.trades[name], n) = Opened(alone, n)
             /\ ClosedBy(report.trades[name], n) = ClosedBy(alone, n)
    /\ \A split \in report.splits :
         \A i \in split.test : split.train \cap (i - Lookback .. i) = {}

\* Within a bar the offline engine's comment has it enter at the open and then
\* judge every position by the extremes.  It judges first, and that makes a
\* difference on two kinds of bar and on no other: one whose extremes reach the
\* levels of the order placed at its open, which outlives it, and one that is
\* entered on a place that its own extremes have freed.
EntersAsSaid ==
  Ran => LET held == Offlining(history, Lookback, Len(history) - Lookback)
         IN  \A k \in 1 .. Len(history) - Lookback :
               LET i == Lookback + k
                   bar == history[i]
                   seen == Detect(Upto(history, i - 1))
                   before == held[k - 1]
                   asSaid == UpdatePositions(EnterAtOpen(bar, seen, before, i), bar, i)
               IN  held[k] # asSaid
                     <=> /\ Wanted(bar, seen)
                         /\ IF HasRoom(before) THEN Touched(OrderAt(bar, seen, i), bar) # "none"
                            ELSE HasRoom(UpdatePositions(before, bar, i))

\* What the same order would have brought at no cost: the first bar after its
\* own that reaches a level ends it there, the last one at its close.
Costless(trade, price) ==
  LET free == SimulateFill(trade.direction, price, 0, trade.bar)
      hits == {i \in trade.bar + 1 .. Len(history) : Touched(free, history[i]) # "none"}
  IN  IF hits = {} THEN Gain(free, Last(history).close)
      ELSE Gain(free, LevelOf(free, Touched(free, history[Min(hits)])))

\* Slippage and commission only ever take from a trade, though they move its
\* stop and its target too and so change the bar and the level it ends at.
CostsOnlyHurt ==
  Ran => \A name \in {"run", "fast"} :
           \A k \in DOMAIN report.trades[name] :
             LET t == report.trades[name][k]
             IN  t.pnl <= Costless(t, history[t.bar].close)

\* The offline engine takes from a trade what its two fills cost and no
\* commission.  That is always something, unless a slippage was drawn in the
\* trade's favour; the simulator says exits are always adverse, and such a draw
\* can leave a trade better off, by at most 6 tenths of a pip.
FillsCost ==
  Ran => \A k \in DOMAIN report.trades["offline"] :
           LET t == report.trades["offline"][k]
               entered == history[t.bar].now
               left == history[t.at].now
               taken == Costless(t, history[t.bar].open) - t.pnl
           IN  /\ taken = Cost(entered, "entry") + Cost(left, t.reason)
               /\ -6 <= taken
               /\ entered.draw >= 0 /\ left.draw >= 0 => 0 < taken

\* The drawdown reported is the deepest fall from an earlier balance, the one
\* before the first trade included.  The harness counts from the balance after
\* the first trade: it never sees a fall from the start.
DrawdownExact ==
  Ran => \A name \in Engines :
    LET pnls == Pnls(report.trades[name])
        balance == <<0>> \o Equity(pnls)
        falls(first) == {balance[w[1]] - balance[w[2]] :
                           w \in {v \in (first .. Len(balance)) \X (first .. Len(balance)) : v[1] <= v[2]}}
    IN  /\ report.drawdown[name] = Max(falls(1))
        /\ HarnessDrawdown(pnls) = Max({0} \cup falls(2))

\* What a report tells of its trades: no bar was known before it closed, and
\* what the offline engine's order within a bar changes is known exactly; every
\* cost is taken from the trade that made it; and the drawdown is that of the
\* trades, the harness's but for a fall from the start.
ReportsHonest == NoLookAhead /\ EntersAsSaid /\ CostsOnlyHurt /\ FillsCost /\ DrawdownExact

=============================================================================
