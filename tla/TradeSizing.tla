----------------------------- MODULE TradeSizing -----------------------------
(* RiskManagementSkill._assess with the arithmetic of RiskManager it wraps,   *)
(* and what SafetyGuardrail.enhance_signal_safety makes of the result: where  *)
(* the stop and the target of a proposed trade go and how many lots it gets.  *)
(* Prices are distances from the entry in tenths of a pip, lots hundredths    *)
(* rounded down, risks ten-thousandths of a percent.  An account is so many   *)
(* times ten thousand dollars, and a pip of a lot is worth ten.               *)
EXTENDS Integers, Sequences, FiniteSetsExt

CONSTANT Proposals \* the trades and circumstances looked at

VARIABLES proposal, \* what _assess reads of the context and the manager
          assessed  \* context.risk and its record in the metadata

sizingVars == <<proposal, assessed>>

\* No regime is known of the market; no reason speaks against the trade.
NoRegime == ""
Allowed == ""

\* support and resistance come nearest first; zones are the prices of the
\* liquidity zones; atr and usual (its average) may be unknown, 0; swings is the
\* realized volatility in percent of its target; won of trades past trades have
\* gained "gain" on average and the others lost "loss"; down is the daily loss
\* in percent; limits says that no other limit of the manager is reached.
Proposal ==
  [direction : {"BUY", "SELL", "WAIT"}, atr : Nat, usual : Nat, support : Seq(Int),
   resistance : Seq(Int), zones : SUBSET Int, session : STRING, intent : -1 .. 100,
   lift : 0 .. 100, tolerance : 1 .. 3, losses : Nat, down : Nat, limits : BOOLEAN,
   gbp : -1 .. 1, chf : -1 .. 1, regime : STRING, strength : 0 .. 100, swings : Nat \ {0},
   record : [trades : Nat, won : Nat, gain : Nat, loss : Nat], account : Nat,
   alarm : BOOLEAN, volatile : BOOLEAN, uncertain : BOOLEAN]

\* A history is long enough for Kelly only with gains above and losses below 0.
ASSUME SizingAssumption ==
  \A p \in Proposals :
    /\ p \in Proposal
    /\ p.record.won <= p.record.trades
    /\ p.record.won > 0 => p.record.gain > 0

Within(low, high, n) == Max({low, Min({high, n})})
FromEntry(price) == IF price < 0 THEN -price ELSE price

\* Whatever is not bought is computed as a sale.
Buys(p) == p.direction = "BUY"

\* calculate_atr_stop, calculate_level_stop: 0 stands for None, which both are
\* compared with by their truth.
AtrStop(p) == LET away == (3 * p.atr) \div 2 IN IF Buys(p) THEN -away ELSE away
Below(p) == {i \in DOMAIN p.support : p.support[i] < 0}
Above(p) == {i \in DOMAIN p.resistance : p.resistance[i] > 0}
LevelStop(p) ==
  IF Buys(p) THEN IF Below(p) = {} THEN 0 ELSE p.support[Min(Below(p))] - 50
  ELSE IF Above(p) = {} THEN 0 ELSE p.resistance[Min(Above(p))] + 50

\* The tighter of the two, else one of them, else 30 pips; never below 10.
ChosenStop(p) ==
  CASE AtrStop(p) # 0 /\ LevelStop(p) # 0 ->
         IF Buys(p) THEN Max({AtrStop(p), LevelStop(p)}) ELSE Min({AtrStop(p), LevelStop(p)})
    [] AtrStop(p) # 0 /\ LevelStop(p) = 0 -> AtrStop(p)
    [] AtrStop(p) = 0 /\ LevelStop(p) # 0 -> LevelStop(p)
    [] OTHER -> IF Buys(p) THEN -300 ELSE 300
ManagerStop(p) ==
  IF FromEntry(ChosenStop(p)) >= 100 THEN ChosenStop(p) ELSE IF Buys(p) THEN -100 ELSE 100

\* calculate_take_profit: twice the risk.
TakeProfit(p, stop) == IF Buys(p) THEN 2 * FromEntry(stop) ELSE -(2 * FromEntry(stop))

\* kelly_fraction: a quarter of p - q * loss / gain, at most 0.02; it is used as
\* the percentage to risk.  Without both wins and losses the configured percent.
Kelly(r) ==
  IF r.trades < 20 \/ r.won \in {0, r.trades} \/ r.loss = 0 THEN 10000
  ELSE Within(0, 200, (2500 * (r.won * r.gain - (r.trades - r.won) * r.loss)) \div (r.trades * r.gain))

VolFactor(p) == Within(30, 200, 10000 \div p.swings)
AtrFactor(p) == IF p.atr = 0 \/ p.usual = 0 THEN 100 ELSE Within(50, 150, (100 * p.usual) \div p.atr)

\* Mutant: an uncertain regime gets more.
RegimeShareUp(p) ==
  LET base == CASE p.regime = "trending" -> 100 [] p.regime = "breakout" -> 70 [] OTHER -> 80
  IN  IF p.regime = NoRegime THEN 10000 ELSE base * (150 - p.strength \div 2)

RegimeShare(p) ==
  LET base == CASE p.regime = "trending" -> 100 [] p.regime = "breakout" -> 70 [] OTHER -> 80
  IN  IF p.regime = NoRegime THEN 10000 ELSE base * (50 + p.strength \div 2)

StreakFactor(p) == IF p.losses >= 3 THEN 50 ELSE IF p.losses = 2 THEN 75 ELSE 100

Part(n, of, whole) == (n * of) \div whole
ScaledRisk(risk, p) ==
  Part(Part(Part(Part(risk, VolFactor(p), 100), AtrFactor(p), 100), RegimeShare(p), 10000),
       StreakFactor(p), 100)

\* calculate_position_size, for a configured risk of one percent.
ManagerSize(p) ==
  LET kelly == Kelly(p.record)
      risk == IF p.record.trades >= 20 /\ kelly > 0 THEN Within(1000, 15000, ScaledRisk(kelly, p))
              ELSE Within(2500, 15000, ScaledRisk(10000, p))
  IN  Within(1, 1000, (p.account * risk) \div FromEntry(ManagerStop(p)))

\* assess_trade; the limits on losing days, weeks, months and trades are in
\* RiskManager.  An account without money is refused before they are looked at.
ManagerApproves(p) ==
  /\ FromEntry(ManagerStop(p)) <= 1000
  /\ p.account > 0 /\ p.limits /\ p.down < 3 /\ p.losses < 3

\* _calculate_risk_score: a reward of twice the risk adds nothing.
RiskScore(p) ==
  IF p.account = 0 THEN 10
  ELSE 3 + (IF FromEntry(ManagerStop(p)) > 600 THEN 2 ELSE IF FromEntry(ManagerStop(p)) > 400 THEN 1 ELSE 0)
         + (IF p.down > 2 THEN 2 ELSE IF p.down > 1 THEN 1 ELSE 0)
         + (IF p.losses >= 2 THEN 1 ELSE 0)
-----------------------------------------------------------------------------
SessionBuffer(s) == CASE s = "asian" -> 80 [] s = "london" -> 120 [] s = "overlap" -> 180 [] OTHER -> 150
Buffer(p) == SessionBuffer(p.session) + (IF p.atr > 300 THEN Min({p.atr \div 5, 150}) ELSE 0)

\* Mutant: the nearest zone above the entry, for both directions.
BehindAny(p) == {z \in p.zones : z > 0}

\* _find_relevant_zone, _calculate_adaptive_stop.
Behind(p) == IF Buys(p) THEN {z \in p.zones : z < 0} ELSE {z \in p.zones : z > 0}
AdaptiveStop(p) ==
  IF Behind(p) = {} THEN IF Buys(p) THEN -Buffer(p) ELSE Buffer(p)
  ELSE IF Buys(p) THEN Max(Behind(p)) - (100 + Buffer(p)) ELSE Min(Behind(p)) + (100 + Buffer(p))

\* Mutant: a stop within the noise is let through.
InNoiseNever(p) == FALSE

InNoise(p) == FromEntry(AdaptiveStop(p)) * 5 < p.atr * 3

Closed(p) == p.session \in {"weekend", "holiday"}

\* A doubtful intent (-1: none) is raised to 60 when the uncertainty skill leaves
\* at least 60 percent of the confidence.
IntentSeen(p) == IF p.intent < 40 /\ p.lift >= 60 THEN 60 ELSE p.intent

\* The multipliers of _calculate_dynamic_size: tenths, and twentieths for the
\* correlated pairs (1: they confirm, -1: they contradict).
SessionTenths(p) ==
  CASE p.session = "asian" -> 6 [] p.session \in {"london", "newyork"} -> 10
    [] p.session = "overlap" -> 12 [] Closed(p) -> 0 [] OTHER -> 8
IntentTenths(p) ==
  LET i == IntentSeen(p) IN
  IF i = -1 THEN 8 ELSE IF i < 40 THEN 0 ELSE IF i < 60 THEN 6 ELSE IF i < 80 THEN 8 ELSE 10
DownTenths(p) ==
  IF p.account = 0 \/ p.down <= 3 THEN 10 ELSE IF p.down <= 5 THEN 5 ELSE 0
PairTwentieths(p) == 20 + 3 * p.gbp + 3 * p.chf

\* Forty-thousandths of a percent, between a quarter percent and two unless 0.
DynamicRisk(p) ==
  LET risk == p.tolerance * SessionTenths(p) * IntentTenths(p) * DownTenths(p) * PairTwentieths(p)
  IN  IF risk = 0 THEN 0 ELSE Within(10000, 80000, risk)

\* The size for the manager's stop, which the adaptive stop then replaces.
BaseSize(p) == IF p.account = 0 THEN 0 ELSE ManagerSize(p)
DynamicSize(p) == IF DynamicRisk(p) = 0 THEN 0 ELSE Max({1, (BaseSize(p) * DynamicRisk(p)) \div 40000})

\* _calculate_realistic_rr, against 1.3.
Slippage(p) == IF p.alarm THEN 40 ELSE 15
PaysTooLittle(p) ==
  LET stop == AdaptiveStop(p)
      reward == IF Buys(p) THEN TakeProfit(p, stop) ELSE -TakeProfit(p, stop)
      risk == IF Buys(p) THEN -stop ELSE stop
  IN  risk <= 0 \/ reward * 10 < (risk + Slippage(p)) * 13

\* _resolve_rejection_reason: the weightiest, of equals the first found.
Rejection(p) ==
  IF Closed(p) THEN "avoid_weekend"
  ELSE IF DownTenths(p) = 0 THEN "excessive_drawdown"
  ELSE IF ~ManagerApproves(p) THEN "risk_limits"
  ELSE IF IntentTenths(p) = 0 THEN "low_intent_confidence"
  ELSE IF InNoise(p) THEN "stop_inside_noise_band"
  ELSE IF PaysTooLittle(p) THEN "insufficient_risk_reward" ELSE Allowed

\* size is in thousandths of a lot from here; guarded counts the calls of
\* enhance_signal_safety, which the auto trader and the execution skill make.
AssessmentOf(p) ==
  [stop |-> AdaptiveStop(p), target |-> TakeProfit(p, AdaptiveStop(p)),
   size |-> 10 * DynamicSize(p), reason |-> Rejection(p), score |-> RiskScore(p), guarded |-> 0]
Unassessed == [reason |-> "not assessed"]

\* At least 25 pips in a volatile market, for a direction that can be traded;
\* the target stays.
GuardedStop(p, stop) ==
  IF p.volatile /\ p.direction \in {"BUY", "SELL"} /\ FromEntry(stop) < 250
    THEN IF Buys(p) THEN -250 ELSE 250
    ELSE stop
Enhanced(p, a) ==
  [a EXCEPT !.stop = GuardedStop(p, @),
            !.size = IF p.uncertain THEN (@ * 7) \div 10 ELSE @,
            !.guarded = @ + 1]

SizingStart(p) == proposal = p /\ assessed = Unassessed
SizingInit == \E p \in Proposals : SizingStart(p)

AssessTrade ==
  /\ assessed = Unassessed
  /\ assessed' = AssessmentOf(proposal)
  /\ UNCHANGED proposal

EnhanceSafety ==
  /\ assessed # Unassessed /\ assessed.guarded < 2
  /\ assessed' = Enhanced(proposal, assessed)
  /\ UNCHANGED proposal

SizingNext == AssessTrade \/ EnhanceSafety

SizingSpec == SizingInit /\ [][SizingNext]_sizingVars
-----------------------------------------------------------------------------
\* What is left of a proposal's assessment after n calls of the guardrail.
Outcome(p, n) == LET once == Enhanced(p, AssessmentOf(p)) IN
                 CASE n = 0 -> AssessmentOf(p) [] n = 1 -> once [] OTHER -> Enhanced(p, once)

Negated(levels) == [i \in DOMAIN levels |-> -levels[i]]
MirrorProposal(p) ==
  [p EXCEPT !.direction = IF @ = "BUY" THEN "SELL" ELSE "BUY", !.zones = {-z : z \in @},
            !.support = Negated(p.resistance), !.resistance = Negated(p.support)]

\* A trade and its mirror image get the same size, score and verdict, and stop
\* and target at the same distances on the other side: the doubled branches for
\* BUY and SELL of manager, skill and guardrail agree.
SizingMirrored ==
  (assessed # Unassessed /\ proposal.direction # "WAIT") =>
    Outcome(MirrorProposal(proposal), assessed.guarded)
      = [assessed EXCEPT !.stop = -@, !.target = -@]

\* The same trade in circumstances that call for more caution.  A lower intent
\* is not among them: one that is low enough is raised.
Warier(p) ==
  {[p EXCEPT !.losses = @ + 1], [p EXCEPT !.down = @ + 1], [p EXCEPT !.swings = 2 * @],
   [p EXCEPT !.strength = @ \div 2], [p EXCEPT !.lift = 0], [p EXCEPT !.uncertain = TRUE],
   [p EXCEPT !.gbp = -1], [p EXCEPT !.chf = -1], [p EXCEPT !.limits = FALSE],
   [p EXCEPT !.alarm = TRUE], [p EXCEPT !.tolerance = 1]}

Rougher(p) == IF p.atr = 0 THEN {} ELSE {[p EXCEPT !.atr = @ + 20], [p EXCEPT !.atr = 2 * @]}

\* No sign of danger makes a trade larger or less risky in the program's eyes,
\* nor lets through what is refused without it: floors, caps, fallbacks and the
\* order of the multiplications do not undo a reduction.  A larger ATR may let
\* through: above 30 pips it widens the stop by more than the noise grows.
CautionNeverEnlarges ==
  assessed # Unassessed =>
    \A q \in Warier(proposal) \cup Rougher(proposal) :
      LET worse == Outcome(q, assessed.guarded) IN
      /\ worse.size <= assessed.size
      /\ worse.score >= assessed.score
      /\ worse.reason = Allowed /\ q.atr = proposal.atr => assessed.reason = Allowed

\* The stop lies where the trade loses and the target where it gains, through
\* manager, zones and guardrail; and what is not refused has a size, a stop
\* beyond the market's noise and, until the guardrail moves the stop without
\* the target, a reward of 1.3 times what a bad fill risks.
StopsGuard ==
  assessed # Unassessed =>
    LET side == IF Buys(proposal) THEN 1 ELSE -1 IN
    /\ side * assessed.stop < 0 /\ side * assessed.target > 0
    /\ FromEntry(assessed.stop) >= FromEntry(AdaptiveStop(proposal))
    /\ assessed.reason = Allowed =>
         /\ assessed.size > 0 /\ FromEntry(assessed.stop) * 5 >= proposal.atr * 3
         /\ assessed.guarded = 0 =>
              FromEntry(assessed.target) * 10 >= (FromEntry(assessed.stop) + Slippage(proposal)) * 13
=============================================================================
