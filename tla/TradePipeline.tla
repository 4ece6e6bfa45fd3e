---------------------------- MODULE TradePipeline ----------------------------
(* Orchestrator.run_full_analysis_pipeline and the auto trader that acts on *)
(* what it leaves in the shared SkillContext, with the guardrail and        *)
(* open_trade at its end.  A pipeline is suspended at every skill (each is  *)
(* a task of asyncio.wait_for), so one step here is the code between two    *)
(* awaits.  Confidences are in hundredths: 8000 is a strategy's 80 (%), 80  *)
(* the fraction 0.80, which is how the code mixes them.                     *)
EXTENDS Naturals, FiniteSets

CONSTANTS Traders,     \* pipelines run by the auto trader
          Analysts,    \* pipelines run by the agent, the pulse, the commands
          RiskMayFail, \* risk_management may fail or time out
          CrisisSkill, \* a crisis_analysis skill is registered
          NoRisk

ASSUME PipelineAssumption ==
  /\ Traders \cap Analysts = {}
  /\ RiskMayFail \in BOOLEAN /\ CrisisSkill \in BOOLEAN
  /\ NoRisk \notin [dir : {"BUY", "SELL", "WAIT", "HOLD", "none"},
                    stop : {"below", "above", "none", "pips"},
                    approved : BOOLEAN]

VARIABLES signals,   \* ctx.signals: direction, confidence
          risk,      \* ctx.risk
          profile,   \* ctx.metadata["debate_risk_profile"]
          emergency, \* ctx.metadata["emergency_mode"], and whether it is over
          debating,  \* debate_enabled, and a language model to debate with
          enabled,   \* bot_settings["auto_trading_enabled"]
          run        \* what each pipeline is doing, or the trade it ended with

pipelineVars == <<signals, risk, profile, emergency, debating, enabled, run>>

Pipelines == Traders \cup Analysts
Sides == {"BUY", "SELL"}
Opposite(d) == IF d = "BUY" THEN "SELL" ELSE "BUY"

RawConfidence == {0, 8000}   \* a strategy's, in per cent
Verdicts == {40, 80}         \* an arbiter's or a committee's, a fraction
Judgments == {0, 9000}       \* a debate's, in per cent
TradeThreshold == 6000       \* the auto trader's 60
DebateThreshold == 55        \* debate_min_confidence

\* Mutant: a percentage is not brought to a fraction.
ScaledNever(c) == c

\* Above 1.0 a confidence is taken for a percentage.
Scaled(c) == IF c > 100 THEN c \div 100 ELSE c

\* The pipeline's pips override the stop wherever there is a risk record.
WithProfile(r) == IF profile = "none" \/ r = NoRisk
                    THEN r
                    ELSE [r EXCEPT !.stop = IF profile = "pips" THEN "pips" ELSE "none"]

\* The side of an entry in direction d on which a stop limits the loss; any
\* direction other than BUY is handled as a SELL.
LosingSide(d) == IF d = "BUY" THEN "below" ELSE "above"

\* Mutant: the assessment falls back on its default direction.
AssessedDefault(d, ok) == [dir |-> "BUY", stop |-> LosingSide("BUY"), approved |-> ok]

Assessed(d, ok) == [dir |-> d, stop |-> LosingSide(d), approved |-> ok]

\* enhance_signal_safety in high volatility: a stop nearer than 25 pips is put
\* on the losing side of the signal's own direction; one far off (pips read as
\* a price) or absent stays.
Enhanced(r, d, near) ==
  IF r # NoRisk /\ near /\ r.stop \in {"below", "above"}
    THEN [r EXCEPT !.stop = LosingSide(d)] ELSE r

NoTrade == [dir |-> "none", conf |-> 0, riskDir |-> "none", stop |-> "none",
            decided |-> "none", debated |-> FALSE, assessed |-> FALSE, alone |-> FALSE]

\* debated, assessed and alone are history: what was done in this run, and
\* that no other pipeline has taken a step since it began; trade is what it
\* has just opened.
Idle == [at |-> "idle", dir |-> "none", debated |-> FALSE, assessed |-> FALSE,
         alone |-> FALSE, trade |-> NoTrade]

PipelineInit ==
  /\ signals = [dir |-> "none", conf |-> 0]
  /\ risk = NoRisk
  /\ profile = "none" /\ emergency = "off"
  /\ debating \in BOOLEAN /\ enabled \in BOOLEAN
  /\ run = [p \in Pipelines |-> Idle]

\* The code of p up to its next await: it cuts into the others.
CutInto(r) == [r EXCEPT !.alone = FALSE, !.trade = NoTrade]
Becomes(p, r) ==
  run' = [q \in Pipelines |-> IF q = p THEN r ELSE CutInto(run[q])]
Goto(p, at) == Becomes(p, [run[p] EXCEPT !.at = at])

-----------------------------------------------------------------------------
\* The auto trader looks at its switch, the others just call; both then wait
\* for the stored market state and the session.
Start(p) ==
  /\ run[p].at = "idle"
  /\ p \in Traders => enabled
  /\ Becomes(p, [Idle EXCEPT !.at = "emergency", !.alone = TRUE])
  /\ UNCHANGED <<signals, risk, profile, emergency, enabled, debating>>

\* _handle_emergency_mode: an emergency that is over ends here; one that is on
\* makes the pipeline return at once or after the crisis skill, its context as
\* an earlier run left it.
CheckEmergency(p) ==
  /\ run[p].at = "emergency"
  /\ emergency' = IF emergency = "over" THEN "off" ELSE emergency
  /\ Goto(p, IF emergency' # "on" THEN "market"
             ELSE IF CrisisSkill THEN "conflict0" ELSE "returned")
  /\ UNCHANGED <<signals, risk, profile, enabled, debating>>

\* The data and analysis skills leave their biases; a technical analysis that
\* rejects its data breaks the pipeline off before the strategy.
Analyse(p) ==
  /\ run[p].at = "market"
  /\ \/ Goto(p, "strategy")
     \/ Goto(p, "conflict")
  /\ UNCHANGED <<signals, risk, profile, emergency, enabled, debating>>

\* trading_strategy replaces ctx.signals, from the indicators or, when an
\* emergency was raised meanwhile, from the technical fallback; a failure (no
\* ADX or RSI) or a timeout leaves the old signals in place.
DetectSignal(p) ==
  /\ run[p].at = "strategy"
  /\ \/ \E d \in Sides \cup {"WAIT"}, c \in RawConfidence :
          signals' = [dir |-> d, conf |-> c]
     \/ UNCHANGED signals
  /\ Goto(p, "conflict")
  /\ UNCHANGED <<risk, profile, emergency, enabled, debating>>

\* The conflict phase at the end of each _execute_pipeline - of the crisis
\* skill, the analysis, the risk and the full fundamental analysis - and where
\* it waits for a committee.
Committee == [conflict0 |-> "committee0", conflict |-> "committee",
              conflict2 |-> "committee2", conflict3 |-> "committee3"]

\* Mutant: a verdict without an answer has the analysis made once more.
ContinueRetry(p, phase) ==
  \/ phase = "conflict" /\ Goto(p, IF signals.conf = 0 THEN "market" ELSE "cot") /\ UNCHANGED risk
  \/ phase = "conflict2" /\ Goto(p, "returned") /\ risk' = WithProfile(risk)
  \/ phase \in {"conflict0", "conflict3"} /\ Goto(p, "returned") /\ UNCHANGED risk

\* The analysis leads to the COT filter; the risk to the debate's figures over
\* the assessed ones and, in a trending or volatile market, to a full
\* fundamental analysis before the caller has his answer.
Continue(p, phase) ==
  \/ phase = "conflict" /\ Goto(p, "cot") /\ UNCHANGED risk
  \/ /\ phase = "conflict2" /\ risk' = WithProfile(risk)
     /\ Goto(p, "returned") \/ Goto(p, "macro")
  \/ phase \in {"conflict0", "conflict3"} /\ Goto(p, "returned") /\ UNCHANGED risk

\* The dependency check in front of risk_management: no direction, no step.
RiskStep(d) == IF d \in {"none", "NEUTRAL"} THEN "conflict2" ELSE "assess"

\* The arbiter looks at the biases the tools left and at the direction, and
\* may always find them in conflict. It votes, or waits for a committee; its
\* confidence replaces the signal's, its direction only the verdict beside it.
Resolve(p) ==
  /\ run[p].at \in DOMAIN Committee
  /\ \/ /\ signals' = [signals EXCEPT !.conf =
                        IF run[p].at = "conflict" THEN Scaled(@) ELSE @]
        /\ Continue(p, run[p].at)
     \/ /\ \E c \in Verdicts : signals' = [signals EXCEPT !.conf = c]
        /\ Continue(p, run[p].at)
     \/ /\ Goto(p, Committee[run[p].at])
        /\ UNCHANGED <<signals, risk>>
  /\ UNCHANGED <<profile, emergency, enabled, debating>>

\* The committee's answer, or its timeout (NEUTRAL, 0).
CommitteeAnswers(p) ==
  /\ \E phase \in DOMAIN Committee :
       run[p].at = Committee[phase] /\ Continue(p, phase)
  /\ \E c \in {0} \cup Verdicts : signals' = [signals EXCEPT !.conf = c]
  /\ UNCHANGED <<profile, emergency, enabled, debating>>

\* fundamental_analysis.full leaves its bias, and another conflict phase.
FullFundamental(p) ==
  /\ run[p].at = "macro"
  /\ Goto(p, "conflict3")
  /\ UNCHANGED <<signals, risk, profile, emergency, enabled, debating>>

\* _run_cot_filter, then the test at the head of _run_debate_layer.
CotFilter(p) ==
  /\ run[p].at = "cot"
  /\ \/ UNCHANGED signals
     \/ /\ signals.dir \in Sides
        /\ signals' = [signals EXCEPT !.dir = Opposite(@)]
     \/ /\ signals.dir \in Sides
        /\ signals' = [signals EXCEPT !.conf = (@ * 7) \div 10]
  /\ Goto(p, IF debating /\ signals'.dir \in Sides /\ signals'.conf >= DebateThreshold
               THEN "debate" ELSE RiskStep(signals'.dir))
  /\ UNCHANGED <<risk, profile, emergency, enabled, debating>>

\* The investment debate's judgment replaces direction and confidence; a
\* debate that failed is a HOLD of confidence 0.
Debate(p) ==
  /\ run[p].at = "debate"
  /\ \E d \in Sides \cup {"HOLD"}, c \in Judgments :
       /\ d = "HOLD" => c = 0
       /\ signals' = [dir |-> d, conf |-> c]
       /\ Becomes(p, [run[p] EXCEPT !.at = IF d \in Sides THEN "riskdebate" ELSE "store",
                                   !.debated = p \in Traders])
  /\ UNCHANGED <<risk, profile, emergency, enabled, debating>>

\* run_risk_debate: distances in pips, or zeros when its judge failed.  The
\* profile stays in the metadata: no later run clears it.
DebateRisk(p) ==
  /\ run[p].at = "riskdebate"
  /\ profile' \in {"pips", "zeros"}
  /\ Goto(p, "store")
  /\ UNCHANGED <<signals, risk, emergency, enabled, debating>>

StoreDecision(p) ==
  /\ run[p].at = "store"
  /\ Goto(p, RiskStep(signals.dir))
  /\ UNCHANGED <<signals, risk, profile, emergency, enabled, debating>>

\* risk_management.assess_trade writes ctx.risk for the direction it finds;
\* failing or timing out it leaves the record of an earlier run.
AssessRisk(p) ==
  /\ run[p].at = "assess"
  /\ \/ \E ok \in BOOLEAN :
          /\ risk' = Assessed(signals.dir, ok)
          /\ Becomes(p, [run[p] EXCEPT !.at = "conflict2", !.assessed = p \in Traders])
     \/ /\ RiskMayFail
        /\ Goto(p, "conflict2")
        /\ UNCHANGED risk
  /\ UNCHANGED <<signals, profile, emergency, enabled, debating>>

-----------------------------------------------------------------------------
\* What the auto trader does with the context it got back, up to the
\* guardrail's first look at the stored trades; the others have their answer.
Gate(p) ==
  /\ run[p].at = "returned"
  /\ IF /\ p \in Traders /\ emergency = "off"
        /\ signals.dir \in Sides /\ signals.conf >= TradeThreshold
       THEN Becomes(p, [run[p] EXCEPT !.at = "guard", !.dir = signals.dir])
       ELSE Becomes(p, Idle)
  /\ UNCHANGED <<signals, risk, profile, emergency, enabled, debating>>

\* The rest of should_block_signal (drawdown, news, session and data may block)
\* and enhance_signal_safety, before the auto trader asks for the trade lock.
Guard(p) ==
  /\ run[p].at = "guard"
  /\ \/ Becomes(p, Idle) /\ UNCHANGED risk
     \/ /\ signals.dir \in Sides
        /\ \E near \in BOOLEAN : risk' = Enhanced(risk, signals.dir, near)
        /\ Goto(p, "lock")
  /\ UNCHANGED <<signals, profile, emergency, enabled, debating>>

\* With the lock open_trade asks the guardrail a second time.
TakeLock(p) ==
  /\ run[p].at = "lock"
  /\ IF emergency = "off" THEN Goto(p, "open") ELSE Becomes(p, Idle)
  /\ UNCHANGED <<signals, risk, profile, emergency, enabled, debating>>

\* The rest of open_trade reads signals and risk as they are by then: no risk
\* at all passes _guard_trade, only a denied one stops it.
OpenTrade(p) ==
  /\ run[p].at = "open"
  /\ \/ Becomes(p, Idle) /\ UNCHANGED risk
     \/ /\ signals.dir \in Sides /\ emergency = "off"
        /\ \E near \in BOOLEAN : risk' = Enhanced(risk, signals.dir, near)
        /\ risk' # NoRisk => risk'.approved
        /\ Becomes(p, [Idle EXCEPT !.trade =
             [dir |-> signals.dir, conf |-> signals.conf, decided |-> run[p].dir,
              riskDir |-> IF risk' = NoRisk THEN "none" ELSE risk'.dir,
              stop |-> IF risk' = NoRisk THEN "none" ELSE risk'.stop,
              debated |-> run[p].debated, assessed |-> run[p].assessed,
              alone |-> run[p].alone]])
  /\ UNCHANGED <<signals, profile, emergency, enabled, debating>>

-----------------------------------------------------------------------------
\* The kill switch and the settings page write auto_trading_enabled.
Switch ==
  /\ enabled' = ~enabled
  /\ UNCHANGED <<signals, risk, profile, emergency, run, debating>>

\* The deviation monitor raises the emergency; its time runs out by itself.
Emergency ==
  /\ \/ emergency \in {"off", "over"} /\ emergency' = "on"
     \/ emergency = "on" /\ emergency' = "over"
  /\ UNCHANGED <<signals, risk, profile, enabled, run, debating>>

Advance(p) ==
  \/ CheckEmergency(p) \/ Analyse(p) \/ DetectSignal(p) \/ Resolve(p)
  \/ CommitteeAnswers(p) \/ CotFilter(p) \/ Debate(p) \/ DebateRisk(p)
  \/ StoreDecision(p) \/ AssessRisk(p) \/ FullFundamental(p)
  \/ Gate(p) \/ Guard(p) \/ TakeLock(p) \/ OpenTrade(p)

PipelineNext ==
  \/ \E p \in Pipelines : Start(p) \/ Advance(p)
  \/ Switch \/ Emergency

PipelineSpec == /\ PipelineInit /\ [][PipelineNext]_pipelineVars
                /\ \A p \in Pipelines : WF_pipelineVars(Advance(p))

-----------------------------------------------------------------------------
Directions == {"none", "BUY", "SELL", "WAIT", "HOLD"}
RiskRecords == [dir : Directions, stop : {"below", "above", "none", "pips"},
                approved : BOOLEAN] \cup {NoRisk}

Figures == 0 .. 9500

PipelineTypeOK ==
  /\ signals \in [dir : Directions, conf : Figures]
  /\ risk \in RiskRecords
  /\ profile \in {"none", "pips", "zeros"}
  /\ emergency \in {"off", "on", "over"}
  /\ debating \in BOOLEAN /\ enabled \in BOOLEAN
  /\ \A p \in Pipelines : run[p].dir \in {"none"} \cup Sides

\* Whatever other pipelines left in the context before: in a run that none of
\* them cuts into, the auto trader trades only what was put to the debate in
\* that very run, with the debate's confidence still the last word. The
\* threshold of 60 is on the scale of the debate alone, every other stage
\* leaves a fraction, so neither a strategy's raw figure, an arbiter's vote,
\* the second look of a trending market nor the signals of an earlier run
\* (emergency, failed strategy) get past it.
DebatedBeforeTraded ==
  \A p \in Traders : LET t == run[p].trade IN
    t # NoTrade /\ t.alone => t.debated /\ t.conf >= TradeThreshold

\* In such a run, too, the direction opened is the one decided on, and when the
\* risk skill gave its answer the risk record is for that direction: the COT
\* filter and the debate, which turn the signal, come before the assessment,
\* and nothing after it does.
RiskMatchesSignal ==
  \A p \in Traders : LET t == run[p].trade IN
    t # NoTrade /\ t.alone =>
      /\ t.decided = t.dir
      /\ t.assessed => t.riskDir = t.dir

\* Every call of the pipeline comes back to its caller, whatever its skills,
\* the committee and the debates answer.
PipelineReturns ==
  \A p \in Pipelines : run[p].at # "idle" ~> run[p].at = "idle"

\* Every trade the auto trader opens was assessed by the risk skill, for its
\* direction.
EveryTradeAssessed ==
  \A p \in Traders : LET t == run[p].trade IN t # NoTrade => t.riskDir = t.dir

\* A trade's stop, where it has one, is a price on the losing side of its
\* entry.
StopProtects ==
  \A p \in Traders : LET t == run[p].trade IN
    t # NoTrade => t.stop \in {"none", LosingSide(t.dir)}

-----------------------------------------------------------------------------
\* Why the two hold.

Places == {"idle", "emergency", "market", "strategy", "cot", "debate", "riskdebate",
           "store", "assess", "macro", "returned", "guard", "lock", "open"}
          \cup DOMAIN Committee \cup {"committee0", "committee", "committee2", "committee3"}

Trades == [dir : Directions, conf : Figures, decided : Directions,
           stop : {"below", "above", "none", "pips"}, riskDir : Directions,
           debated : BOOLEAN, assessed : BOOLEAN, alone : BOOLEAN]

PipelineShape ==
  /\ PipelineTypeOK
  /\ run \in [Pipelines -> [at : Places, dir : {"none"} \cup Sides, debated : BOOLEAN,
                            assessed : BOOLEAN, alone : BOOLEAN, trade : Trades]]

\* Once the conflict phase is over only the debate leaves a confidence that the
\* auto trader takes; a run that an emergency broke off has an old one, but the
\* emergency is still there when the guardrail looks.
FractionUnlessDebated(p) ==
  LET r == run[p] IN
  /\ r.at \in {"cot", "debate", "assess", "macro", "conflict2", "committee2",
               "conflict3", "committee3"} /\ ~r.debated => signals.conf <= 100
  /\ r.at \in {"riskdebate", "store", "guard", "lock", "open"} => r.debated
  /\ r.at \in {"conflict0", "committee0"} => emergency # "off"
  /\ r.at = "returned" /\ ~r.debated => signals.conf <= 100 \/ emergency # "off"

\* From the assessment on the direction stays what was assessed, from the gate
\* on what was decided.
DirectionKept(p) ==
  LET r == run[p] IN
  /\ r.assessed => risk # NoRisk /\ risk.dir = signals.dir
  /\ r.at \in {"guard", "lock", "open"}
       => r.dir = signals.dir /\ signals.conf >= TradeThreshold

\* Only an assessment says that it was made.
AssessedLate(p) ==
  run[p].assessed => run[p].at \in {"conflict2", "committee2", "macro", "conflict3",
                                    "committee3", "returned", "guard", "lock", "open"}

PipelineInv ==
  /\ PipelineShape
  /\ \A p \in Traders : /\ AssessedLate(p)
                        /\ run[p].alone => FractionUnlessDebated(p) /\ DirectionKept(p)
  /\ DebatedBeforeTraded /\ RiskMatchesSignal
=============================================================================
