------------------------------ MODULE AgentCore ------------------------------
(***************************************************************************)
(* The state machine of brain/agent_core.py.  Its own loop and the         *)
(* agent_heartbeat of automation/cron.py tick it; an action is the part of *)
(* a tick between two awaits.  The world model is reduced to what the      *)
(* machine asks of it, the convictions to how strong the strongest is.     *)
(* pause() and register_handler() have no caller: nothing pauses, and a    *)
(* dispatched action does not suspend.  IDLE is left by the first tick and *)
(* no transition leads back to it.                                         *)
(***************************************************************************)
EXTENDS Naturals

CONSTANTS Drivers,     \* the callers of _tick: the loop, the heartbeat
          MaxRestart   \* bound of the model

ASSUME RestartAssumption == MaxRestart \in Nat

VARIABLES
  state,     \* AgentState
  pc, hung,  \* per driver: the await its tick is at; the calls that never return
  stale,     \* the timers that have run out: _last_monitoring, ...
  wm,        \* world_model: open_trade_count > 0, a price, spread > kill threshold
  belief,    \* the confidence of get_strongest() against the bar
  traded,    \* external: a signal in storage is open
  saved,     \* agent_core_state
  restarts

tickVars == <<pc, hung>>
envVars  == <<traded, saved, restarts>>
vars     == <<state, tickVars, stale, wm, belief, envVars>>

AgentState == {"idle", "scanning", "analyzing", "conviction_forming", "deciding",
               "executing", "monitoring", "reviewing"}
Timers   == {"monitoring", "deep", "scan"}
Beliefs  == {"none", "weak", "firm"}
World    == [open : BOOLEAN, priced : BOOLEAN, wide : BOOLEAN]
Unknown  == [open |-> FALSE, priced |-> FALSE, wide |-> FALSE]

\* Where a tick suspends, and the state it works for meanwhile
Awaits == [price |-> "scanning", session |-> "scanning",
           pipeline |-> "analyzing", list |-> "analyzing", plan |-> "analyzing",
           llm |-> "conviction_forming", review |-> "reviewing"]
-----------------------------------------------------------------------------
(***************************************************************************)
(* A tick                                                                  *)
(***************************************************************************)

OwnTick(d) == pc[d] = "idle"  \* mutant: no _tick_lock
\* A tick that finds the lock taken is skipped.
Unlocked(d) == \A e \in Drivers : pc[e] = "idle"

\* _determine_next_state
NextState ==
  IF wm.open /\ "monitoring" \in stale THEN "monitoring"
  ELSE IF "deep" \in stale THEN "analyzing"
  ELSE IF "scan" \in stale THEN "scanning"
  ELSE state

Begin(d, s) == Unlocked(d) /\ NextState = s

Await(d, a)     == pc' = [pc EXCEPT ![d] = a] /\ UNCHANGED hung
Resume(d, a)    == pc[d] = a /\ d \notin hung
EndTick(d)      == Await(d, "idle")

\* SCANNING: _do_scan, at most every 20 seconds, and _needs_deep_analysis
AfterScan ==
  state' \in {"analyzing"} \cup IF "deep" \in stale THEN {} ELSE {"conviction_forming"}

Scan(d) == /\ Begin(d, "scanning") /\ state' = "scanning" /\ Await(d, "price")
           /\ UNCHANGED <<stale, wm, belief, envVars>>

ScanTooSoon(d) == /\ Begin(d, "scanning") /\ "scan" \notin stale /\ AfterScan
                  /\ UNCHANGED <<tickVars, stale, wm, belief, envVars>>

\* get_price answers; the spread changes only with a bid and an ask.
PriceTick(d) == /\ Resume(d, "price") /\ Await(d, "session")
                /\ \E wide \in BOOLEAN : wm' = [wm EXCEPT !.priced = TRUE, !.wide = wide]
                /\ UNCHANGED <<state, stale, belief, envVars>>

NoPrice(d) == /\ Resume(d, "price") /\ Await(d, "session")
              /\ UNCHANGED <<state, stale, wm, belief, envVars>>

ScanDone(d) == /\ Resume(d, "session") /\ EndTick(d) /\ AfterScan
               /\ stale' = stale \ {"scan"}
               /\ UNCHANGED <<wm, belief, envVars>>

ScanFails(d) == /\ Resume(d, "price") \/ Resume(d, "session")
                /\ EndTick(d) /\ AfterScan
                /\ UNCHANGED <<stale, wm, belief, envVars>>

\* ANALYZING: _do_deep_analysis
Analyze(d) == /\ Begin(d, "analyzing") /\ state' = "analyzing" /\ Await(d, "pipeline")
              /\ UNCHANGED <<stale, wm, belief, envVars>>

\* update_from_pipeline: with the market data or, if that skill failed, without
FromPipeline == \/ \E wide \in BOOLEAN : wm' = [wm EXCEPT !.priced = TRUE, !.wide = wide]
                \/ UNCHANGED wm

PipelineDone(d) == /\ Resume(d, "pipeline") /\ Await(d, "list") /\ FromPipeline
                   /\ UNCHANGED <<state, stale, belief, envVars>>

\* An exception, also half way through update_from_pipeline
AnalysisFails(d) == /\ Resume(d, "pipeline") /\ EndTick(d) /\ FromPipeline
                    /\ state' = "conviction_forming"
                    /\ UNCHANGED <<stale, belief, envVars>>

\* After list_trades the analysis counts as done; without a session plan one
\* is made, an await more.
Analyzed(d) ==
  /\ stale' = stale \ {"deep"}
  /\ \/ EndTick(d) /\ state' = "conviction_forming"
     \/ Await(d, "plan") /\ UNCHANGED state
  /\ UNCHANGED <<belief, envVars>>

\* list_trades returns the open signals; an empty list is not passed on to
\* update_risk_state.
ListTrades(d) == /\ Resume(d, "list") /\ Analyzed(d)
                 /\ wm' = [wm EXCEPT !.open = @ \/ traded]

ListFails(d) == Resume(d, "list") /\ Analyzed(d) /\ UNCHANGED wm

PlanDone(d) == /\ Resume(d, "plan") /\ EndTick(d) /\ state' = "conviction_forming"
               /\ UNCHANGED <<stale, wm, belief, envVars>>

AnySpread(b) == b = "firm"  \* mutant: no spread kill switch
\* _should_evaluate_trade
ShouldEvaluate(b) == ~wm.wide /\ b = "firm"

AfterForming == state' = IF wm.open THEN "monitoring"
                         ELSE IF ShouldEvaluate(belief') THEN "deciding" ELSE "scanning"

\* CONVICTION_FORMING: _do_conviction_update
FormConvictions(d) ==
  /\ Begin(d, "conviction_forming") /\ belief' \in Beliefs
  /\ \/ AfterForming /\ UNCHANGED tickVars
     \/ state' = "conviction_forming" /\ Await(d, "llm")
  /\ UNCHANGED <<stale, wm, envVars>>

\* The answer of the model, or the heuristic in its place
NewConviction(d) == /\ Resume(d, "llm") /\ EndTick(d)
                    /\ belief' \in Beliefs /\ AfterForming
                    /\ UNCHANGED <<stale, wm, envVars>>

\* The tracker raises, e.g. on a level the model gave as text.
FormingFails(d) == /\ Begin(d, "conviction_forming") /\ state' = "scanning"
                   /\ UNCHANGED <<tickVars, stale, wm, belief, envVars>>

\* DECIDING: _do_decide has more checks than the strength of the conviction.
Decide(d) == /\ Begin(d, "deciding")
             /\ state' \in {"scanning"} \cup IF belief = "firm" THEN {"executing"} ELSE {}
             /\ UNCHANGED <<tickVars, stale, wm, belief, envVars>>

Execute(d) == /\ Begin(d, "executing") /\ state' = "monitoring"
              /\ UNCHANGED <<tickVars, stale, wm, belief, envVars>>

\* MONITORING: without a price _do_monitoring returns before it notes the time.
Monitor(d) ==
  /\ Begin(d, "monitoring")
  /\ stale' = stale \ IF wm.open /\ wm.priced THEN {"monitoring"} ELSE {}
  /\ state' = IF wm.open THEN "scanning" ELSE "reviewing"
  /\ UNCHANGED <<tickVars, wm, belief, envVars>>

\* REVIEWING: _do_review
Review(d) == /\ Begin(d, "reviewing") /\ state' = "reviewing" /\ Await(d, "review")
             /\ UNCHANGED <<stale, wm, belief, envVars>>

ReviewDone(d) == /\ Resume(d, "review") /\ EndTick(d) /\ state' = "scanning"
                 /\ UNCHANGED <<stale, wm, belief, envVars>>

\* What is awaited never comes ...
Hangs(d) == /\ pc[d] # "idle" /\ hung' = hung \cup {d}
            /\ UNCHANGED <<state, pc, stale, wm, belief, envVars>>

AnswersOnly(d) == pc[d] # "idle" /\ d \notin hung  \* mutant: no wait_for
TimesOut(d) == pc[d] # "idle"

\* ... or not within MAX_TICK_DURATION: the tick is cancelled where it is.
Timeout(d) == /\ TimesOut(d)
              /\ pc' = [pc EXCEPT ![d] = "idle"] /\ hung' = hung \ {d}
              /\ UNCHANGED <<state, stale, wm, belief, envVars>>
-----------------------------------------------------------------------------
(***************************************************************************)
(* Time, the trades and the process                                        *)
(***************************************************************************)

TimePasses(t) == /\ stale' = stale \cup {t}
                 /\ UNCHANGED <<state, tickVars, wm, belief, envVars>>

\* The auto trader and the users open and close trades.
Trading == /\ traded' = ~traded
           /\ UNCHANGED <<state, tickVars, stale, wm, belief, saved, restarts>>

\* stop() saves the world model and the convictions; after a crash, or if
\* _persist_state failed, those of an earlier stop are restored.
Restart ==
  /\ restarts < MaxRestart /\ restarts' = restarts + 1
  /\ saved' \in {saved, [wm |-> wm, belief |-> belief]}
  /\ wm' = saved'.wm /\ belief' = saved'.belief
  /\ state' = "idle" /\ stale' = Timers
  /\ pc' = [d \in Drivers |-> "idle"] /\ hung' = {}
  /\ UNCHANGED traded

Init == /\ state = "idle" /\ stale = Timers
        /\ pc = [d \in Drivers |-> "idle"] /\ hung = {}
        /\ wm = Unknown /\ belief = "none"
        /\ traded \in BOOLEAN
        /\ saved = [wm |-> Unknown, belief |-> "none"]
        /\ restarts = 0

BeginTick(d) == Scan(d) \/ ScanTooSoon(d) \/ Analyze(d) \/ FormConvictions(d)
                \/ FormingFails(d) \/ Decide(d) \/ Execute(d) \/ Monitor(d) \/ Review(d)
GoOn(d) == PriceTick(d) \/ NoPrice(d) \/ ScanDone(d) \/ ScanFails(d) \/ PipelineDone(d)
           \/ AnalysisFails(d) \/ ListTrades(d) \/ ListFails(d) \/ PlanDone(d)
           \/ NewConviction(d) \/ ReviewDone(d)

Next == \/ \E d \in Drivers : BeginTick(d) \/ GoOn(d) \/ Hangs(d) \/ Timeout(d)
        \/ \E t \in Timers : TimePasses(t)
        \/ Trading \/ Restart

Spec == Init /\ [][Next]_vars

\* Both drivers keep ticking, a tick is over after 90 seconds, and a pipeline
\* that is run again and again is now and then quick enough.
Fairness == \A d \in Drivers : /\ WF_vars(BeginTick(d)) /\ WF_vars(Timeout(d))
                               /\ SF_vars(PipelineDone(d))
                               /\ SF_vars(ListTrades(d) \/ ListFails(d))
FairSpec == Spec /\ Fairness
-----------------------------------------------------------------------------
TypeOK ==
  /\ state \in AgentState
  /\ pc \in [Drivers -> {"idle"} \cup DOMAIN Awaits] /\ hung \subseteq Drivers
  /\ stale \subseteq Timers /\ wm \in World /\ belief \in Beliefs
  /\ traded \in BOOLEAN /\ saved \in [wm : World, belief : Beliefs]
  /\ restarts \in Nat

\* A tick is alone: as long as it waits for a skill or the language model the
\* agent stays in the state it works for, also when it was cancelled or never
\* comes back, so what it does next fits that state.
StateStable == \A d \in Drivers : pc[d] # "idle" => state = Awaits[pc[d]]

\* The agent decides only on what it has just established: no open trade, a
\* spread below the kill switch, a conviction above the bar - with any scan,
\* analysis, timeout or restart in between.
DecidingSafe == state = "deciding" => ~wm.open /\ ~wm.wide /\ belief = "firm"

\* Without a trade to watch the full analysis recurs, whatever hangs.
AnalysisRecurs == "deep" \in stale ~> "deep" \notin stale \/ wm.open
=============================================================================
