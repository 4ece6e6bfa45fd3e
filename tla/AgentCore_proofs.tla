--------------------------- MODULE AgentCore_proofs ---------------------------
(***************************************************************************)
(* Theorems about AgentCore, for every set of drivers and any number of    *)
(* restarts.                                                               *)
(***************************************************************************)
EXTENDS AgentCore, TLAPS

\* The lock: at most one driver is inside a tick.
OneTick == \A d, e \in Drivers : pc[d] # "idle" /\ pc[e] # "idle" => d = e

TickInv == TypeOK /\ StateStable /\ OneTick /\ DecidingSafe

LEMMA InitTick == Init => TickInv
BY DEF Init, TickInv, TypeOK, StateStable, OneTick, DecidingSafe, AgentState, Timers,
       World, Unknown, Beliefs, Awaits

LEMMA WorldFields ==
  ASSUME NEW w \in World, NEW b \in BOOLEAN
  PROVE  /\ [w EXCEPT !.priced = TRUE, !.wide = b] \in World
         /\ [w EXCEPT !.open = w.open \/ b] \in World
BY DEF World

\* The step in which a driver takes the lock keeps it for itself.
LEMMA BeginKeeps ==
  ASSUME TickInv, NEW d \in Drivers, BeginTick(d)
  PROVE  TickInv'
<1> USE DEF TickInv, TypeOK, StateStable, OneTick, DecidingSafe, AgentState, Timers,
            World, Beliefs, Awaits, envVars, tickVars
<1>1. \A e \in Drivers : pc[e] = "idle"
  BY DEF BeginTick, Scan, ScanTooSoon, Analyze, FormConvictions, FormingFails, Decide,
         Execute, Monitor, Review, Begin, Unlocked
<1>2. CASE Scan(d)
  BY <1>1, <1>2 DEF Scan, Await
<1>3. CASE ScanTooSoon(d)
  BY <1>1, <1>3 DEF ScanTooSoon, AfterScan
<1>4. CASE Analyze(d)
  BY <1>1, <1>4 DEF Analyze, Await
<1>5. CASE FormConvictions(d)
  BY <1>1, <1>5 DEF FormConvictions, AfterForming, ShouldEvaluate, Await
<1>6. CASE FormingFails(d)
  BY <1>1, <1>6 DEF FormingFails
<1>7. CASE Decide(d)
  BY <1>1, <1>7 DEF Decide
<1>8. CASE Execute(d)
  BY <1>1, <1>8 DEF Execute
<1>9. CASE Monitor(d)
  BY <1>1, <1>9 DEF Monitor
<1>10. CASE Review(d)
  BY <1>1, <1>10 DEF Review, Await
<1> QED BY <1>2, <1>3, <1>4, <1>5, <1>6, <1>7, <1>8, <1>9, <1>10 DEF BeginTick

LEMMA AwaitStates ==
  /\ DOMAIN Awaits = {"price", "session", "pipeline", "list", "plan", "llm", "review"}
  /\ Awaits["price"] = "scanning" /\ Awaits["session"] = "scanning"
  /\ Awaits["pipeline"] = "analyzing" /\ Awaits["list"] = "analyzing"
  /\ Awaits["plan"] = "analyzing"
BY DEF Awaits

\* A tick that goes on is the only one, in the state it began in.
LEMMA GoOnKeeps ==
  ASSUME TickInv, NEW d \in Drivers, GoOn(d)
  PROVE  TickInv'
<1> USE AwaitStates DEF TickInv, TypeOK, StateStable, OneTick, envVars
<1>1. pc[d] # "idle"
  BY DEF GoOn, PriceTick, NoPrice, ScanDone, ScanFails, PipelineDone, AnalysisFails,
         ListTrades, ListFails, PlanDone, NewConviction, ReviewDone, Resume
<1>2. state = Awaits[pc[d]] /\ \A e \in Drivers \ {d} : pc[e] = "idle"
  BY <1>1
<1>3. ASSUME NEW a \in {"idle"} \cup DOMAIN Awaits, Await(d, a)
      PROVE  /\ pc' \in [Drivers -> {"idle"} \cup DOMAIN Awaits] /\ hung' \subseteq Drivers
             /\ pc'[d] = a /\ \A e \in Drivers \ {d} : pc'[e] = "idle"
  BY <1>2, <1>3 DEF Await
\* The tick waits again, for what belongs to the same state,
<1>4. ASSUME NEW a \in DOMAIN Awaits, Await(d, a), Awaits[a] = state, state # "deciding",
             UNCHANGED <<state, belief, envVars>>, stale' \subseteq Timers, wm' \in World
      PROVE  TickInv'
  BY <1>3, <1>4 DEF DecidingSafe
\* or it is over.
<1>5. ASSUME EndTick(d), state' \in AgentState, belief' \in Beliefs, UNCHANGED envVars,
             stale' \subseteq Timers, wm' \in World, DecidingSafe'
      PROVE  TickInv'
  BY <1>3, <1>5 DEF EndTick
<1>6. CASE PriceTick(d)
  <2>1. PICK wide \in BOOLEAN : wm' = [wm EXCEPT !.priced = TRUE, !.wide = wide]
    BY <1>6 DEF PriceTick
  <2>2. wm' \in World
    BY <2>1, WorldFields
  <2> QED BY <1>2, <1>4, <1>6, <2>2 DEF PriceTick, Resume
<1>7. CASE NoPrice(d)
  BY <1>2, <1>4, <1>7 DEF NoPrice, Resume
<1>8. CASE ScanDone(d) \/ ScanFails(d)
  BY <1>5, <1>8 DEF ScanDone, ScanFails, AfterScan, AgentState, DecidingSafe
<1>9. ASSUME FromPipeline
      PROVE  wm' \in World
  <2>1. CASE UNCHANGED wm
    BY <2>1
  <2>2. ASSUME NEW wide \in BOOLEAN, wm' = [wm EXCEPT !.priced = TRUE, !.wide = wide]
        PROVE  wm' \in World
    BY <2>2, WorldFields
  <2> QED BY <1>9, <2>1, <2>2 DEF FromPipeline
<1>10. CASE PipelineDone(d)
  BY <1>2, <1>4, <1>9, <1>10 DEF PipelineDone, Resume
<1>11. CASE AnalysisFails(d)
  BY <1>5, <1>9, <1>11 DEF AnalysisFails, AgentState, DecidingSafe
<1>12. CASE ListTrades(d) \/ ListFails(d)
  <2>1. wm' \in World
    <3>1. CASE ListTrades(d)
      <4>1. wm' = [wm EXCEPT !.open = wm.open \/ traded]
        BY <3>1 DEF ListTrades
      <4> QED BY <4>1, WorldFields, Zenon
    <3>2. CASE ListFails(d)
      BY <3>2 DEF ListFails
    <3> QED BY <1>12, <3>1, <3>2
  <2>2. Analyzed(d) /\ state = "analyzing"
    BY <1>2, <1>12 DEF ListTrades, ListFails, Resume
  <2> QED BY <1>4, <1>5, <2>1, <2>2 DEF Analyzed, AgentState, DecidingSafe
<1>13. CASE PlanDone(d) \/ ReviewDone(d)
  BY <1>5, <1>13 DEF PlanDone, ReviewDone, AgentState, DecidingSafe
<1>14. CASE NewConviction(d)
  BY <1>5, <1>14 DEF NewConviction, AfterForming, ShouldEvaluate, AgentState, DecidingSafe
<1> QED BY <1>6, <1>7, <1>8, <1>10, <1>11, <1>12, <1>13, <1>14 DEF GoOn

LEMMA StepTick == TickInv /\ [Next]_vars => TickInv'
<1> SUFFICES ASSUME TickInv, [Next]_vars PROVE TickInv'
  OBVIOUS
<1>1. ASSUME NEW d \in Drivers, BeginTick(d) \/ GoOn(d)
      PROVE  TickInv'
  BY <1>1, BeginKeeps, GoOnKeeps
<1> USE DEF TickInv, TypeOK, StateStable, OneTick, DecidingSafe, Timers, envVars
<1>2. ASSUME NEW d \in Drivers, Hangs(d) \/ Timeout(d)
      PROVE  TickInv'
  BY <1>2 DEF Hangs, Timeout
<1>3. ASSUME NEW t \in Timers, TimePasses(t)
      PROVE  TickInv'
  BY <1>3 DEF TimePasses, tickVars
<1>4. CASE Trading
  BY <1>4 DEF Trading, tickVars
<1>5. CASE Restart
  <2>1. saved' \in [wm : World, belief : Beliefs]
    BY <1>5 DEF Restart
  <2> QED BY <1>5, <2>1 DEF Restart, AgentState
<1>6. CASE UNCHANGED vars
  BY <1>6 DEF vars, tickVars
<1> QED BY <1>1, <1>2, <1>3, <1>4, <1>5, <1>6 DEF Next

LEMMA TickInvariant == Spec => []TickInv
BY InitTick, StepTick, PTL DEF Spec

\* The agent only ever holds values of the declared types.
THEOREM AgentTyped == Spec => []TypeOK
<1>1. TickInv => TypeOK
  BY DEF TickInv
<1> QED BY TickInvariant, <1>1, PTL

\* While a tick waits the agent stays in the state the tick works for, for
\* any number of drivers.
THEOREM TicksAlone == Spec => []StateStable
<1>1. TickInv => StateStable
  BY DEF TickInv
<1> QED BY TickInvariant, <1>1, PTL

\* A decision is only taken with no open trade known, an acceptable spread
\* and a conviction above the bar.
THEOREM DecisionsFounded == Spec => []DecidingSafe
<1>1. TickInv => DecidingSafe
  BY DEF TickInv
<1> QED BY TickInvariant, <1>1, PTL
=============================================================================
