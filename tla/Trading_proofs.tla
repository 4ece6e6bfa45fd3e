--------------------------- MODULE Trading_proofs ---------------------------
(* Theorems about TrailingStop, for all prices, distances and stops, about  *)
(* RiskManager, for all limits, results and spans of time, and about        *)
(* TradePipeline, for any number of pipelines, whatever they share.         *)
EXTENDS TrailingStop, RiskManager, TradePipeline, TLAPS

LEMMA InitStop == StopInit => StopInv
<1> SUFFICES ASSUME StopInit PROVE StopInv
  OBVIOUS
<1>1. unsaved \in BOOLEAN
  BY Zenon DEF StopInit
<1>2. EngineAhead /\ EngineSecures
  BY PriceAssumption DEF StopInit, EngineAhead, EngineSecures, Better
<1> QED BY <1>1, <1>2, PriceAssumption DEF StopInit, StopInv, StopTypeOK

\* update() keeps the types and never makes the stop worse.
LEMMA UpdateImproves ==
  ASSUME StopTypeOK, UNCHANGED direction, NEW p \in Int, Update(p)
  PROVE  /\ initial' \in Int /\ stop' \in Int /\ extreme' \in Int
         /\ flags \subseteq flags' /\ flags' \subseteq flags \cup {"active", "breakeven"}
         /\ ~Better(stop, stop')
<1> USE PriceAssumption, EngineAssumption DEF StopTypeOK, Better, Ahead, Behind
<1>1. Extreme(p) \in Int
  BY DEF Extreme
<1>2. Trailed(p) \in Int /\ ~Better(stop, Trailed(p))
  BY <1>1 DEF Trailed, Improves
<1>3. NewStop(p) \in Int /\ ~Better(stop, NewStop(p))
  BY <1>2 DEF NewStop, Secured, BreakevenStop
<1>4. CASE Gated(p)
  <2>1. UNCHANGED engineVars
    BY <1>4, Zenon DEF Update
  <2> QED BY <2>1 DEF engineVars
<1>5. CASE ~Gated(p)
  <2>1. /\ extreme' = Extreme(p) /\ stop' = NewStop(p) /\ UNCHANGED initial
        /\ flags \subseteq flags' /\ flags' \subseteq flags \cup {"active", "breakeven"}
    BY <1>5 DEF Update
  <2> QED BY <1>1, <1>3, <2>1
<1> QED BY <1>4, <1>5

\* A price gains when it is better than the entry.
LEMMA InProfit ==
  \A p \in Int : Gain(p) > 0 <=> Better(p, Entry)
<1>1. \A p, q \in Int : p > q <=> p - q > 0
  OBVIOUS
<1> QED BY <1>1, PriceAssumption DEF Gain, Better

\* Break-even is reported with the stop beyond the entry, and update() only
\* moves it further.
LEMMA UpdateSecures ==
  ASSUME StopTypeOK, UNCHANGED direction, NEW p \in Int, Update(p),
         "breakeven" \in flags => Gain(stop) > 0, "breakeven" \in flags'
  PROVE  Gain(stop') > 0
<1> USE PriceAssumption, EngineAssumption
<1>1. stop' \in Int /\ ~Better(stop, stop')
  BY UpdateImproves
<1>2. CASE "breakeven" \in flags
  <2>1. stop \in Int /\ Better(stop, Entry)
    BY <1>2, InProfit DEF StopTypeOK
  <2>2. Better(stop', Entry)
    BY <1>1, <2>1 DEF Better, StopTypeOK
  <2> QED BY <1>1, <2>2, InProfit
<1>3. CASE "breakeven" \notin flags
  <2>1. ~Gated(p)
    BY <1>3 DEF Update, engineVars
  <2>2. Secured(p, Trailed(p)) /\ stop' = NewStop(p)
    BY <1>3, <2>1 DEF Update
  <2> QED BY <2>2 DEF NewStop, BreakevenStop, Ahead, Gain, StopTypeOK
<1> QED BY <1>2, <1>3

\* The engine's stop stays at least as good as the stored one until a partial
\* exit, and beyond the entry from break-even on.
LEMMA StopStep == StopInv /\ [StopNext]_stopVars => StopInv'
<1> SUFFICES ASSUME StopTypeOK, EngineAhead, EngineSecures, [StopNext]_stopVars
             PROVE  StopTypeOK' /\ EngineAhead' /\ EngineSecures'
  BY DEF StopInv
<1> USE DEF dbVars, engineVars, tickVars, histVars, runVars, EngineSecures
<1>1. CASE UNCHANGED stopVars
  BY <1>1 DEF StopTypeOK, EngineAhead, Better, Gain, stopVars
<1>2. ASSUME NEW p \in Prices, TickRead(p) PROVE StopTypeOK' /\ EngineAhead' /\ EngineSecures'
  BY <1>2, PriceAssumption DEF StopTypeOK, EngineAhead, Better, Gain, TickRead
<1>3. ASSUME NEW p \in Prices, PartialExit(p) PROVE StopTypeOK' /\ EngineAhead' /\ EngineSecures'
  BY <1>3, PriceAssumption
     DEF StopTypeOK, EngineAhead, PartialExit, BreakevenStop, Ahead, Gain
<1>4. CASE TickTrail
  <2>0. /\ UNCHANGED <<direction, dbStop>> /\ Update(tick) /\ tick \in Int /\ pc # "down"
        /\ UNCHANGED <<mishaps, unsaved, restarts, sl, tick>>
    BY <1>4 DEF TickTrail, StopTypeOK
  <2>1. /\ initial' \in Int /\ stop' \in Int /\ extreme' \in Int
        /\ flags \subseteq flags' /\ flags' \subseteq flags \cup {"active", "breakeven"}
        /\ ~Better(stop, stop')
    BY <2>0, UpdateImproves
  <2>2. EngineAhead'
    BY <2>0, <2>1 DEF StopTypeOK, EngineAhead, Better
  <2>3. StopTypeOK'
    BY <1>4, <2>0, <2>1 DEF StopTypeOK, TickTrail, ExitCheck
  <2>4. "breakeven" \in flags' => Gain(stop') > 0
    BY <2>0, UpdateSecures
  <2>5. EngineSecures'
    BY <2>0, <2>1, <2>4 DEF Gain
  <2> QED BY <2>2, <2>3, <2>5
<1>5. CASE TickWrite
  <2>1. unsaved' \in BOOLEAN
    BY <1>5, Zenon DEF TickWrite
  <2>2. EngineAhead' /\ EngineSecures'
    BY <1>5 DEF StopTypeOK, EngineAhead, Better, Gain, TickWrite
  <2> QED BY <1>5, <2>1, <2>2 DEF StopTypeOK, TickWrite
<1>6. CASE TickCheck
  BY <1>6 DEF StopTypeOK, EngineAhead, Better, Gain, TickCheck, ExitCheck
<1>7. CASE Abort
  <2>1. unsaved' \in BOOLEAN
    BY <1>7, Zenon DEF Abort
  <2>2. EngineAhead' /\ EngineSecures'
    BY <1>7 DEF StopTypeOK, EngineAhead, Better, Gain, Abort
  <2> QED BY <1>7, <2>1, <2>2 DEF StopTypeOK, Abort
<1>8. CASE Crash
  BY <1>8 DEF StopTypeOK, EngineAhead, Better, Gain, Crash
<1>9. CASE StopRestart
  <2>1. unsaved' \in BOOLEAN
    BY <1>9, Zenon DEF StopRestart
  <2>2. EngineAhead' /\ EngineSecures'
    BY <1>9 DEF StopTypeOK, EngineAhead, Better, StopRestart, Register, Restored
  <2> QED BY <1>9, <2>1, <2>2, PriceAssumption DEF StopTypeOK, StopRestart, Register, Restored
<1> QED BY <1>1, <1>2, <1>3, <1>4, <1>5, <1>6, <1>7, <1>8, <1>9 DEF StopNext

\* One step never moves the stored stop away from the price, but to what a
\* partial exit has set.
LEMMA NoRetreat ==
  StopInv /\ [StopNext]_stopVars =>
    [Better(dbStop, dbStop') => "partial" \in flags /\ Gain(dbStop') > 0]_stopVars
<1> SUFFICES ASSUME StopTypeOK, EngineAhead, EngineSecures, StopNext, Better(dbStop, dbStop')
             PROVE  "partial" \in flags /\ Gain(dbStop') > 0
  BY DEF StopInv
<1>1. CASE TickWrite
  BY <1>1 DEF TickWrite, EngineAhead, EngineSecures, Gain, Better, StopTypeOK
<1>2. CASE dbStop' = dbStop
  BY <1>2 DEF Better, StopTypeOK
<1> QED BY <1>1, <1>2 DEF StopNext, TickRead, PartialExit, TickTrail, TickCheck, Abort, Crash,
                          StopRestart, dbVars

\* Whatever the prices, the storage errors and the restarts, the stored stop
\* only moves in favour of the trade, or back to what a partial exit has
\* secured in this process, beyond the entry.
THEOREM StopsOnlyImprove == StopSpec => StopNeverRetreats
<1>1. StopInv /\ [StopNext]_stopVars => StopInv'
  BY StopStep
<1> QED BY InitStop, <1>1, NoRetreat, PTL DEF StopSpec, StopNeverRetreats

\* What a tick compares the price with is the engine's stop, unless that was
\* never written.
LEMMA HonouredStep == HonouredInv /\ [StopNext]_stopVars => HonouredInv'
<1> SUFFICES ASSUME StopInv, InSync, [StopNext]_stopVars PROVE InSync'
  BY StopStep DEF HonouredInv
<1> USE DEF dbVars, engineVars, tickVars, histVars, runVars, StopInv
<1>1. CASE UNCHANGED stopVars
  BY <1>1 DEF InSync, Better, stopVars
<1>2. ASSUME NEW p \in Prices, TickRead(p) PROVE InSync'
  BY <1>2 DEF InSync, TickRead
<1>3. ASSUME NEW p \in Prices, PartialExit(p) PROVE InSync'
  BY <1>3 DEF InSync, PartialExit, Better
<1>4. CASE TickTrail
  <2>1. sl = dbStop /\ (~unsaved => dbStop = stop) /\ outcome = "none"
    BY <1>4 DEF InSync, TickTrail
  <2>2. CASE MustWrite(tick)
    BY <1>4, <2>1, <2>2 DEF InSync, TickTrail
  <2>3. CASE ~MustWrite(tick)
    <3>1. ~unsaved => stop' = stop
      BY <1>4, <2>1, <2>3 DEF TickTrail, MustWrite, Update
    <3>2. ExitCheck(sl) /\ UNCHANGED <<direction, dbStop, tick, unsaved>>
      BY <1>4, <2>3 DEF TickTrail
    <3> QED BY <2>1, <3>1, <3>2 DEF InSync, ExitCheck, Hit, Better
  <2> QED BY <2>2, <2>3
<1>5. CASE TickWrite
  BY <1>5 DEF InSync, TickWrite
<1>6. CASE TickCheck
  BY <1>6 DEF InSync, TickCheck, ExitCheck, Hit, Better
<1>7. CASE Abort
  <2>1. ~unsaved' => ~unsaved /\ pc # "writing"
    BY <1>7, Zenon DEF Abort
  <2> QED BY <1>7, <2>1 DEF InSync, Abort, StopTypeOK
<1>8. CASE Crash
  BY <1>8 DEF InSync, Crash, Better
<1>9. CASE StopRestart
  BY <1>9 DEF InSync, StopRestart, Register, Restored, Better
<1> QED BY <1>1, <1>2, <1>3, <1>4, <1>5, <1>6, <1>7, <1>8, <1>9 DEF StopNext

LEMMA HonouredAlways == StopSpec => []HonouredInv
<1>1. StopInit => HonouredInv
  BY InitStop DEF StopInit, HonouredInv, InSync
<1> QED BY <1>1, HonouredStep, PTL DEF StopSpec

\* No trade is left open at a price its trailing stop excludes, unless that stop
\* is in memory only, whatever the prices, errors, partial exits and restarts.
THEOREM StopsHonoured == StopSpec => []StopHonoured
<1>1. HonouredInv => StopHonoured
  BY DEF HonouredInv, InSync, StopHonoured
<1> QED BY <1>1, HonouredAlways, PTL

\* What has happened is not forgotten.
LEMMA MishapsStay == [StopNext]_stopVars => mishaps \subseteq mishaps'
BY DEF StopNext, TickRead, PartialExit, TickTrail, TickWrite, TickCheck, Abort, Crash,
       StopRestart, stopVars, runVars

\* update() at a price the trade has not lost: the new stop covers the price.
LEMMA UpdateCovers ==
  ASSUME StopTypeOK, NEW p \in Int
  PROVE  NewStop(p) \in Int /\ ~Better(Behind(p, Trail), NewStop(p))
<1> USE PriceAssumption, EngineAssumption DEF StopTypeOK, Better, Ahead, Behind
<1>1. Extreme(p) \in Int /\ ~Better(p, Extreme(p))
  BY DEF Extreme
<1>2. Trailed(p) \in Int /\ ~Better(Behind(p, Trail), Trailed(p))
  BY <1>1 DEF Trailed, Improves
<1> QED BY <1>2 DEF NewStop, Secured, BreakevenStop

LEMMA InitSound == StopInit => SoundInv
BY InitStop, PriceAssumption DEF StopInit, SoundInv, HonouredInv, InSync, Tracking, Better

\* Every tick that is finished has its price covered by the stored stop.
LEMMA TrackingStep ==
  HonouredInv /\ (mishaps = {} => Tracking) /\ [StopNext]_stopVars => (mishaps' = {} => Tracking')
<1> SUFFICES ASSUME StopTypeOK, EngineAhead, EngineSecures, InSync, Tracking,
                    [StopNext]_stopVars, mishaps = {}, mishaps' = {}
             PROVE  Tracking'
  BY MishapsStay DEF HonouredInv, StopInv
<1> USE PriceAssumption, EngineAssumption DEF dbVars, engineVars, tickVars, histVars, runVars
<1>1. ASSUME NEW p \in Prices, TickRead(p) PROVE Tracking'
  BY <1>1 DEF TickRead, Tracking, Better, Behind
<1>2. \A p \in Prices : ~PartialExit(p)
  BY DEF PartialExit
<1>3. CASE TickTrail
  <2>1. pc = "read" /\ sl = dbStop /\ dbStop = stop /\ tick \in Int /\ unsaved' = unsaved
    BY <1>3 DEF TickTrail, InSync, StopTypeOK, Tracking
  <2>2. CASE MustWrite(tick)
    <3>1. stop' = NewStop(tick)
      BY <2>2 , <1>3 DEF TickTrail, MustWrite, Update
    <3>2. ~Better(Behind(tick, Trail), NewStop(tick))
      BY <2>1, UpdateCovers
    <3> QED BY <1>3, <2>1, <2>2, <3>1, <3>2 DEF TickTrail, Tracking, Better, Behind
  <2>3. CASE ~MustWrite(tick)
    <3>1. ExitCheck(sl) /\ UNCHANGED <<direction, dbStop>>
      BY <1>3, <2>3 DEF TickTrail
    <3>2. CASE Gated(tick)
      <4>1. ~Better(tick, best)
        BY <2>1, <3>2 DEF Gated, Gain, Better, Tracking, StopTypeOK
      <4> QED BY <2>1, <3>1, <4>1 DEF ExitCheck, Tracking, Better, Behind
    <3>3. CASE ~Gated(tick)
      <4>1. NewStop(tick) = dbStop
        BY <2>1, <2>3, <3>3 DEF MustWrite
      <4>2. ~Better(Behind(tick, Trail), dbStop)
        BY <2>1, <4>1, UpdateCovers
      <4> QED BY <2>1, <3>1, <4>2 DEF ExitCheck, Tracking, Better, Behind, StopTypeOK
    <3> QED BY <3>2, <3>3
  <2> QED BY <2>2, <2>3
<1>4. CASE TickWrite
  <2>1. "partial" \notin flags /\ pc # "down"
    BY <1>4 DEF EngineSecures, TickWrite
  <2>2. ~Better(dbStop, stop) /\ ~Better(Behind(tick, Trail), stop)
    BY <1>4, <2>1 DEF TickWrite, Tracking, EngineAhead
  <2>3. ~unsaved'
    BY <1>4 DEF TickWrite
  <2> QED BY <1>4, <2>2, <2>3 DEF TickWrite, Tracking, Better, Behind, StopTypeOK
<1>5. CASE TickCheck
  BY <1>5 DEF TickCheck, ExitCheck, InSync, Tracking, Better, Behind, StopTypeOK
<1>6. ~Abort
  BY DEF Abort
<1>7. CASE Crash \/ UNCHANGED stopVars
  BY <1>7 DEF Crash, stopVars, Tracking, Better, Behind
<1>8. CASE StopRestart
  BY <1>8 DEF StopRestart, Tracking, Better, Behind
<1> QED BY <1>1, <1>2, <1>3, <1>4, <1>5, <1>6, <1>7, <1>8 DEF StopNext

\* Over storage errors, partial exits and restarts a trade said to be at
\* break-even is closed beyond the entry, once that stop is stored; without
\* errors and partial exits the stored stop keeps within the trail distance of
\* the best price a finished tick has seen, though a restart forgets that price.
THEOREM StopsSound == StopSpec => []StopSound
<1>1. StopInit => SoundInv
  BY InitSound
<1>2. SoundInv /\ [StopNext]_stopVars => SoundInv'
  BY HonouredStep, TrackingStep DEF SoundInv
<1>3. SoundInv => StopSound
  <2> SUFFICES ASSUME SoundInv PROVE StopTracksBest /\ BreakevenSecures
    BY DEF StopSound
  <2>1. StopTracksBest
    BY DEF SoundInv, Tracking, StopTracksBest
  <2>2. BreakevenSecures
    BY DEF SoundInv, HonouredInv, StopInv, EngineSecures, InSync, BreakevenSecures, Gain
  <2> QED BY <2>1, <2>2
<1> QED BY <1>1, <1>2, <1>3, PTL DEF StopSpec
-----------------------------------------------------------------------------
(* RiskManager *)

LEMMA TimeFacts == Time \subseteq Nat /\ 0 \in Time /\ NoDate \notin Time /\ NoDate \in Int
BY RiskAssumption DEF Time, NoDate

LEMMA ManagerFields ==
  ASSUME NEW m \in Manager
  PROVE  /\ m.dailyOn \in Int /\ m.weekFrom \in Int /\ m.monthOn \in Int
         /\ m.weekFrom \in Time \cup {NoDate}
         /\ m.daily \in Int /\ m.weekly \in Int /\ m.monthly \in Int
         /\ m.losses \in Nat /\ m.open \in Nat
<1>1. /\ m.dailyOn \in Nat \cup {NoDate} /\ m.weekFrom \in Time \cup {NoDate}
      /\ m.monthOn \in Nat \cup {NoDate}
      /\ m.daily \in Int /\ m.weekly \in Int /\ m.monthly \in Int
      /\ m.losses \in Nat /\ m.open \in Nat
  BY DEF Manager
<1>2. Time \cup {NoDate} \subseteq Int /\ Nat \cup {NoDate} \subseteq Int
  BY TimeFacts
<1> QED BY <1>1, <1>2

LEMMA LedgerFields ==
  ASSUME NEW b \in Ledger
  PROVE  /\ b.today \in Int /\ b.month \in Int /\ b.streak \in Nat /\ b.n \in Nat
         /\ \A t \in Time : b.since[t] \in Int
BY DEF Ledger

\* The clock is typed.
Clocked == now \in Time /\ day \in Nat /\ month \in Nat

\* Nothing was ever booked in a manager that was never told.
LEMMA FreshAgrees ==
  ASSUME Clocked
  PROVE  Fresh \in Manager /\ Nothing \in Ledger /\ Agrees(Fresh, Nothing)
<1>1. Fresh \in Manager
  BY DEF Fresh, Manager
<1>2. Nothing \in Ledger
  BY DEF Nothing, Ledger
<1>3. /\ Fresh.dailyOn = -1 /\ Fresh.monthOn = -1 /\ Fresh.weekFrom = NoDate /\ Fresh.losses = 0
      /\ Nothing.today = 0 /\ Nothing.month = 0 /\ Nothing.streak = 0
      /\ \A t \in Time : Nothing.since[t] = 0
  BY DEF Fresh, Nothing, NoDate
<1>4. now \in Nat /\ now \in Time /\ day \in Nat /\ month \in Nat
  BY TimeFacts DEF Clocked
<1>5. ~WeekRuns(Fresh)
  BY <1>3 DEF WeekRuns
<1>6. Agrees(Fresh, Nothing)
  BY <1>3, <1>4, <1>5 DEF Agrees, NoDate
<1> QED BY <1>1, <1>2, <1>6

\* Starting the windows that are over keeps what is booked, and then all run.
LEMMA RolledAgrees ==
  ASSUME Clocked, NEW m \in Manager, NEW b \in Ledger, Agrees(m, b)
  PROVE  /\ Rolled(m) \in Manager /\ Agrees(Rolled(m), b) /\ Exact(Rolled(m), b)
         /\ Rolled(m).dailyOn = day /\ Rolled(m).monthOn = month
         /\ WeekRuns(Rolled(m)) /\ Rolled(m).weekFrom \in Time
         /\ Rolled(m).weekFrom # NoDate
<1> DEFINE daily   == IF m.dailyOn = day THEN m.daily ELSE 0
           weekly  == IF WeekRuns(m) THEN m.weekly ELSE 0
           from    == IF WeekRuns(m) THEN m.weekFrom ELSE now
           monthly == IF m.monthOn = month THEN m.monthly ELSE 0
<1>1. /\ daily \in Int /\ weekly \in Int /\ monthly \in Int
      /\ from \in Time /\ day \in Nat /\ month \in Nat /\ now \in Nat
      /\ m.losses \in Nat /\ m.open \in Nat
  BY ManagerFields, TimeFacts DEF Clocked, WeekRuns
<1>2. Rolled(m) = [daily |-> daily, dailyOn |-> day, weekly |-> weekly,
                   weekFrom |-> from, monthly |-> monthly, monthOn |-> month,
                   losses |-> m.losses, open |-> m.open]
  BY DEF Rolled
<1>3. daily = b.today /\ monthly = b.month /\ weekly = b.since[from] /\ from <= now
  BY <1>1 DEF Agrees
<1>4. from # NoDate /\ now - from < WeekTime
  BY <1>1, TimeFacts, RiskAssumption DEF WeekRuns
<1> HIDE DEF daily, weekly, from, monthly
<1>5. Rolled(m) \in Manager
  BY <1>1, <1>2 DEF Manager
<1>6. /\ Rolled(m).dailyOn = day /\ Rolled(m).monthOn = month /\ Rolled(m).weekFrom = from
      /\ Rolled(m).daily = daily /\ Rolled(m).monthly = monthly /\ Rolled(m).weekly = weekly
      /\ Rolled(m).losses = m.losses
  BY <1>2
<1>7. WeekRuns(Rolled(m))
  BY <1>4, <1>6 DEF WeekRuns
<1>8. Agrees(Rolled(m), b)
  BY <1>1, <1>3, <1>6, <1>7 DEF Agrees
<1>9. Exact(Rolled(m), b)
  BY <1>3, <1>6 DEF Exact, Agrees
<1> QED BY <1>1, <1>4, <1>5, <1>6, <1>7, <1>8, <1>9

\* load_state starts the windows that are over, no more.
LEMMA LoadedRolls ==
  ASSUME Clocked, NEW m \in Manager, NEW b \in Ledger, Agrees(m, b), m.weekFrom # NoDate
  PROVE  Loaded(m) \in Manager /\ Agrees(Loaded(m), b)
<1>1. Rolled(m) \in Manager /\ Agrees(Rolled(m), b)
  BY RolledAgrees
<1>2. Loaded(m) = Rolled(m)
  BY <1>1 DEF Loaded, Manager
<1> QED BY <1>1, <1>2

LEMMA BookedTyped ==
  ASSUME Clocked, NEW b \in Ledger, NEW pnl \in Int
  PROVE  /\ Booked(b, pnl) \in Ledger /\ Booked(b, pnl).n = b.n + 1
         /\ Booked(b, pnl).today = b.today + pnl /\ Booked(b, pnl).month = b.month + pnl
         /\ Booked(b, pnl).streak = IF pnl < 0 THEN b.streak + 1 ELSE 0
         /\ \A t \in Time :
              Booked(b, pnl).since[t] = IF t <= now THEN b.since[t] + pnl ELSE b.since[t]
<1>1. b.today \in Int /\ b.month \in Int /\ b.streak \in Nat /\ b.n \in Nat
  BY DEF Ledger
<1> DEFINE f == [t \in Time |-> IF t <= now THEN b.since[t] + pnl ELSE b.since[t]]
<1>2. f \in [Time -> Int]
  BY TimeFacts, LedgerFields DEF Clocked
<1>3. Booked(b, pnl) = [today |-> b.today + pnl, month |-> b.month + pnl, since |-> f,
                        streak |-> IF pnl < 0 THEN b.streak + 1 ELSE 0, n |-> b.n + 1]
  BY DEF Booked
<1>4. \A t \in Time : f[t] = IF t <= now THEN b.since[t] + pnl ELSE b.since[t]
  OBVIOUS
<1> HIDE DEF f
<1> QED BY <1>1, <1>2, <1>3, <1>4 DEF Ledger

\* A result is added to all figures at once.
LEMMA AddedAgrees ==
  ASSUME Clocked, NEW m \in Manager, NEW b \in Ledger, Agrees(m, b), m.dailyOn = day,
         m.monthOn = month, WeekRuns(m), NEW pnl \in Int
  PROVE  /\ AddedTo(m, pnl) \in Manager /\ Agrees(AddedTo(m, pnl), Booked(b, pnl))
         /\ AddedTo(m, pnl).weekFrom = m.weekFrom
<1> DEFINE a == AddedTo(m, pnl)
           d == Booked(b, pnl)
<1>1. /\ m.daily \in Int /\ m.weekly \in Int /\ m.monthly \in Int
      /\ m.losses \in Nat /\ m.open \in Nat /\ m.weekFrom \in Time
  BY ManagerFields DEF WeekRuns
<1>2. a \in Manager
  <2>1. /\ m.daily + pnl \in Int /\ m.weekly + pnl \in Int /\ m.monthly + pnl \in Int
        /\ (IF pnl < 0 THEN m.losses + 1 ELSE 0) \in Nat
    BY <1>1
  <2> QED BY <2>1 DEF AddedTo, Manager
<1>3. /\ a.daily = m.daily + pnl /\ a.weekly = m.weekly + pnl /\ a.monthly = m.monthly + pnl
      /\ a.dailyOn = day /\ a.monthOn = month /\ a.weekFrom = m.weekFrom
      /\ a.losses = IF pnl < 0 THEN m.losses + 1 ELSE 0
  BY DEF AddedTo, Manager
<1>4. /\ m.daily = b.today /\ m.monthly = b.month /\ m.weekly = b.since[m.weekFrom]
      /\ m.losses = b.streak /\ m.dailyOn <= day /\ m.monthOn <= month /\ m.weekFrom <= now
      /\ \A t \in Time : t > now => b.since[t] = 0
  BY DEF Agrees
<1>5. /\ d.today = b.today + pnl /\ d.month = b.month + pnl
      /\ d.streak = (IF pnl < 0 THEN b.streak + 1 ELSE 0)
      /\ \A t \in Time : d.since[t] = IF t <= now THEN b.since[t] + pnl ELSE b.since[t]
  BY BookedTyped
<1>6. d.since[m.weekFrom] = m.weekly + pnl
  BY <1>1, <1>4, <1>5
<1>7. \A t \in Time : t > now => d.since[t] = 0
  BY <1>4, <1>5, TimeFacts DEF Clocked
<1>8. WeekRuns(a)
  BY <1>3 DEF WeekRuns
<1> HIDE DEF a, d
<1>9. Agrees(a, d)
  BY <1>1, <1>3, <1>4, <1>5, <1>6, <1>7, <1>8 DEF Agrees
<1> QED BY <1>2, <1>3, <1>9 DEF a, d

LEMMA AgedTyped ==
  ASSUME NEW b \in Ledger
  PROVE  /\ Aged(b) \in Ledger /\ Aged(b).n = b.n /\ Aged(b).streak = b.streak
         /\ Aged(b).since = b.since
         /\ Aged(b).today = (IF Midnight THEN 0 ELSE b.today)
         /\ Aged(b).month = (IF MonthEnds THEN 0 ELSE b.month)
<1> DEFINE x == IF Midnight THEN 0 ELSE b.today
           y == IF MonthEnds THEN 0 ELSE b.month
<1>1. x \in Int /\ y \in Int
  BY LedgerFields
<1>2. Aged(b) = [[b EXCEPT !.today = x] EXCEPT !.month = y]
  BY DEF Aged
<1> HIDE DEF x, y
<1>3. /\ Aged(b) \in Ledger /\ Aged(b).today = x /\ Aged(b).month = y
      /\ Aged(b).n = b.n /\ Aged(b).streak = b.streak /\ Aged(b).since = b.since
  BY <1>1, <1>2 DEF Ledger
<1> QED BY <1>3 DEF x, y

\* Time passes: a window that stops running starts again with nothing booked.
LEMMA TimeAgrees ==
  ASSUME Clocked, TimePasses, NEW m \in Manager, NEW b \in Ledger, Agrees(m, b),
         NEW d, d = Aged(b)
  PROVE  Agrees(m, d)'
<1>1. /\ now \in Nat /\ now' = now + 1 /\ now' \in Time /\ now' \in Nat
      /\ day \in Nat /\ month \in Nat
  BY TimeFacts, RiskAssumption DEF Clocked, TimePasses, Time
<1>2. /\ m.dailyOn \in Int /\ m.monthOn \in Int /\ m.weekFrom \in Int
      /\ m.weekFrom \in Time \cup {NoDate}
  BY ManagerFields
<1>3. /\ m.weekFrom <= now /\ m.dailyOn <= day /\ m.monthOn <= month /\ m.losses = b.streak
      /\ \A t \in Time : t > now => b.since[t] = 0
  BY DEF Agrees
<1>4. /\ d.streak = b.streak /\ d.since = b.since
      /\ d.today = (IF Midnight THEN 0 ELSE b.today)
      /\ d.month = (IF MonthEnds THEN 0 ELSE b.month)
  BY AgedTyped
<1>5. IF day' = day THEN d.today = b.today ELSE day' = day + 1 /\ d.today = 0
  BY <1>1, <1>4 DEF TimePasses
<1>6. IF month' = month THEN d.month = b.month ELSE month' = month + 1 /\ d.month = 0
  BY <1>1, <1>4 DEF TimePasses
<1>7. d.since[now'] = 0
  BY <1>1, <1>3, <1>4
<1>8. WeekRuns(m)' => WeekRuns(m)
  BY <1>1, <1>2, RiskAssumption DEF WeekRuns
<1>9. IF m.dailyOn = day' THEN m.daily = d.today ELSE d.today = 0
  BY <1>1, <1>2, <1>3, <1>5 DEF Agrees
<1>10. IF m.monthOn = month' THEN m.monthly = d.month ELSE d.month = 0
  BY <1>1, <1>2, <1>3, <1>6 DEF Agrees
<1>11. IF WeekRuns(m)' THEN m.weekly = d.since[m.weekFrom] ELSE d.since[now'] = 0
  BY <1>4, <1>7, <1>8 DEF Agrees
<1>12. m.dailyOn <= day' /\ m.monthOn <= month' /\ m.weekFrom <= now'
  BY <1>1, <1>2, <1>3, <1>5, <1>6
<1>13. \A t \in Time : t > now' => d.since[t] = 0
  BY <1>1, <1>3, <1>4, TimeFacts
<1> QED BY <1>3, <1>4, <1>9, <1>10, <1>11, <1>12, <1>13 DEF Agrees

LEMMA InitWindows == Init => WindowInv
<1> SUFFICES ASSUME Init PROVE WindowInv
  OBVIOUS
<1>1. Clocked
  BY TimeFacts DEF Init, Clocked
<1>2. NoCall \in [at : {"none", "saving", "saved"}, copy : Copies]
  BY <1>1, FreshAgrees DEF NoCall, Copies
<1>3. TypeOK
  BY <1>1, <1>2, FreshAgrees DEF Init, TypeOK, Clocked
<1>4. \A c \in Calls : calls[c].at = "none"
  BY DEF Init, NoCall
<1> QED BY <1>1, <1>3, <1>4, FreshAgrees DEF Init, WindowInv

\* What is saved, or being saved, can be loaded.
LEMMA SoundTyped ==
  ASSUME WindowInv
  PROVE  /\ Clocked
         /\ \A s \in saved : s.m \in Manager /\ s.book \in Ledger
                             /\ Agrees(s.m, s.book) /\ s.m.weekFrom # NoDate
         /\ \A c \in Calls : calls[c].copy.m \in Manager /\ calls[c].copy.book \in Ledger
BY DEF WindowInv, TypeOK, Clocked, Copies, CopySound


\* No step makes a figure or the streak differ from what was counted.
LEMMA WindowStep == WindowInv /\ [Next]_vars => WindowInv'
<1> SUFFICES ASSUME WindowInv, [Next]_vars PROVE WindowInv'
  OBVIOUS
<1>0. /\ TypeOK /\ Clocked /\ Agrees(mgr, book)
      /\ mgr \in Manager /\ gate \in Manager /\ book \in Ledger /\ truth \in Ledger
      /\ \A s \in saved : CopySound(s)
      /\ \A c \in Calls : calls[c].at = "saving" => CopySound(calls[c].copy)
  BY SoundTyped DEF WindowInv, TypeOK
<1>14. day \in Nat /\ month \in Nat /\ crashes \in Nat
  BY DEF WindowInv, TypeOK
\* A copy that is neither made nor aged stays as it is.
<1>1. ASSUME UNCHANGED clock, TypeOK', Agrees(mgr', book'), \A s \in saved' : CopySound(s),
             \A c \in Calls : calls'[c].at = "saving" => CopySound(calls'[c].copy)
      PROVE  WindowInv'
  <2>1. Agrees(mgr, book)'
    BY <1>1 DEF Agrees, WeekRuns, clock
  <2>2. \A s \in saved' : CopySound(s)'
    BY <1>1 DEF CopySound, Agrees, WeekRuns, clock
  <2>3. \A c \in Calls : calls'[c].at = "saving" => CopySound(calls[c].copy)'
    BY <1>1 DEF CopySound, Agrees, WeekRuns, clock
  <2> QED BY <1>1, <2>1, <2>2, <2>3 DEF WindowInv
\* The counter of open trades is in no window.
<1>2. ASSUME NEW n \in Nat, mgr' = [mgr EXCEPT !.open = n]
      PROVE  mgr' \in Manager /\ Agrees(mgr', book)
  <2>1. /\ mgr' \in Manager
        /\ mgr'.dailyOn = mgr.dailyOn /\ mgr'.daily = mgr.daily
        /\ mgr'.monthOn = mgr.monthOn /\ mgr'.monthly = mgr.monthly
        /\ mgr'.weekFrom = mgr.weekFrom /\ mgr'.weekly = mgr.weekly
        /\ mgr'.losses = mgr.losses
    BY <1>0, <1>2 DEF Manager
  <2> QED BY <1>0, <2>1 DEF Agrees, WeekRuns
<1>3. NoCall \in [at : {"none", "saving", "saved"}, copy : Copies] /\ NoCall.at = "none"
  BY <1>0, FreshAgrees DEF NoCall, Copies
<1>4. CASE UNCHANGED vars
  <2>1. TypeOK'
    BY <1>0, <1>4 DEF vars, clock, TypeOK
  <2> QED BY <1>0, <1>1, <1>4, <2>1 DEF vars
<1>5. CASE TimePasses
  <2>0. now \in Nat /\ MaxTime \in Nat /\ now' = now + 1 /\ now < MaxTime
    BY <1>0, <1>5, TimeFacts, RiskAssumption DEF TimePasses, TypeOK
  <2>1. now' \in Time /\ day' \in Nat /\ month' \in Nat
    <3>1. now' \in Time
      BY <2>0 DEF Time
    <3>2. (day' = day + 1 \/ day' = day) /\ (month' = month + 1 \/ month' = month)
      BY <1>5 DEF TimePasses
    <3> QED BY <1>14, <3>1, <3>2
  <2>2. book' \in Ledger /\ truth' \in Ledger /\ Agrees(mgr, book)'
    BY <1>0, <1>5, AgedTyped, TimeAgrees DEF TimePasses
  <2>3. ASSUME NEW s \in Copies
        PROVE  /\ [s EXCEPT !.book = Aged(@)] \in Copies
               /\ [s EXCEPT !.book = Aged(@)].m = s.m
               /\ [s EXCEPT !.book = Aged(@)].book = Aged(s.book)
    <3>1. s.m \in Manager /\ s.book \in Ledger /\ Aged(s.book) \in Ledger
      BY AgedTyped DEF Copies
    <3> QED BY <3>1 DEF Copies
  <2>4. ASSUME NEW s \in Copies, CopySound(s), NEW d \in Copies, d.m = s.m, d.book = Aged(s.book)
        PROVE  CopySound(d)'
    <3>1. s.m \in Manager /\ s.book \in Ledger
      BY DEF Copies
    <3> QED BY <1>0, <1>5, <2>4, <3>1, TimeAgrees DEF CopySound
  <2>5. saved' \subseteq Copies /\ \A s \in saved' : CopySound(s)'
    <3>1. ASSUME NEW x \in saved' PROVE x \in Copies /\ CopySound(x)'
      <4>1. PICK s \in saved : x = [s EXCEPT !.book = Aged(@)]
        BY <1>5, <3>1 DEF TimePasses
      <4>2. s \in Copies /\ CopySound(s)
        BY <1>0 DEF TypeOK
      <4> QED BY <2>3, <2>4, <4>1, <4>2
    <3> QED BY <3>1
  <2>6. ASSUME NEW c \in Calls
        PROVE  /\ calls'[c] \in [at : {"none", "saving", "saved"}, copy : Copies]
               /\ calls'[c].at = "saving" => CopySound(calls[c].copy)'
    <3>1. calls[c] \in [at : {"none", "saving", "saved"}, copy : Copies]
      BY <1>0 DEF TypeOK
    <3>2. calls'[c] = [calls[c] EXCEPT !.copy = [calls[c].copy EXCEPT !.book = Aged(@)]]
      BY <1>5, <3>1 DEF TimePasses
    <3>3. /\ calls'[c] \in [at : {"none", "saving", "saved"}, copy : Copies]
          /\ calls'[c].at = calls[c].at
          /\ calls'[c].copy = [calls[c].copy EXCEPT !.book = Aged(@)]
      BY <2>3, <3>1, <3>2
    <3> QED BY <1>0, <2>3, <2>4, <3>1, <3>3
  <2>7. calls' \in [Calls -> [at : {"none", "saving", "saved"}, copy : Copies]]
    BY <1>5, <2>6 DEF TimePasses
  <2>8. TypeOK'
    <3>1. UNCHANGED <<gate, mgr, slips, crashes>>
      BY <1>5 DEF TimePasses
    <3> QED BY <1>0, <2>1, <2>2, <2>5, <2>7, <3>1 DEF TypeOK
  <2> QED BY <2>2, <2>5, <2>6, <2>8 DEF WindowInv
<1>6. CASE AssessTrade
  <2>1. gate' \in Manager
    <3> DEFINE daily   == IF gate.dailyOn = day THEN gate.daily ELSE 0
               weekly  == IF WeekRuns(gate) THEN gate.weekly ELSE 0
               from    == IF WeekRuns(gate) THEN gate.weekFrom ELSE now
               monthly == IF gate.monthOn = month THEN gate.monthly ELSE 0
    <3>1. /\ daily \in Int /\ weekly \in Int /\ monthly \in Int /\ from \in Time
          /\ day \in Nat /\ month \in Nat /\ gate.losses \in Nat /\ gate.open \in Nat
      BY <1>0, ManagerFields, TimeFacts DEF Clocked, WeekRuns
    <3>2. gate' = [daily |-> daily, dailyOn |-> day, weekly |-> weekly, weekFrom |-> from,
                   monthly |-> monthly, monthOn |-> month, losses |-> gate.losses,
                   open |-> gate.open]
      BY <1>6 DEF AssessTrade, Rolled
    <3> HIDE DEF daily, weekly, from, monthly
    <3> QED BY <3>1, <3>2 DEF Manager
  <2>2. TypeOK'
    BY <1>0, <1>6, <2>1 DEF AssessTrade, TypeOK, clock
  <2> QED BY <1>0, <1>1, <1>6, <2>2 DEF AssessTrade
<1>7. CASE TradeOpened
  <2>1. mgr' \in Manager /\ Agrees(mgr', book)
    BY <1>0, <1>2, <1>7, ManagerFields DEF TradeOpened
  <2>2. TypeOK'
    BY <1>0, <1>7, <2>1 DEF TradeOpened, TypeOK, clock
  <2> QED BY <1>0, <1>1, <1>7, <2>1, <2>2 DEF TradeOpened
<1>8. CASE Restart
  <2>1. /\ mgr' \in Manager /\ book' \in Ledger /\ Agrees(mgr', book')
    <3>1. CASE saved = {} /\ mgr' = Fresh /\ book' = Nothing
      BY <1>0, <3>1, FreshAgrees
    <3>2. ASSUME NEW s \in saved, mgr' = Loaded(s.m) /\ book' = s.book
          PROVE  mgr' \in Manager /\ book' \in Ledger /\ Agrees(mgr', book')
      BY <1>0, <3>2, SoundTyped, LoadedRolls
    <3> QED BY <1>8, <3>1, <3>2 DEF Restart
  <2>2. calls' \in [Calls -> [at : {"none", "saving", "saved"}, copy : Copies]]
        /\ \A c \in Calls : calls'[c].at = "none"
    BY <1>3, <1>8 DEF Restart
  <2>3. gate' \in Manager
    BY <1>0, <1>8, FreshAgrees DEF Restart
  <2>4. TypeOK'
    <3>1. /\ UNCHANGED <<now, day, month, saved, truth>> /\ crashes' = crashes + 1
          /\ slips' = slips \/ slips' = slips \cup {"crashed"}
      BY <1>8 DEF Restart, clock
    <3>2. slips' \subseteq {"overtaken", "cut off", "crashed"}
      BY <1>0, <3>1 DEF TypeOK
    <3>3. crashes' \in Nat
      BY <1>14, <3>1
    <3> QED BY <1>0, <2>1, <2>2, <2>3, <3>1, <3>2, <3>3 DEF TypeOK
  <2> QED BY <1>0, <1>1, <1>8, <2>1, <2>2, <2>4 DEF Restart
<1>9. ASSUME NEW c \in Calls, SaveState(c) PROVE WindowInv'
  <2>1. /\ calls[c].copy \in Copies /\ CopySound(calls[c].copy)
        /\ [NoCall EXCEPT !.at = "saved"]
             \in [at : {"none", "saving", "saved"}, copy : Copies]
        /\ [NoCall EXCEPT !.at = "saved"].at = "saved"
    BY <1>0, <1>3, <1>9 DEF SaveState, TypeOK
  <2>2. /\ calls' \in [Calls -> [at : {"none", "saving", "saved"}, copy : Copies]]
        /\ \A d \in Calls : calls'[d].at = "saving" => calls'[d] = calls[d]
    BY <1>0, <1>9, <2>1 DEF SaveState, TypeOK
  <2>3. TypeOK'
    BY <1>0, <1>9, <2>1, <2>2 DEF SaveState, TypeOK, clock
  <2> QED BY <1>0, <1>1, <1>9, <2>1, <2>2, <2>3 DEF SaveState
<1>10. ASSUME NEW c \in Calls, calls' = [calls EXCEPT ![c] = NoCall]
       PROVE  /\ calls' \in [Calls -> [at : {"none", "saving", "saved"}, copy : Copies]]
              /\ \A d \in Calls : calls'[d].at = "saving" => calls'[d] = calls[d]
  BY <1>0, <1>3, <1>10 DEF TypeOK
<1>11. ASSUME NEW c \in Calls, TradeClosed(c) PROVE WindowInv'
  <2>1. mgr' \in Manager /\ Agrees(mgr', book)
    BY <1>0, <1>2, <1>11, ManagerFields DEF TradeClosed, Dec
  <2>2. TypeOK'
    BY <1>0, <1>10, <1>11, <2>1 DEF TradeClosed, TypeOK, clock
  <2> QED BY <1>0, <1>1, <1>10, <1>11, <2>1, <2>2 DEF TradeClosed
<1>12. ASSUME NEW c \in Calls, CutOff(c) PROVE WindowInv'
  <2>1. TypeOK'
    BY <1>0, <1>10, <1>12 DEF CutOff, TypeOK, clock
  <2> QED BY <1>0, <1>1, <1>10, <1>12, <2>1 DEF CutOff
<1>13. ASSUME NEW c \in Calls, NEW pnl \in Pnls, RecordTradeResult(c, pnl) PROVE WindowInv'
  <2>0. PICK r : r = Rolled(mgr)
    OBVIOUS
  <2>1. /\ r \in Manager /\ Agrees(r, book) /\ r.dailyOn = day /\ r.monthOn = month
        /\ WeekRuns(r) /\ r.weekFrom # NoDate /\ pnl \in Int
    BY <1>0, <2>0, RolledAgrees, RiskAssumption
  <2>2. /\ mgr' = AddedTo(r, pnl) /\ book' = Booked(book, pnl) /\ truth' = Booked(truth, pnl)
        /\ calls' = [calls EXCEPT ![c] = [at |-> "saving", copy |-> [m |-> mgr', book |-> book']]]
        /\ UNCHANGED <<clock, gate, saved, slips, crashes>>
    BY <1>13, <2>0 DEF RecordTradeResult, Kept
  <2>3. mgr' \in Manager /\ Agrees(mgr', book') /\ mgr'.weekFrom # NoDate
    BY <1>0, <2>1, <2>2, AddedAgrees
  <2>4. book' \in Ledger /\ truth' \in Ledger
    BY <1>0, <2>1, <2>2, BookedTyped
  <2>5. [m |-> mgr', book |-> book'] \in Copies /\ CopySound([m |-> mgr', book |-> book'])
    BY <2>3, <2>4 DEF Copies, CopySound
  <2>6. /\ calls' \in [Calls -> [at : {"none", "saving", "saved"}, copy : Copies]]
        /\ \A d \in Calls : d # c => calls'[d] = calls[d]
        /\ calls'[c].copy = [m |-> mgr', book |-> book']
    BY <1>0, <2>2, <2>5 DEF TypeOK
  <2>7. TypeOK'
    BY <1>0, <2>2, <2>3, <2>4, <2>6 DEF TypeOK, clock
  <2> QED BY <1>0, <1>1, <2>2, <2>3, <2>5, <2>6, <2>7
<1> QED BY <1>4, <1>5, <1>6, <1>7, <1>8, <1>9, <1>11, <1>12, <1>13 DEF Next, Close

\* WindowInv is an invariant.
LEMMA WindowsAlways == Spec => []WindowInv
BY InitWindows, WindowStep, PTL DEF Spec

\* What assess_trade would read of the manager that is told is exactly what the
\* results it counted come to in each window, whatever the limits, the results,
\* the spans of time, lost and overtaken saves and restarts.
THEOREM FiguresAreExact == Spec => []FiguresExact
<1>1. WindowInv => FiguresExact
  BY SoundTyped, RolledAgrees DEF WindowInv, FiguresExact, TypeOK
<1> QED BY <1>1, WindowsAlways, PTL

LEMMA AgedNothing == Aged(Nothing) = Nothing
<1>1. (IF Midnight THEN 0 ELSE 0) = 0 /\ (IF MonthEnds THEN 0 ELSE 0) = 0
  OBVIOUS
<1>2. Aged(Nothing) = [[Nothing EXCEPT !.today = 0] EXCEPT !.month = 0]
  BY <1>1 DEF Aged, Nothing
<1> QED BY <1>2 DEF Nothing

\* The copy with all results stays saved, or being saved, while nothing slips.
LEMMA KeptStep == WindowInv /\ KeptInv /\ [Next]_vars => KeptInv'
<1> SUFFICES ASSUME WindowInv, KeptInv, [Next]_vars, slips' = {} PROVE KeptInv'
  BY DEF KeptInv
<1>1. slips = {}
  BY DEF Next, Close, TimePasses, AssessTrade, TradeOpened, Restart, SaveState, TradeClosed,
         CutOff, RecordTradeResult, vars
<1>2. /\ book = truth
      /\ \A s \in saved : NotAhead(s.book, truth)
      /\ \A c \in Saving : NotAhead(calls[c].copy.book, truth)
      /\ \/ saved = {} /\ truth = Nothing
         \/ saved # {} /\ \A s \in saved : s.book = truth
         \/ \E c \in Saving : calls[c].copy.book = truth
  BY <1>1 DEF KeptInv
<1>3. /\ truth \in Ledger /\ saved \subseteq Copies
      /\ calls \in [Calls -> [at : {"none", "saving", "saved"}, copy : Copies]]
      /\ \A s \in Copies : s.m \in Manager /\ s.book \in Ledger
      /\ NoCall.at = "none"
  BY DEF WindowInv, TypeOK, Copies, NoCall
\* Nothing but the calls that do not save any more changes.
<1>4. ASSUME UNCHANGED <<saved, book, truth>>,
             \A c \in Calls : IF calls[c].at = "saving" THEN calls'[c] = calls[c]
                                                        ELSE calls'[c].at # "saving"
      PROVE  KeptInv'
  <2>1. Saving' = Saving
    BY <1>4 DEF Saving
  <2>2. \A c \in Saving : calls'[c] = calls[c]
    BY <1>4 DEF Saving
  <2> QED BY <1>2, <1>4, <2>1, <2>2 DEF KeptInv, Saving
<1>5. CASE UNCHANGED vars \/ AssessTrade \/ TradeOpened
  BY <1>4, <1>5 DEF vars, AssessTrade, TradeOpened
<1>6. CASE TimePasses
  <2>1. ASSUME NEW b \in Ledger, NotAhead(b, truth)
        PROVE  NotAhead(Aged(b), truth') /\ (b = truth => Aged(b) = truth')
    BY <1>3, <1>6, <2>1, AgedTyped DEF TimePasses, NotAhead
  <2>2. ASSUME NEW s \in Copies PROVE [s EXCEPT !.book = Aged(@)].book = Aged(s.book)
    BY DEF Copies
  <2>3. /\ saved' = {[s EXCEPT !.book = Aged(@)] : s \in saved} /\ book' = truth'
        /\ truth' = Aged(truth)
    BY <1>2, <1>6 DEF TimePasses
  <2>4. ASSUME NEW x \in saved'
        PROVE  \E s \in saved : x.book = Aged(s.book) /\ s.book \in Ledger
    BY <1>3, <2>2, <2>3
  <2>5. ASSUME NEW c \in Calls
        PROVE  /\ calls'[c].at = calls[c].at
               /\ calls'[c].copy.book = Aged(calls[c].copy.book)
               /\ calls[c].copy.book \in Ledger
    <3>1. calls[c] \in [at : {"none", "saving", "saved"}, copy : Copies]
      BY <1>3
    <3>2. calls'[c] = [calls[c] EXCEPT !.copy = [calls[c].copy EXCEPT !.book = Aged(@)]]
      BY <1>6, <3>1 DEF TimePasses
    <3> QED BY <1>3, <2>2, <3>1, <3>2
  <2>6. Saving' = Saving
    BY <2>5 DEF Saving
  <2>7. \A x \in saved' : NotAhead(x.book, truth')
    BY <1>2, <2>1, <2>4
  <2>8. \A c \in Saving : NotAhead(calls'[c].copy.book, truth')
    BY <1>2, <2>1, <2>5 DEF Saving
  <2>9. \/ saved' = {} /\ truth' = Nothing
        \/ saved' # {} /\ \A x \in saved' : x.book = truth'
        \/ \E c \in Saving : calls'[c].copy.book = truth'
    <3>1. CASE saved = {} /\ truth = Nothing
      BY <2>3, <3>1, AgedNothing
    <3>2. CASE saved # {} /\ \A s \in saved : s.book = truth
      <4>1. saved' # {}
        BY <2>3, <3>2
      <4>2. \A x \in saved' : x.book = truth'
        BY <2>3, <2>4, <3>2
      <4> QED BY <4>1, <4>2
    <3>3. CASE \E c \in Saving : calls[c].copy.book = truth
      BY <2>3, <2>5, <3>3 DEF Saving
    <3> QED BY <1>2, <3>1, <3>2, <3>3
  <2> QED BY <2>3, <2>6, <2>7, <2>8, <2>9 DEF KeptInv, NotAhead
<1>7. CASE Restart
  <2>1. Saving = {}
    BY <1>7 DEF Restart
  <2>2. book' = truth /\ UNCHANGED <<saved, truth>>
    BY <1>2, <1>7, <2>1 DEF Restart
  <2>3. Saving' = {}
    BY <1>3, <1>7 DEF Restart, Saving
  <2> QED BY <1>2, <2>1, <2>2, <2>3 DEF KeptInv, NotAhead
<1>8. ASSUME NEW c \in Calls, SaveState(c) PROVE KeptInv'
  <2> DEFINE b == calls[c].copy.book
  <2>1. /\ c \in Saving /\ b \in Ledger /\ NotAhead(b, truth) /\ saved' = {calls[c].copy}
        /\ \A s \in saved : ~(s.book.n > b.n) /\ s.book \in Ledger
        /\ UNCHANGED <<book, truth>>
    BY <1>2, <1>3, <1>8 DEF SaveState, Saving
  <2>2. \A d \in Calls : IF d = c THEN calls'[d].at = "saved" ELSE calls'[d] = calls[d]
    BY <1>3, <1>8 DEF SaveState, NoCall
  <2>3. Saving' = Saving \ {c} /\ \A d \in Saving \ {c} : calls'[d] = calls[d]
    BY <2>2 DEF Saving
  <2>4. CASE saved = {} /\ truth = Nothing
    <3>1. b.n = truth.n
      BY <2>1, <2>4, LedgerFields DEF NotAhead, Nothing
    <3>2. b = truth
      BY <2>1, <3>1 DEF NotAhead
    <3> QED BY <1>2, <2>1, <2>3, <3>2 DEF KeptInv, NotAhead
  <2>5. CASE saved # {} /\ \A s \in saved : s.book = truth
    <3>1. b.n = truth.n
      BY <1>3, <2>1, <2>5, LedgerFields DEF NotAhead
    <3>2. b = truth
      BY <2>1, <3>1 DEF NotAhead
    <3> QED BY <1>2, <2>1, <2>3, <3>2 DEF KeptInv, NotAhead
  <2>6. ASSUME NEW d \in Saving, calls[d].copy.book = truth PROVE KeptInv'
    <3>1. CASE d = c
      BY <1>2, <2>1, <2>3, <2>6, <3>1 DEF KeptInv, NotAhead
    <3>2. CASE d # c
      BY <1>2, <2>1, <2>3, <2>6, <3>2 DEF KeptInv, NotAhead
    <3> QED BY <3>1, <3>2
  <2> QED BY <1>2, <2>4, <2>5, <2>6
<1>9. ASSUME NEW c \in Calls, TradeClosed(c) PROVE KeptInv'
  BY <1>3, <1>4, <1>9 DEF TradeClosed
<1>10. ASSUME NEW c \in Calls, CutOff(c) PROVE KeptInv'
  <2>1. c \notin Saving
    BY <1>10 DEF CutOff
  <2> QED BY <1>3, <1>4, <1>10, <2>1 DEF CutOff, Saving
<1>11. ASSUME NEW c \in Calls, NEW pnl \in Pnls, RecordTradeResult(c, pnl) PROVE KeptInv'
  <2>1. /\ truth'.n = truth.n + 1 /\ book' = truth' /\ saved' = saved /\ truth.n \in Nat
    <3>1. Clocked /\ pnl \in Int
      BY SoundTyped, RiskAssumption
    <3> QED BY <1>2, <1>3, <1>11, <3>1, BookedTyped, LedgerFields DEF RecordTradeResult
  <2>2. /\ calls'[c].at = "saving" /\ calls'[c].copy.book = truth'
        /\ \A d \in Calls \ {c} : calls'[d] = calls[d]
    BY <1>3, <1>11, <2>1 DEF RecordTradeResult
  <2>3. ASSUME NEW b \in Ledger, NotAhead(b, truth) PROVE NotAhead(b, truth')
    BY <2>1, <2>3, LedgerFields DEF NotAhead
  <2>4. Saving' \subseteq Saving \cup {c} /\ c \in Saving'
    BY <2>2 DEF Saving
  <2>5. \A d \in Saving' : NotAhead(calls'[d].copy.book, truth')
    <3>1. \A d \in Saving' \ {c} : calls'[d] = calls[d] /\ d \in Saving /\ d \in Calls
      BY <2>2, <2>4 DEF Saving
    <3>2. NotAhead(truth', truth')
      BY <2>1 DEF NotAhead
    <3>3. \A d \in Saving' \ {c} : NotAhead(calls'[d].copy.book, truth')
      BY <1>2, <1>3, <2>3, <3>1
    <3> QED BY <2>2, <3>2, <3>3
  <2>6. \A s \in saved' : NotAhead(s.book, truth')
    BY <1>2, <1>3, <2>1, <2>3
  <2> QED BY <2>1, <2>2, <2>4, <2>5, <2>6 DEF KeptInv, NotAhead
<1> QED BY <1>5, <1>6, <1>7, <1>8, <1>9, <1>10, <1>11 DEF Next, Close

\* Neither memory nor what the next process would load lacks a result, once no
\* save is under way, for any number of calls that save at once: only a call cut
\* off or a crash during a save, or a save overtaken by an older one, loses one.
THEOREM ResultsAreKept == Spec => []ResultsKept
<1>1. Init => KeptInv
  <2> SUFFICES ASSUME Init PROVE KeptInv
    OBVIOUS
  <2>1. Saving = {}
    BY DEF Init, Saving, NoCall
  <2> QED BY <2>1 DEF Init, KeptInv
<1>2. WindowInv /\ KeptInv => ResultsKept
  <2> SUFFICES ASSUME WindowInv, KeptInv, slips = {}
               PROVE  /\ Exact(Rolled(mgr), truth)
                      /\ Saving = {} => \A m \in Resumed : Exact(Rolled(m), truth)
    BY DEF ResultsKept
  <2>1. Clocked /\ mgr \in Manager /\ truth \in Ledger /\ Agrees(mgr, book) /\ book = truth
    BY SoundTyped DEF WindowInv, TypeOK, KeptInv
  <2>2. Exact(Rolled(mgr), truth)
    BY <2>1, RolledAgrees
  <2>3. ASSUME Saving = {}, NEW m \in Resumed PROVE Exact(Rolled(m), truth)
    <3>1. CASE saved = {}
      <4>1. m = Fresh /\ truth = Nothing
        BY <2>3, <3>1 DEF Resumed, KeptInv
      <4> QED BY <2>1, <4>1, FreshAgrees, RolledAgrees
    <3>2. CASE saved # {}
      <4>1. PICK s \in saved : m = Loaded(s.m)
        BY <3>2 DEF Resumed
      <4>2. s.m \in Manager /\ s.book \in Ledger /\ Agrees(s.m, s.book) /\ s.m.weekFrom # NoDate
        BY SoundTyped
      <4>3. s.book = truth
        BY <2>3, <3>2 DEF KeptInv
      <4> QED BY <2>1, <4>1, <4>2, <4>3, LoadedRolls, RolledAgrees
    <3> QED BY <3>1, <3>2
  <2> QED BY <2>2, <2>3
<1> QED BY <1>1, <1>2, WindowsAlways, KeptStep, PTL DEF Spec
-----------------------------------------------------------------------------
Runs == [at : Places, dir : {"none"} \cup Sides, debated : BOOLEAN,
         assessed : BOOLEAN, alone : BOOLEAN, trade : Trades]
Signals == [dir : Directions, conf : Figures]

LEMMA CommitteePlaces ==
  /\ DOMAIN Committee = {"conflict0", "conflict", "conflict2", "conflict3"}
  /\ Committee["conflict0"] = "committee0" /\ Committee["conflict"] = "committee"
  /\ Committee["conflict2"] = "committee2" /\ Committee["conflict3"] = "committee3"
  BY DEF Committee

LEMMA PlacesAre ==
  Places = {"idle", "emergency", "market", "strategy", "cot", "debate", "riskdebate",
            "store", "assess", "macro", "returned", "guard", "lock", "open",
            "conflict0", "conflict", "conflict2", "conflict3",
            "committee0", "committee", "committee2", "committee3"}
  BY CommitteePlaces DEF Places

\* A step changes the pipeline that takes it, and cuts into every other.
LEMMA BecomesIs ==
  ASSUME PipelineShape, NEW p \in Pipelines, NEW r \in Runs, Becomes(p, r)
  PROVE  run' \in [Pipelines -> Runs] /\ run'[p] = r
  <1>1. \A q \in Pipelines : run[q] \in Runs
    BY DEF PipelineShape, Runs
  <1>2. NoTrade \in Trades
    BY DEF NoTrade, Trades, Directions, Figures
  <1>3. \A x \in Runs : CutInto(x) \in Runs
    BY <1>2 DEF CutInto, Runs
  <1> QED BY <1>1, <1>3 DEF Becomes

\* Going on changes where a pipeline is and nothing else of it.
LEMMA GotoKeeps ==
  ASSUME PipelineShape, NEW p \in Pipelines, NEW x \in Places, Goto(p, x)
  PROVE  /\ run' \in [Pipelines -> Runs] /\ run'[p].at = x
         /\ run'[p].dir = run[p].dir /\ run'[p].debated = run[p].debated
         /\ run'[p].assessed = run[p].assessed /\ run'[p].alone = run[p].alone
         /\ run'[p].trade = run[p].trade
  <1>1. run[p] \in Runs
    BY DEF PipelineShape, Runs
  <1>2. [run[p] EXCEPT !.at = x] \in Runs
    BY <1>1 DEF Runs
  <1>3. run' \in [Pipelines -> Runs] /\ run'[p] = [run[p] EXCEPT !.at = x]
    BY <1>2, BecomesIs DEF Goto
  <1> QED BY <1>1, <1>3 DEF Runs

LEMMA Shapes ==
  /\ NoTrade \in Trades /\ Idle \in Runs
  /\ [Idle EXCEPT !.at = "emergency", !.alone = TRUE] \in Runs
  /\ Sides \subseteq Directions /\ \A d \in Sides : Opposite(d) \in Sides
  /\ \A d \in Directions : RiskStep(d) \in Places
  /\ RawConfidence \cup Verdicts \cup Judgments \cup {0} \subseteq Figures
  <1>1. NoTrade \in Trades
    BY DEF NoTrade, Trades, Directions, Figures
  <1>2. Idle \in Runs
    BY <1>1, PlacesAre DEF Idle, Runs
  <1>3. [Idle EXCEPT !.at = "emergency", !.alone = TRUE] \in Runs
    BY <1>2, PlacesAre DEF Runs
  <1>4. Sides \subseteq Directions /\ \A d \in Sides : Opposite(d) \in Sides
    BY DEF Sides, Directions, Opposite
  <1>5. \A d \in Directions : RiskStep(d) \in Places
    BY PlacesAre DEF RiskStep
  <1>6. RawConfidence \cup Verdicts \cup Judgments \cup {0} \subseteq Figures
    BY DEF RawConfidence, Verdicts, Judgments, Figures
  <1> QED BY <1>1, <1>2, <1>3, <1>4, <1>5, <1>6

\* What the stages do to a confidence.
LEMMA ScaledBound ==
  ASSUME NEW c \in Figures
  PROVE  Scaled(c) \in Figures /\ Scaled(c) <= 100
  <1>1. c \in Nat /\ c <= 9500
    BY DEF Figures
  <1>2. c \div 100 \in Nat /\ c \div 100 <= 95
    BY <1>1
  <1>3. Scaled(c) \in Nat /\ Scaled(c) <= 100
    BY <1>1, <1>2 DEF Scaled
  <1> QED BY <1>3 DEF Figures

LEMMA CotBound ==
  ASSUME NEW c \in Figures
  PROVE  (c * 7) \div 10 \in Figures /\ (c * 7) \div 10 <= c
  <1>1. c \in Nat /\ c <= 9500
    BY DEF Figures
  <1>2. (c * 7) \div 10 \in Nat /\ (c * 7) \div 10 <= c
    BY <1>1
  <1>3. \A x \in Nat : x <= c => x \in Figures
    BY <1>1 DEF Figures
  <1> QED BY <1>2, <1>3

LEMMA SignalChanged ==
  ASSUME NEW s \in Signals, NEW c \in Figures, NEW d \in Directions
  PROVE  /\ [s EXCEPT !.conf = c] \in Signals /\ [s EXCEPT !.conf = c].dir = s.dir
         /\ [s EXCEPT !.conf = c].conf = c
         /\ [s EXCEPT !.dir = d] \in Signals /\ [s EXCEPT !.dir = d].conf = s.conf
  <1>1. [s EXCEPT !.conf = c] \in Signals
    BY DEF Signals
  <1>2. [s EXCEPT !.dir = d] \in Signals
    BY DEF Signals
  <1>3. [s EXCEPT !.conf = c].dir = s.dir
    BY DEF Signals
  <1>4. [s EXCEPT !.conf = c].conf = c
    BY DEF Signals
  <1>5. [s EXCEPT !.dir = d].conf = s.conf
    BY DEF Signals
  <1> QED BY <1>1, <1>2, <1>3, <1>4, <1>5

\* A record of the risk step is never mistaken for none, and what the later
\* stages do to its stop leaves its direction alone.
LEMMA RiskKept ==
  ASSUME NEW r \in RiskRecords, NEW d \in Directions, NEW near \in BOOLEAN
  PROVE  /\ WithProfile(r) \in RiskRecords /\ Enhanced(r, d, near) \in RiskRecords
         /\ r # NoRisk => /\ WithProfile(r) # NoRisk /\ WithProfile(r).dir = r.dir
                          /\ Enhanced(r, d, near) # NoRisk
                          /\ Enhanced(r, d, near).dir = r.dir
         /\ \A ok \in BOOLEAN : /\ Assessed(d, ok) \in RiskRecords /\ Assessed(d, ok) # NoRisk
                                /\ Assessed(d, ok).dir = d
  <1> DEFINE Real == [dir : Directions, stop : {"below", "above", "none", "pips"},
                      approved : BOOLEAN]
  <1>1. NoRisk \notin Real /\ RiskRecords = Real \cup {NoRisk}
    BY PipelineAssumption DEF PipelineAssumption, RiskRecords, Directions
  <1>2. \A s \in {"below", "above", "none", "pips"} : \A x \in Real :
          [x EXCEPT !.stop = s] \in Real /\ [x EXCEPT !.stop = s].dir = x.dir
    OBVIOUS
  <1>3. LosingSide(d) \in {"below", "above"}
    BY DEF LosingSide
  <1>4. \A ok \in BOOLEAN : Assessed(d, ok) \in Real /\ Assessed(d, ok).dir = d
    BY <1>3 DEF Assessed
  <1> HIDE DEF Real
  <1>5. r = NoRisk \/ r \in Real
    BY <1>1
  <1>6. CASE r = NoRisk
    BY <1>1, <1>4, <1>6 DEF WithProfile, Enhanced
  <1>7. CASE r \in Real
    <2>1. WithProfile(r) \in Real /\ WithProfile(r).dir = r.dir
      BY <1>1, <1>2, <1>7 DEF WithProfile
    <2>2. Enhanced(r, d, near) \in Real /\ Enhanced(r, d, near).dir = r.dir
      BY <1>1, <1>2, <1>3, <1>7 DEF Enhanced
    <2> QED BY <2>1, <2>2, <1>1, <1>4
  <1> QED BY <1>5, <1>6, <1>7

Flags(pr, e, d, n) ==
  /\ pr \in {"none", "pips", "zeros"} /\ e \in {"off", "on", "over"}
  /\ d \in BOOLEAN /\ n \in BOOLEAN

LEMMA ShapeIs ==
  PipelineShape <=> /\ signals \in Signals /\ risk \in RiskRecords /\ run \in [Pipelines -> Runs]
                    /\ Flags(profile, emergency, debating, enabled)
  <1>1. run \in [Pipelines -> Runs] => \A p \in Pipelines : run[p].dir \in {"none"} \cup Sides
    BY DEF Runs
  <1> QED BY <1>1 DEF PipelineShape, PipelineTypeOK, Flags, Runs, Signals

LEMMA ShapeStep == PipelineShape /\ [PipelineNext]_pipelineVars => PipelineShape'
  <1> SUFFICES ASSUME PipelineShape, [PipelineNext]_pipelineVars PROVE PipelineShape'
    OBVIOUS
  <1>1. /\ signals \in Signals /\ risk \in RiskRecords /\ run \in [Pipelines -> Runs]
        /\ Flags(profile, emergency, debating, enabled)
    BY ShapeIs
  <1>2. signals.dir \in Directions /\ signals.conf \in Figures
    BY <1>1 DEF Signals
  <1>3. ASSUME signals' \in Signals, risk' \in RiskRecords, run' \in [Pipelines -> Runs],
               Flags(profile, emergency, debating, enabled)'
        PROVE  PipelineShape'
    <2>1. \A p \in Pipelines : run'[p].dir \in {"none"} \cup Sides
      BY <1>3 DEF Runs
    <2> QED BY <1>3, <2>1 DEF PipelineShape, PipelineTypeOK, Flags, Runs, Signals
  <1>4. \A c \in Figures : [signals EXCEPT !.conf = c] \in Signals
    BY <1>1, <1>2, SignalChanged
  <1>5. ASSUME NEW p \in Pipelines, Start(p) PROVE PipelineShape'
    <2>1. run' \in [Pipelines -> Runs]
      BY <1>5, Shapes, BecomesIs DEF Start
    <2> QED BY <1>1, <1>3, <1>5, <2>1 DEF Start, Flags
  <1>6. ASSUME NEW p \in Pipelines, CheckEmergency(p) PROVE PipelineShape'
    <2>1. run' \in [Pipelines -> Runs]
      BY <1>6, GotoKeeps, PlacesAre DEF CheckEmergency
    <2> QED BY <1>1, <1>3, <1>6, <2>1 DEF CheckEmergency, Flags
  <1>7. ASSUME NEW p \in Pipelines, Analyse(p) PROVE PipelineShape'
    <2>1. run' \in [Pipelines -> Runs]
      BY <1>7, GotoKeeps, PlacesAre DEF Analyse
    <2> QED BY <1>1, <1>3, <1>7, <2>1 DEF Analyse, Flags, Sides
  <1>8. ASSUME NEW p \in Pipelines, DetectSignal(p) PROVE PipelineShape'
    <2>1. run' \in [Pipelines -> Runs]
      BY <1>8, GotoKeeps, PlacesAre DEF DetectSignal
    <2>2. signals' \in Signals
      <3>1. \A d \in Sides \cup {"WAIT"}, c \in RawConfidence : [dir |-> d, conf |-> c] \in Signals
        BY Shapes DEF Signals, Directions
      <3> QED BY <3>1, <1>1, <1>8 DEF DetectSignal
    <2> QED BY <1>1, <1>3, <1>8, <2>1, <2>2 DEF DetectSignal, Flags
  <1>9. ASSUME NEW p \in Pipelines, NEW phase, Continue(p, phase)
        PROVE  run' \in [Pipelines -> Runs] /\ risk' \in RiskRecords
    <2>1. WithProfile(risk) \in RiskRecords
      <3>1. TRUE \in BOOLEAN
        OBVIOUS
      <3> QED BY <3>1, <1>1, <1>2, RiskKept
    <2>2. CASE Goto(p, "cot") /\ UNCHANGED risk
      BY <1>1, <2>2, GotoKeeps, PlacesAre
    <2>3. CASE (Goto(p, "returned") \/ Goto(p, "macro")) /\ risk' \in {risk, WithProfile(risk)}
      BY <1>1, <2>1, <2>3, GotoKeeps, PlacesAre
    <2> QED BY <1>9, <2>2, <2>3 DEF Continue
  <1>10. ASSUME NEW p \in Pipelines, Resolve(p) PROVE PipelineShape'
    <2>1. UNCHANGED <<profile, emergency, enabled, debating>>
      BY <1>10 DEF Resolve
    <2>2. Scaled(signals.conf) \in Figures
      BY <1>2, ScaledBound
    <2>3. CASE signals' = [signals EXCEPT !.conf = IF run[p].at = "conflict" THEN Scaled(@) ELSE @]
               /\ Continue(p, run[p].at)
      <3>1. signals' \in Signals
        <4>1. (IF run[p].at = "conflict" THEN Scaled(signals.conf) ELSE signals.conf) \in Figures
          BY <1>2, <2>2
        <4> QED BY <1>4, <2>3, <4>1
      <3> QED BY <3>1, <1>1, <1>3, <1>9, <2>1, <2>3 DEF Flags
    <2>4. CASE (\E c \in Verdicts : signals' = [signals EXCEPT !.conf = c]) /\ Continue(p, run[p].at)
      <3>1. signals' \in Signals
        <4>1. Verdicts \subseteq Figures
          BY Shapes
        <4> QED BY <1>4, <2>4, <4>1
      <3> QED BY <3>1, <1>1, <1>3, <1>9, <2>1, <2>4 DEF Flags
    <2>5. CASE Goto(p, Committee[run[p].at]) /\ UNCHANGED <<signals, risk>>
      <3>1. run' \in [Pipelines -> Runs]
        <4>1. run[p].at \in DOMAIN Committee
          BY <1>10 DEF Resolve
        <4>2. Committee[run[p].at] \in Places
          BY <4>1, CommitteePlaces, PlacesAre
        <4> QED BY <2>5, <4>2, GotoKeeps
      <3> QED BY <3>1, <1>1, <1>3, <2>1, <2>5 DEF Flags
    <2> QED BY <1>10, <2>3, <2>4, <2>5 DEF Resolve
  <1>11. ASSUME NEW p \in Pipelines, CommitteeAnswers(p) PROVE PipelineShape'
    <2>1. signals' \in Signals
      <3>1. {0} \cup Verdicts \subseteq Figures
        BY Shapes
      <3> QED BY <1>4, <1>11, <3>1 DEF CommitteeAnswers
    <2>2. \E phase \in DOMAIN Committee : Continue(p, phase)
      BY <1>11 DEF CommitteeAnswers
    <2> QED BY <1>1, <1>3, <1>9, <1>11, <2>1, <2>2 DEF CommitteeAnswers, Flags
  <1>22. ASSUME NEW p \in Pipelines, FullFundamental(p) PROVE PipelineShape'
    <2>1. run' \in [Pipelines -> Runs]
      BY <1>22, GotoKeeps, PlacesAre DEF FullFundamental
    <2> QED BY <1>1, <1>3, <1>22, <2>1 DEF FullFundamental, Flags
  <1>12. ASSUME NEW p \in Pipelines, CotFilter(p) PROVE PipelineShape'
    <2>1. signals' \in Signals
      <3>1. \A d \in Sides : [signals EXCEPT !.dir = d] \in Signals
        BY <1>1, <1>2, Shapes, SignalChanged
      <3>2. [signals EXCEPT !.conf = (@ * 7) \div 10] \in Signals
        BY <1>2, <1>4, CotBound
      <3>3. \A d \in Sides : Opposite(d) \in Sides
        BY Shapes
      <3> QED BY <1>1, <1>12, <3>1, <3>2, <3>3 DEF CotFilter
    <2>2. run' \in [Pipelines -> Runs]
      <3>1. signals'.dir \in Directions
        BY <2>1 DEF Signals
      <3> QED BY <3>1, <1>12, Shapes, GotoKeeps, PlacesAre DEF CotFilter
    <2> QED BY <1>1, <1>3, <1>12, <2>1, <2>2 DEF CotFilter, Flags
  <1>13. ASSUME NEW p \in Pipelines, Debate(p) PROVE PipelineShape'
    <2>1. PICK d \in Sides \cup {"HOLD"}, c \in Judgments :
            /\ signals' = [dir |-> d, conf |-> c]
            /\ Becomes(p, [run[p] EXCEPT !.at = IF d \in Sides THEN "riskdebate" ELSE "store",
                                        !.debated = p \in Traders])
      BY <1>13 DEF Debate
    <2>2. signals' \in Signals
      BY <2>1, Shapes DEF Signals, Directions
    <2>3. run' \in [Pipelines -> Runs]
      <3>1. run[p] \in Runs
        BY <1>1
      <3>2. (IF d \in Sides THEN "riskdebate" ELSE "store") \in Places /\ (p \in Traders) \in BOOLEAN
        BY PlacesAre
      <3>3. \A x \in Places, y \in BOOLEAN : [run[p] EXCEPT !.at = x, !.debated = y] \in Runs
        BY <3>1 DEF Runs
      <3> QED BY <2>1, <3>2, <3>3, BecomesIs
    <2> QED BY <1>1, <1>3, <1>13, <2>2, <2>3 DEF Debate, Flags
  <1>14. ASSUME NEW p \in Pipelines, DebateRisk(p) PROVE PipelineShape'
    <2>1. run' \in [Pipelines -> Runs]
      BY <1>14, GotoKeeps, PlacesAre DEF DebateRisk
    <2> QED BY <1>1, <1>3, <1>14, <2>1 DEF DebateRisk, Flags
  <1>15. ASSUME NEW p \in Pipelines, StoreDecision(p) PROVE PipelineShape'
    <2>1. run' \in [Pipelines -> Runs]
      BY <1>2, <1>15, Shapes, GotoKeeps DEF StoreDecision
    <2> QED BY <1>1, <1>3, <1>15, <2>1 DEF StoreDecision, Flags
  <1>16. ASSUME NEW p \in Pipelines, AssessRisk(p) PROVE PipelineShape'
    <2>1. run' \in [Pipelines -> Runs]
      <3>1. CASE Becomes(p, [run[p] EXCEPT !.at = "conflict2", !.assessed = p \in Traders])
        <4>1. (p \in Traders) \in BOOLEAN
          OBVIOUS
        <4>2. \A y \in BOOLEAN : [run[p] EXCEPT !.at = "conflict2", !.assessed = y] \in Runs
          BY <1>1, PlacesAre DEF Runs
        <4> QED BY <3>1, <4>1, <4>2, BecomesIs
      <3>2. CASE Goto(p, "conflict2")
        BY <3>2, GotoKeeps, PlacesAre
      <3> QED BY <1>16, <3>1, <3>2 DEF AssessRisk
    <2>2. risk' \in RiskRecords
      BY <1>1, <1>2, <1>16, RiskKept DEF AssessRisk
    <2> QED BY <1>1, <1>3, <1>16, <2>1, <2>2 DEF AssessRisk, Flags
  <1>17. ASSUME NEW p \in Pipelines, Gate(p) PROVE PipelineShape'
    <2>1. run' \in [Pipelines -> Runs]
      <3>1. CASE Becomes(p, Idle)
        BY <3>1, Shapes, BecomesIs
      <3>2. CASE Becomes(p, [run[p] EXCEPT !.at = "guard", !.dir = signals.dir]) /\ signals.dir \in Sides
        <4>1. [run[p] EXCEPT !.at = "guard", !.dir = signals.dir] \in Runs
          BY <1>1, <3>2, PlacesAre DEF Runs
        <4> QED BY <3>2, <4>1, BecomesIs
      <3> QED BY <1>17, <3>1, <3>2 DEF Gate
    <2> QED BY <1>1, <1>3, <1>17, <2>1 DEF Gate, Flags
  <1>18. ASSUME NEW p \in Pipelines, Guard(p) PROVE PipelineShape'
    <2>1. run' \in [Pipelines -> Runs] /\ risk' \in RiskRecords
      <3>1. CASE Becomes(p, Idle) /\ UNCHANGED risk
        BY <3>1, <1>1, Shapes, BecomesIs
      <3>2. CASE /\ \E near \in BOOLEAN : risk' = Enhanced(risk, signals.dir, near)
                 /\ Goto(p, "lock")
        <4>1. risk' \in RiskRecords
          BY <3>2, <1>1, <1>2, RiskKept
        <4>2. run' \in [Pipelines -> Runs]
          BY <3>2, GotoKeeps, PlacesAre
        <4> QED BY <4>1, <4>2
      <3> QED BY <1>18, <3>1, <3>2 DEF Guard
    <2> QED BY <1>1, <1>3, <1>18, <2>1 DEF Guard, Flags
  <1>23. ASSUME NEW p \in Pipelines, TakeLock(p) PROVE PipelineShape'
    <2>1. run' \in [Pipelines -> Runs]
      BY <1>23, Shapes, BecomesIs, GotoKeeps, PlacesAre DEF TakeLock
    <2> QED BY <1>1, <1>3, <1>23, <2>1 DEF TakeLock, Flags
  <1>19. ASSUME NEW p \in Pipelines, OpenTrade(p) PROVE PipelineShape'
    <2>1. CASE Becomes(p, Idle) /\ UNCHANGED risk
      <3>1. run' \in [Pipelines -> Runs]
        BY <2>1, Shapes, BecomesIs
      <3> QED BY <1>1, <1>3, <1>19, <2>1, <3>1 DEF OpenTrade, Flags
    <2>2. CASE ~(Becomes(p, Idle) /\ UNCHANGED risk)
      <3> DEFINE t == [dir |-> signals.dir, conf |-> signals.conf, decided |-> run[p].dir,
              riskDir |-> IF risk' = NoRisk THEN "none" ELSE risk'.dir,
              stop |-> IF risk' = NoRisk THEN "none" ELSE risk'.stop,
              debated |-> run[p].debated, assessed |-> run[p].assessed,
              alone |-> run[p].alone]
      <3>1. /\ \E near \in BOOLEAN : risk' = Enhanced(risk, signals.dir, near)
            /\ Becomes(p, [Idle EXCEPT !.trade = t])
        BY <1>19, <2>2 DEF OpenTrade
      <3>2. risk' \in RiskRecords
        BY <3>1, <1>1, <1>2, RiskKept
      <3>3. t \in Trades
        <4>1. /\ run[p].dir \in Directions /\ run[p].debated \in BOOLEAN
              /\ run[p].assessed \in BOOLEAN /\ run[p].alone \in BOOLEAN
          BY <1>1, Shapes DEF Runs, Directions
        <4>2. /\ (IF risk' = NoRisk THEN "none" ELSE risk'.stop) \in {"below", "above", "none", "pips"}
              /\ (IF risk' = NoRisk THEN "none" ELSE risk'.dir) \in Directions
          BY <3>2 DEF RiskRecords, Directions
        <4>3. signals.dir \in Directions /\ signals.conf \in Figures
          BY <1>2
        <4> QED BY <4>1, <4>2, <4>3 DEF Trades
      <3> HIDE DEF t
      <3>4. [Idle EXCEPT !.trade = t] \in Runs
        BY <3>3, Shapes DEF Runs
      <3>5. run' \in [Pipelines -> Runs]
        BY <3>1, <3>4, BecomesIs
      <3> QED BY <1>1, <1>3, <1>19, <3>2, <3>5 DEF OpenTrade, Flags
    <2> QED BY <2>1, <2>2
  <1>20. CASE Switch \/ Emergency
    BY <1>1, <1>3, <1>20 DEF Switch, Emergency, Flags
  <1>21. CASE UNCHANGED pipelineVars
    BY <1>1, <1>3, <1>21 DEF pipelineVars, Flags
  <1> QED BY <1>5, <1>6, <1>7, <1>8, <1>10, <1>11, <1>12, <1>13, <1>14, <1>15, <1>16, <1>17,
             <1>18, <1>19, <1>20, <1>21, <1>22, <1>23 DEF PipelineNext, Advance

\* Whatever pipelines run at once on the one shared context, what they find in
\* it is a signal, a risk record or none, and a profile of the known kinds.
THEOREM PipelineTyped == PipelineSpec => []PipelineShape
  <1>1. PipelineInit => PipelineShape
    <2> SUFFICES ASSUME PipelineInit PROVE PipelineShape
      OBVIOUS
    <2>1. signals \in Signals /\ risk \in RiskRecords /\ run \in [Pipelines -> Runs]
      BY Shapes DEF PipelineInit, Signals, Directions, RiskRecords
    <2> QED BY <2>1, ShapeIs DEF PipelineInit, Flags
  <1> QED BY <1>1, ShapeStep, PTL DEF PipelineSpec

\* The invariant as a predicate of a run and of what it reads, so that it can
\* be used of a later state.
TradeSound(t) ==
  t # NoTrade /\ t.alone =>
    /\ t.debated /\ t.conf >= TradeThreshold /\ t.decided = t.dir
    /\ t.assessed => t.riskDir = t.dir

FractionSound(r, s, e) ==
  /\ r.at \in {"cot", "debate", "assess", "macro", "conflict2", "committee2",
               "conflict3", "committee3"} /\ ~r.debated => s.conf <= 100
  /\ r.at \in {"riskdebate", "store", "guard", "lock", "open"} => r.debated
  /\ r.at \in {"conflict0", "committee0"} => e # "off"
  /\ r.at = "returned" /\ ~r.debated => s.conf <= 100 \/ e # "off"

DirectionSound(r, s, k) ==
  /\ r.assessed => k # NoRisk /\ k.dir = s.dir
  /\ r.at \in {"guard", "lock", "open"} => r.dir = s.dir /\ s.conf >= TradeThreshold

LateSound(r) ==
  r.assessed => r.at \in {"conflict2", "committee2", "macro", "conflict3",
                          "committee3", "returned", "guard", "lock", "open"}

RunSound(r, s, k, e) ==
  /\ LateSound(r)
  /\ r.alone => FractionSound(r, s, e) /\ DirectionSound(r, s, k)
  /\ TradeSound(r.trade)

LEMMA InvIs ==
  PipelineInv <=> /\ PipelineShape
                  /\ \A p \in Traders : RunSound(run[p], signals, risk, emergency)
  BY DEF PipelineInv, RunSound, FractionUnlessDebated, FractionSound, DirectionKept,
         DirectionSound, AssessedLate, LateSound, DebatedBeforeTraded, RiskMatchesSignal,
         TradeSound

LEMMA InvIsNext ==
  PipelineInv' <=> /\ PipelineShape'
                   /\ \A p \in Traders : RunSound(run'[p], signals', risk', emergency')
  BY DEF PipelineInv, RunSound, FractionUnlessDebated, FractionSound, DirectionKept,
         DirectionSound, AssessedLate, LateSound, DebatedBeforeTraded, RiskMatchesSignal,
         TradeSound

\* No trade is a sound one, and so is a pipeline at rest.
LEMMA IdleSound ==
  ASSUME NEW s, NEW k, NEW e
  PROVE  /\ RunSound(Idle, s, k, e)
         /\ RunSound([Idle EXCEPT !.at = "emergency", !.alone = TRUE], s, k, e)
  <1>1. Idle.at = "idle" /\ ~Idle.assessed /\ ~Idle.alone /\ Idle.trade = NoTrade
    BY DEF Idle
  <1>2. TradeSound(NoTrade)
    BY DEF TradeSound
  <1> DEFINE r == [Idle EXCEPT !.at = "emergency", !.alone = TRUE]
  <1>3. r.at = "emergency" /\ ~r.assessed /\ r.trade = NoTrade
    BY DEF Idle
  <1> HIDE DEF r
  <1>4. RunSound(r, s, k, e)
    BY <1>2, <1>3 DEF RunSound, LateSound, FractionSound, DirectionSound
  <1>5. RunSound(Idle, s, k, e)
    BY <1>1, <1>2 DEF RunSound, LateSound
  <1> QED BY <1>4, <1>5 DEF r

\* A run that is cut into promises nothing, whatever is done to the context.
Cut(q) == \A p \in Pipelines \ {q} : run'[p] = CutInto(run[p])

LEMMA OthersCut ==
  ASSUME NEW q \in Pipelines, Start(q) \/ Advance(q)
  PROVE  Cut(q)
  <1>1. ASSUME NEW r, Becomes(q, r) PROVE Cut(q)
    BY <1>1 DEF Becomes, Cut
  <1>2. ASSUME NEW x, Goto(q, x) PROVE Cut(q)
    BY <1>1, <1>2 DEF Goto
  <1>3. ASSUME NEW phase, Continue(q, phase) PROVE Cut(q)
    BY <1>2, <1>3 DEF Continue
  <1>4. Start(q) \/ CheckEmergency(q) \/ Analyse(q) \/ DetectSignal(q) => Cut(q)
    BY <1>1, <1>2 DEF Start, CheckEmergency, Analyse, DetectSignal
  <1>5. Resolve(q) \/ CommitteeAnswers(q) \/ FullFundamental(q) => Cut(q)
    BY <1>2, <1>3 DEF Resolve, CommitteeAnswers, FullFundamental
  <1>6. CotFilter(q) \/ Debate(q) \/ DebateRisk(q) \/ StoreDecision(q) => Cut(q)
    BY <1>1, <1>2 DEF CotFilter, Debate, DebateRisk, StoreDecision
  <1>7. AssessRisk(q) \/ Gate(q) \/ Guard(q) \/ TakeLock(q) \/ OpenTrade(q) => Cut(q)
    BY <1>1, <1>2 DEF AssessRisk, Gate, Guard, TakeLock, OpenTrade
  <1> QED BY <1>4, <1>5, <1>6, <1>7 DEF Advance

LEMMA CutSound ==
  ASSUME NEW r \in Runs, LateSound(r), NEW s, NEW k, NEW e
  PROVE  RunSound(CutInto(r), s, k, e)
  <1> DEFINE c == CutInto(r)
  <1>1. c.at = r.at /\ c.assessed = r.assessed /\ ~c.alone /\ c.trade = NoTrade
    BY DEF CutInto, Runs
  <1>2. TradeSound(NoTrade)
    BY DEF TradeSound
  <1> HIDE DEF c
  <1>3. RunSound(c, s, k, e)
    BY <1>1, <1>2 DEF RunSound, LateSound
  <1> QED BY <1>3 DEF c

\* What an arbiter or a committee answers is a fraction.
LEMMA SmallFigures == \A c \in Verdicts \cup {0} : c \in Nat /\ c <= 100
  BY DEF Verdicts

LEMMA FiguresAreNumbers == \A c \in Figures : c \in Nat
  BY DEF Figures

LEMMA PipelineStep == PipelineInv /\ [PipelineNext]_pipelineVars => PipelineInv'
  <1> SUFFICES ASSUME PipelineInv, [PipelineNext]_pipelineVars PROVE PipelineInv'
    OBVIOUS
  <1>1. PipelineShape /\ PipelineShape'
    BY ShapeStep, InvIs
  <1> SUFFICES ASSUME NEW p \in Traders
               PROVE  RunSound(run'[p], signals', risk', emergency')
    BY <1>1, InvIsNext
  <1>2. /\ p \in Pipelines /\ run[p] \in Runs /\ signals \in Signals /\ risk \in RiskRecords
        /\ signals.dir \in Directions /\ signals.conf \in Figures /\ run \in [Pipelines -> Runs]
    BY <1>1, ShapeIs DEF Pipelines, Signals
  <1>4. RunSound(run[p], signals, risk, emergency)
    BY InvIs
  <1>5. /\ LateSound(run[p]) /\ TradeSound(run[p].trade)
        /\ run[p].alone => /\ FractionSound(run[p], signals, emergency)
                           /\ DirectionSound(run[p], signals, risk)
    BY <1>4 DEF RunSound
  <1>6. signals.conf \in Nat
    BY <1>2, FiguresAreNumbers
  <1>7. ASSUME NEW x \in Places, Goto(p, x)
        PROVE  /\ run'[p].at = x /\ run'[p].dir = run[p].dir
               /\ run'[p].debated = run[p].debated /\ run'[p].assessed = run[p].assessed
               /\ run'[p].alone = run[p].alone /\ run'[p].trade = run[p].trade
    BY <1>1, <1>2, <1>7, GotoKeeps
  <1>8. \A c \in Figures : [signals EXCEPT !.conf = c].dir = signals.dir
                        /\ [signals EXCEPT !.conf = c].conf = c
    BY <1>2, SignalChanged
  <1>3. CASE \E q \in Pipelines \ {p} : Start(q) \/ Advance(q)
    <2>1. run'[p] = CutInto(run[p])
      BY <1>2, <1>3, OthersCut DEF Cut
    <2> QED BY <2>1, <1>2, <1>5, CutSound
  <1>9. CASE Start(p)
    <2>1. run'[p] = [Idle EXCEPT !.at = "emergency", !.alone = TRUE]
      BY <1>1, <1>2, <1>9, Shapes, BecomesIs DEF Start
    <2> QED BY <2>1, IdleSound
  <1>10. CASE CheckEmergency(p)
    <2>1. /\ run[p].at = "emergency"
          /\ \/ Goto(p, "market")
             \/ Goto(p, "returned") /\ emergency' = "on"
             \/ Goto(p, "conflict0") /\ emergency' = "on"
      BY <1>10 DEF CheckEmergency
    <2>2. /\ run'[p].at \in {"market", "returned", "conflict0"}
          /\ run'[p].at # "market" => emergency' = "on"
          /\ run'[p].assessed = run[p].assessed /\ run'[p].alone = run[p].alone
          /\ run'[p].debated = run[p].debated /\ run'[p].trade = run[p].trade
      BY <2>1, <1>7, PlacesAre
    <2> QED BY <2>1, <2>2, <1>5 DEF RunSound, LateSound, FractionSound, DirectionSound
  <1>11. CASE Analyse(p)
    <2>1. Goto(p, "strategy") \/ Goto(p, "conflict")
      BY <1>11 DEF Analyse
    <2>2. run'[p].at \in {"strategy", "conflict"} /\ run'[p].assessed = run[p].assessed
          /\ run'[p].trade = run[p].trade
      BY <2>1, <1>7, PlacesAre
    <2> QED BY <2>2, <1>5, <1>11 DEF Analyse, RunSound, LateSound, FractionSound, DirectionSound
  <1>12. CASE DetectSignal(p)
    <2>1. run'[p].at = "conflict" /\ run'[p].assessed = run[p].assessed
          /\ run'[p].trade = run[p].trade
      BY <1>12, <1>7, PlacesAre DEF DetectSignal
    <2> QED BY <2>1, <1>5, <1>12 DEF DetectSignal, RunSound, LateSound, FractionSound, DirectionSound
  \* Where Continue leads, given what it finds.
  <1>13. ASSUME NEW c \in Nat, signals'.conf = c, signals'.dir = signals.dir,
                NEW phase \in DOMAIN Committee, run[p].at \in {phase, Committee[phase]},
                Continue(p, phase), UNCHANGED emergency, phase = "conflict" => c <= 100,
                c <= 100 \/ c = signals.conf
         PROVE  RunSound(run'[p], signals', risk', emergency')
    <2>1. CASE phase = "conflict"
      <3>1. Goto(p, "cot") /\ UNCHANGED risk
        BY <1>13, <2>1 DEF Continue
      <3>2. run[p].at \in {"conflict", "committee"}
        BY <1>13, <2>1, CommitteePlaces
      <3>3. /\ run'[p].at = "cot" /\ run'[p].debated = run[p].debated
            /\ run'[p].assessed = run[p].assessed /\ run'[p].trade = run[p].trade
            /\ run'[p].alone = run[p].alone
        BY <3>1, <1>7, PlacesAre
      <3> QED BY <3>1, <3>2, <3>3, <2>1, <1>5, <1>13
          DEF RunSound, LateSound, FractionSound, DirectionSound
    <2>2. CASE phase = "conflict2"
      <3>1. (Goto(p, "returned") \/ Goto(p, "macro")) /\ risk' = WithProfile(risk)
        BY <1>13, <2>2 DEF Continue
      <3>2. risk # NoRisk => risk' # NoRisk /\ risk'.dir = risk.dir
        BY <3>1, <1>2, RiskKept
      <3>3. /\ run'[p].at \in {"returned", "macro"} /\ run'[p].debated = run[p].debated
            /\ run'[p].assessed = run[p].assessed /\ run'[p].trade = run[p].trade
            /\ run'[p].alone = run[p].alone
        BY <3>1, <1>7, PlacesAre
      <3>5. run[p].at \in {"conflict2", "committee2"}
        BY <1>13, <2>2, CommitteePlaces
      <3>4. run[p].alone /\ ~run[p].debated => c <= 100
        BY <1>5, <1>13, <3>5 DEF FractionSound
      <3> QED BY <3>2, <3>3, <3>4, <3>5, <1>5, <1>13
          DEF RunSound, LateSound, FractionSound, DirectionSound
    <2>3. CASE phase \in {"conflict0", "conflict3"}
      <3>1. Goto(p, "returned") /\ UNCHANGED risk
        BY <1>13, <2>3 DEF Continue
      <3>2. run[p].at \in {"conflict0", "committee0", "conflict3", "committee3"}
        BY <1>13, <2>3, CommitteePlaces
      <3>3. /\ run'[p].at = "returned" /\ run'[p].debated = run[p].debated
            /\ run'[p].assessed = run[p].assessed /\ run'[p].trade = run[p].trade
            /\ run'[p].alone = run[p].alone
        BY <3>1, <1>7, PlacesAre
      <3>4. run[p].alone /\ ~run[p].debated => c <= 100 \/ emergency # "off"
        BY <1>5, <1>13, <3>2 DEF FractionSound
      <3> QED BY <3>1, <3>2, <3>3, <3>4, <1>5, <1>13
          DEF RunSound, LateSound, FractionSound, DirectionSound
    <2> QED BY <2>1, <2>2, <2>3, <1>13, CommitteePlaces
  <1>14. CASE Resolve(p)
    <2> run[p].at \in DOMAIN Committee /\ UNCHANGED emergency
      BY <1>14 DEF Resolve
    <2>1. CASE /\ Continue(p, run[p].at)
               /\ signals' = [signals EXCEPT !.conf = IF run[p].at = "conflict" THEN Scaled(@) ELSE @]
      <3> DEFINE c == IF run[p].at = "conflict" THEN Scaled(signals.conf) ELSE signals.conf
      <3>1. c \in Figures /\ (run[p].at = "conflict" => c <= 100)
        BY <1>2, ScaledBound
      <3>2. signals' = [signals EXCEPT !.conf = c] /\ (c = signals.conf \/ c <= 100)
        BY <2>1, <3>1
      <3> HIDE DEF c
      <3>4. c \in Nat
        BY <3>1, FiguresAreNumbers
      <3>5. signals'.conf = c /\ signals'.dir = signals.dir
        BY <3>1, <3>2, <1>8
      <3> QED BY <3>1, <3>2, <3>4, <3>5, <2>1, <1>13
    <2>2. CASE (\E c \in Verdicts : signals' = [signals EXCEPT !.conf = c])
               /\ Continue(p, run[p].at)
      <3>1. PICK c \in Verdicts : signals' = [signals EXCEPT !.conf = c]
        BY <2>2
      <3>2. c \in Nat /\ c <= 100 /\ c \in Figures
        BY Shapes, SmallFigures
      <3>4. signals'.conf = c /\ signals'.dir = signals.dir
        BY <3>1, <3>2, <1>8
      <3> QED BY <3>2, <3>4, <2>2, <1>13
    <2>3. CASE Goto(p, Committee[run[p].at]) /\ UNCHANGED <<signals, risk>>
      <3>1. Committee[run[p].at] \in Places
        BY CommitteePlaces, PlacesAre
      <3>2. /\ run'[p].at = Committee[run[p].at] /\ run'[p].debated = run[p].debated
            /\ run'[p].assessed = run[p].assessed /\ run'[p].trade = run[p].trade
            /\ run'[p].alone = run[p].alone
        BY <2>3, <3>1, <1>7
      <3>3. /\ run[p].at = "conflict0" => run'[p].at = "committee0"
            /\ run[p].at = "conflict" => run'[p].at = "committee"
            /\ run[p].at = "conflict2" => run'[p].at = "committee2"
            /\ run[p].at = "conflict3" => run'[p].at = "committee3"
            /\ run[p].at \in {"conflict0", "conflict", "conflict2", "conflict3"}
        BY <3>2, CommitteePlaces
      <3> QED BY <2>3, <3>2, <3>3, <1>5
          DEF RunSound, LateSound, FractionSound, DirectionSound
    <2> QED BY <1>14, <2>1, <2>2, <2>3 DEF Resolve
  <1>15. CASE CommitteeAnswers(p)
    <2>1. PICK c \in Verdicts \cup {0} : signals' = [signals EXCEPT !.conf = c]
      BY <1>15 DEF CommitteeAnswers
    <2>2. c \in Nat /\ c <= 100 /\ c \in Figures
      BY Shapes, SmallFigures
    <2>3. PICK phase \in DOMAIN Committee : run[p].at = Committee[phase] /\ Continue(p, phase)
      BY <1>15 DEF CommitteeAnswers
    <2>4. signals'.conf = c /\ signals'.dir = signals.dir /\ UNCHANGED emergency
      BY <1>15, <2>1, <2>2, <1>8 DEF CommitteeAnswers
    <2> QED BY <2>2, <2>3, <2>4, <1>13
  <1>16. CASE CotFilter(p)
    <2>1. signals'.conf \in Nat /\ signals'.conf <= signals.conf /\ signals'.dir \in Directions
      <3>1. CASE UNCHANGED signals
        BY <3>1, <1>2, <1>6
      <3>2. CASE signals.dir \in Sides /\ signals' = [signals EXCEPT !.dir = Opposite(@)]
        BY <3>2, <1>2, <1>6, Shapes, SignalChanged DEF Signals
      <3>3. CASE signals' = [signals EXCEPT !.conf = (@ * 7) \div 10]
        <4>1. (signals.conf * 7) \div 10 \in Figures /\ (signals.conf * 7) \div 10 <= signals.conf
          BY <1>2, CotBound
        <4> QED BY <3>3, <4>1, FiguresAreNumbers, <1>2, <1>8
      <3> QED BY <1>16, <3>1, <3>2, <3>3 DEF CotFilter
    <2>2. RiskStep(signals'.dir) \in {"assess", "conflict2"}
      BY DEF RiskStep
    <2> DEFINE x == IF debating /\ signals'.dir \in Sides /\ signals'.conf >= DebateThreshold
                      THEN "debate" ELSE RiskStep(signals'.dir)
    <2>3. Goto(p, x) /\ x \in {"debate", "assess", "conflict2"} /\ run[p].at = "cot"
          /\ UNCHANGED <<risk, emergency>>
      BY <1>16, <2>2 DEF CotFilter
    <2> HIDE DEF x
    <2>4. /\ run'[p].at = x /\ run'[p].debated = run[p].debated
          /\ run'[p].assessed = run[p].assessed /\ run'[p].trade = run[p].trade
          /\ run'[p].alone = run[p].alone
      BY <2>3, <1>7, PlacesAre
    <2>5. run[p].alone /\ ~run[p].debated => signals'.conf <= 100
      BY <1>5, <1>6, <2>1, <2>3 DEF FractionSound
    <2> QED BY <2>3, <2>4, <2>5, <1>5 DEF RunSound, LateSound, FractionSound, DirectionSound
  <1>17. CASE Debate(p)
    <2>1. PICK d \in Sides \cup {"HOLD"} :
            Becomes(p, [run[p] EXCEPT !.at = IF d \in Sides THEN "riskdebate" ELSE "store",
                                      !.debated = p \in Traders])
      BY <1>17 DEF Debate
    <2> DEFINE x == IF d \in Sides THEN "riskdebate" ELSE "store"
    <2>2. x \in {"riskdebate", "store"} /\ x \in Places
      BY PlacesAre
    <2> HIDE DEF x
    <2>3. [run[p] EXCEPT !.at = x, !.debated = TRUE] \in Runs
      BY <1>2, <2>2 DEF Runs
    <2>4. run'[p] = [run[p] EXCEPT !.at = x, !.debated = TRUE]
      BY <1>1, <1>2, <2>1, <2>3, BecomesIs DEF x
    <2>5. /\ run'[p].at = x /\ run'[p].debated /\ run'[p].alone = run[p].alone
          /\ run'[p].assessed = run[p].assessed /\ run'[p].trade = run[p].trade
      BY <1>2, <2>4 DEF Runs
    <2>6. run[p].at = "debate"
      BY <1>17 DEF Debate
    <2> QED BY <2>2, <2>5, <2>6, <1>5 DEF RunSound, LateSound, FractionSound, DirectionSound
  <1>18. CASE DebateRisk(p)
    <2>1. /\ run[p].at = "riskdebate" /\ run'[p].at = "store" /\ run'[p].alone = run[p].alone
          /\ run'[p].debated = run[p].debated /\ UNCHANGED <<signals, risk, emergency>>
          /\ run'[p].assessed = run[p].assessed /\ run'[p].trade = run[p].trade
      BY <1>18, <1>7, PlacesAre DEF DebateRisk
    <2> QED BY <2>1, <1>5 DEF RunSound, LateSound, FractionSound, DirectionSound
  <1>19. CASE StoreDecision(p)
    <2>1. RiskStep(signals.dir) \in {"assess", "conflict2"}
      BY DEF RiskStep
    <2>2. /\ run[p].at = "store" /\ run'[p].at \in {"assess", "conflict2"}
          /\ run'[p].debated = run[p].debated /\ UNCHANGED <<signals, risk, emergency>>
          /\ run'[p].assessed = run[p].assessed /\ run'[p].trade = run[p].trade
          /\ run'[p].alone = run[p].alone
      BY <1>19, <1>7, <2>1, PlacesAre DEF StoreDecision
    <2> QED BY <2>2, <1>5 DEF RunSound, LateSound, FractionSound, DirectionSound
  <1>20. CASE AssessRisk(p)
    <2>1. CASE /\ \E ok \in BOOLEAN : risk' = Assessed(signals.dir, ok)
               /\ Becomes(p, [run[p] EXCEPT !.at = "conflict2", !.assessed = p \in Traders])
      <3>1. risk' # NoRisk /\ risk'.dir = signals.dir
        BY <2>1, <1>2, RiskKept
      <3>2. [run[p] EXCEPT !.at = "conflict2", !.assessed = TRUE] \in Runs
        BY <1>2, PlacesAre DEF Runs
      <3>3. run'[p] = [run[p] EXCEPT !.at = "conflict2", !.assessed = TRUE]
        BY <1>1, <1>2, <2>1, <3>2, BecomesIs
      <3>4. /\ run'[p].at = "conflict2" /\ run'[p].debated = run[p].debated
            /\ run'[p].assessed /\ run'[p].trade = run[p].trade
            /\ run'[p].alone = run[p].alone
        BY <1>2, <3>3 DEF Runs
      <3> QED BY <3>1, <3>4, <1>5, <1>20
          DEF AssessRisk, RunSound, LateSound, FractionSound, DirectionSound
    <2>2. CASE Goto(p, "conflict2") /\ UNCHANGED risk
      <3>1. /\ run'[p].at = "conflict2" /\ run'[p].debated = run[p].debated
            /\ run'[p].assessed = run[p].assessed /\ run'[p].trade = run[p].trade
            /\ run'[p].alone = run[p].alone
        BY <2>2, <1>7, PlacesAre
      <3> QED BY <2>2, <3>1, <1>5, <1>20
          DEF AssessRisk, RunSound, LateSound, FractionSound, DirectionSound
    <2> QED BY <1>20, <2>1, <2>2 DEF AssessRisk
  <1>30. CASE FullFundamental(p)
    <2>1. /\ run[p].at = "macro" /\ run'[p].at = "conflict3" /\ run'[p].alone = run[p].alone
          /\ run'[p].debated = run[p].debated /\ UNCHANGED <<signals, risk, emergency>>
          /\ run'[p].assessed = run[p].assessed /\ run'[p].trade = run[p].trade
      BY <1>30, <1>7, PlacesAre DEF FullFundamental
    <2> QED BY <2>1, <1>5 DEF RunSound, LateSound, FractionSound, DirectionSound
  <1>31. ASSUME Becomes(p, Idle) PROVE RunSound(run'[p], signals', risk', emergency')
    <2>1. run'[p] = Idle
      BY <1>1, <1>2, <1>31, Shapes, BecomesIs
    <2> QED BY <2>1, IdleSound
  <1>21. CASE Gate(p)
    <2>1. CASE Becomes(p, Idle)
      BY <2>1, <1>31
    <2>2. CASE /\ signals.conf >= TradeThreshold /\ emergency = "off" /\ signals.dir \in Sides
               /\ Becomes(p, [run[p] EXCEPT !.at = "guard", !.dir = signals.dir])
      <3>1. [run[p] EXCEPT !.at = "guard", !.dir = signals.dir] \in Runs
        BY <1>2, <2>2, PlacesAre DEF Runs
      <3>2. run'[p] = [run[p] EXCEPT !.at = "guard", !.dir = signals.dir]
        BY <1>1, <1>2, <2>2, <3>1, BecomesIs
      <3>3. /\ run'[p].at = "guard" /\ run'[p].debated = run[p].debated
            /\ run'[p].dir = signals.dir /\ run'[p].alone = run[p].alone
            /\ run'[p].assessed = run[p].assessed /\ run'[p].trade = run[p].trade
        BY <1>2, <3>2 DEF Runs
      <3>4. /\ run[p].at = "returned" /\ UNCHANGED <<signals, risk, emergency>>
        BY <1>21 DEF Gate
      <3>5. run[p].alone => run[p].debated
        BY <1>5, <1>6, <2>2, <3>4 DEF FractionSound, TradeThreshold
      <3> QED BY <2>2, <3>3, <3>4, <3>5, <1>5
          DEF RunSound, LateSound, FractionSound, DirectionSound
    <2> QED BY <1>21, <2>1, <2>2 DEF Gate
  <1>22. CASE Guard(p)
    <2>1. CASE Becomes(p, Idle)
      BY <2>1, <1>31
    <2>2. CASE /\ \E near \in BOOLEAN : risk' = Enhanced(risk, signals.dir, near)
               /\ Goto(p, "lock")
      <3>1. risk # NoRisk => risk' # NoRisk /\ risk'.dir = risk.dir
        BY <2>2, <1>2, RiskKept
      <3>2. /\ run'[p].at = "lock" /\ run'[p].debated = run[p].debated
            /\ run'[p].dir = run[p].dir /\ run'[p].alone = run[p].alone
            /\ run'[p].assessed = run[p].assessed /\ run'[p].trade = run[p].trade
        BY <2>2, <1>7, PlacesAre
      <3>3. run[p].at = "guard" /\ UNCHANGED <<signals, emergency>>
        BY <1>22 DEF Guard
      <3> QED BY <3>1, <3>2, <3>3, <1>5
          DEF RunSound, LateSound, FractionSound, DirectionSound
    <2> QED BY <1>22, <2>1, <2>2 DEF Guard
  <1>32. CASE TakeLock(p)
    <2>1. CASE Goto(p, "open")
      <3>1. /\ run'[p].at = "open" /\ run'[p].debated = run[p].debated
            /\ run'[p].dir = run[p].dir /\ run'[p].alone = run[p].alone
            /\ run'[p].assessed = run[p].assessed /\ run'[p].trade = run[p].trade
        BY <2>1, <1>7, PlacesAre
      <3>2. run[p].at = "lock" /\ UNCHANGED <<signals, risk, emergency>>
        BY <1>32 DEF TakeLock
      <3> QED BY <3>1, <3>2, <1>5 DEF RunSound, LateSound, FractionSound, DirectionSound
    <2> QED BY <1>31, <1>32, <2>1 DEF TakeLock
  <1>23. CASE OpenTrade(p)
    <2>1. CASE Becomes(p, Idle)
      BY <2>1, <1>31
    <2>2. CASE ~Becomes(p, Idle)
      <3> DEFINE t == [dir |-> signals.dir, conf |-> signals.conf, decided |-> run[p].dir,
              riskDir |-> IF risk' = NoRisk THEN "none" ELSE risk'.dir,
              stop |-> IF risk' = NoRisk THEN "none" ELSE risk'.stop,
              debated |-> run[p].debated, assessed |-> run[p].assessed,
              alone |-> run[p].alone]
      <3>1. /\ \E near \in BOOLEAN : risk' = Enhanced(risk, signals.dir, near)
            /\ Becomes(p, [Idle EXCEPT !.trade = t]) /\ run[p].at = "open"
        BY <1>23, <2>2 DEF OpenTrade
      <3>2. /\ t.dir = signals.dir /\ t.conf = signals.conf /\ t.decided = run[p].dir
            /\ t.debated = run[p].debated /\ t.assessed = run[p].assessed
            /\ t.alone = run[p].alone
            /\ risk' # NoRisk => t.riskDir = risk'.dir
        OBVIOUS
      <3> HIDE DEF t
      <3>3. risk # NoRisk => risk' # NoRisk /\ risk'.dir = risk.dir
        BY <3>1, <1>2, RiskKept
      <3>4. TradeSound(t)
        BY <3>1, <3>2, <3>3, <1>5 DEF TradeSound, FractionSound, DirectionSound
      <3>5. run'[p] = [Idle EXCEPT !.trade = t]
        BY <1>2, <3>1 DEF Becomes
      <3>6. ~run'[p].assessed /\ ~run'[p].alone /\ run'[p].trade = t
        BY <3>5 DEF Idle
      <3> QED BY <3>4, <3>6 DEF RunSound, LateSound
    <2> QED BY <2>1, <2>2
  <1>24. CASE Emergency
    BY <1>5, <1>24 DEF Emergency, RunSound, FractionSound
  <1>25. CASE Switch \/ UNCHANGED pipelineVars
    BY <1>4, <1>25 DEF Switch, pipelineVars
  <1>26. (\E q \in Pipelines : Start(q) \/ Advance(q)) =>
           Start(p) \/ Advance(p) \/ (\E q \in Pipelines \ {p} : Start(q) \/ Advance(q))
    OBVIOUS
  <1> QED BY <1>3, <1>9, <1>10, <1>11, <1>12, <1>14, <1>15, <1>16, <1>17, <1>18, <1>19, <1>20,
             <1>21, <1>22, <1>23, <1>24, <1>25, <1>26, <1>30, <1>32 DEF PipelineNext, Advance

LEMMA PipelineInvariant == PipelineSpec => []PipelineInv
  <1>1. PipelineInit => PipelineInv
    <2> SUFFICES ASSUME PipelineInit PROVE PipelineInv
      OBVIOUS
    <2>1. signals \in Signals /\ risk \in RiskRecords /\ run \in [Pipelines -> Runs]
      BY Shapes DEF PipelineInit, Signals, Directions, RiskRecords
    <2>2. PipelineShape
      BY <2>1, ShapeIs DEF PipelineInit, Flags
    <2>3. \A p \in Traders : RunSound(run[p], signals, risk, emergency)
      BY IdleSound DEF PipelineInit, Pipelines
    <2> QED BY <2>2, <2>3, InvIs
  <1> QED BY <1>1, PipelineStep, PTL DEF PipelineSpec

\* Whoever else works on the context and whatever is left in it: what the auto
\* trader opens at the end of a run that nobody cut into was put to the debate
\* in that very run, and the debate's confidence was still the last word.
THEOREM TradesAreDebated == PipelineSpec => []DebatedBeforeTraded
  <1>1. PipelineInv => DebatedBeforeTraded
    BY DEF PipelineInv
  <1> QED BY <1>1, PipelineInvariant, PTL

\* And its direction is the one decided on, and the one the risk skill assessed
\* if it gave an answer in that run.
THEOREM RiskIsForTheSignal == PipelineSpec => []RiskMatchesSignal
  <1>1. PipelineInv => RiskMatchesSignal
    BY DEF PipelineInv
  <1> QED BY <1>1, PipelineInvariant, PTL
=============================================================================
