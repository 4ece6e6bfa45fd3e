---------------------------- MODULE RiskManager ----------------------------
(***************************************************************************)
(* trading/risk_manager.py, and the two managers the program has of it.    *)
(* The signal executor makes one of its own (signal_executor.py:34): it is *)
(* told of every trade, saves itself and is loaded again.  The container   *)
(* makes another (container.py:145), which is given to the risk skill: it  *)
(* is asked to assess trades, and is told of nothing.                      *)
(*   A result changes the executor's manager at once; the save of what was *)
(* then in memory is awaited, with other closings, a cancellation or a     *)
(* crash in between.  Stops and sizes are TradeSizing's subject.           *)
(***************************************************************************)
EXTENDS Integers

CONSTANTS Calls,            \* close_signal calls under way at a time
          Pnls,             \* what a closed trade may bring
          DailyLimit, WeeklyLimit, MonthlyLimit,  \* loss that stops trading
          MaxOpen,          \* max_open_trades
          MaxLosses,        \* max_consecutive_losses
          DayTime, MonthDays,  \* how long a day is, and a month
          WeekTime,         \* ... and the rolling window of a week
          MaxTime, MaxTrades, MaxOpened, MaxCrash,  \* bounds of the model: how long,
          AssessAt          \* results, open trades and crashes; when trades are assessed

ASSUME RiskAssumption ==
  /\ Pnls \subseteq Int
  /\ {DailyLimit, WeeklyLimit, MonthlyLimit, MaxOpen, MaxLosses} \subseteq Nat \ {0}
  /\ {DayTime, WeekTime, MonthDays} \subseteq Nat \ {0}
  /\ {MaxTime, MaxTrades, MaxOpened, MaxCrash} \subseteq Nat

Time == 0 .. MaxTime
NoDate == -1  \* "" or None: the window has not been started

Manager == [daily : Int, dailyOn : Nat \cup {NoDate}, weekly : Int,
            weekFrom : Time \cup {NoDate}, monthly : Int,
            monthOn : Nat \cup {NoDate}, losses : Nat, open : Nat]

\* History: what a set of results comes to today, this month and since each
\* instant, how many of the last were losses in a row, and how many they are.
Ledger == [today : Int, month : Int, since : [Time -> Int], streak : Nat, n : Nat]

VARIABLES
  now,      \* the time; days and months are counted from the first
  day, month,
  gate,     \* the manager that assesses, the container's
  mgr,      \* the manager that is told, the executor's
  saved,    \* risk_manager_state in the database: {}, or what was saved last
  calls,    \* where each closing call is, with what it is saving
  book,     \* history: the results mgr has counted; copied when mgr is
  truth,    \* history: all results it was told
  slips,  \* history: what may have lost one of them
  crashes

clock == <<now, day, month>>
vars == <<clock, gate, mgr, saved, calls, book, truth, slips, crashes>>

Fresh == [daily |-> 0, dailyOn |-> NoDate, weekly |-> 0, weekFrom |-> NoDate,
          monthly |-> 0, monthOn |-> NoDate, losses |-> 0, open |-> 0]
Nothing == [today |-> 0, month |-> 0, since |-> [t \in Time |-> 0], streak |-> 0, n |-> 0]

\* A manager and the results that are in it
Copies == [m : Manager, book : Ledger]
NoCall == [at |-> "none", copy |-> [m |-> Fresh, book |-> Nothing]]

\* Seven days from an instant, whatever the calendar
WeekRuns(m) == m.weekFrom # NoDate /\ now - m.weekFrom < WeekTime

\* A window that is over starts again, empty.
Rolled(m) ==
  [daily |-> IF m.dailyOn = day THEN m.daily ELSE 0, dailyOn |-> day,
   weekly |-> IF WeekRuns(m) THEN m.weekly ELSE 0,
   weekFrom |-> IF WeekRuns(m) THEN m.weekFrom ELSE now,
   monthly |-> IF m.monthOn = month THEN m.monthly ELSE 0, monthOn |-> month,
   losses |-> m.losses, open |-> m.open]

\* The checks of assess_trade
Approves(m) == /\ m.daily > -DailyLimit
               /\ m.weekly > -WeeklyLimit
               /\ m.monthly > -MonthlyLimit
               /\ m.open < MaxOpen
               /\ m.losses < MaxLosses

KeptNoStreak(m) == [m EXCEPT !.losses = 0]  \* mutant: a figure is not in the dictionary
\* The dictionary of save_state holds all the figures and where their windows began.
Kept(m) == m

LoadedOldMonth(s) == [Rolled(s) EXCEPT !.monthly = s.monthly]  \* mutant: any month
\* load_state: a window of the past is not carried over
Loaded(s) ==
  [Rolled(s) EXCEPT !.weekly = IF s.weekFrom = NoDate THEN s.weekly ELSE @]
-----------------------------------------------------------------------------
Init == /\ now = 0 /\ day = 0 /\ month = 0
        /\ gate = Fresh /\ mgr = Fresh /\ saved = {}
        /\ calls = [c \in Calls |-> NoCall]
        /\ book = Nothing /\ truth = Nothing /\ slips = {} /\ crashes = 0

Midnight == (now + 1) % DayTime = 0
MonthEnds == Midnight /\ (day + 1) % MonthDays = 0

\* What the same results come to an instant later
Aged(b) == [b EXCEPT !.today = IF Midnight THEN 0 ELSE @,
                     !.month = IF MonthEnds THEN 0 ELSE @]

TimePasses ==
  /\ now < MaxTime /\ now' = now + 1
  /\ day' = IF Midnight THEN day + 1 ELSE day
  /\ month' = IF MonthEnds THEN month + 1 ELSE month
  /\ book' = Aged(book) /\ truth' = Aged(truth)
  /\ saved' = {[s EXCEPT !.book = Aged(@)] : s \in saved}
  /\ calls' = [c \in Calls |-> [calls[c] EXCEPT !.copy.book = Aged(@)]]
  /\ UNCHANGED <<gate, mgr, slips, crashes>>

\* Whatever it answers, assess_trade starts the windows that are over.
AssessTrade == /\ now \in AssessAt /\ gate' = Rolled(gate)
               /\ UNCHANGED <<clock, mgr, saved, calls, book, truth, slips, crashes>>

\* on_trade_opened
TradeOpened == /\ mgr.open < MaxOpened
               /\ mgr' = [mgr EXCEPT !.open = @ + 1]
               /\ UNCHANGED <<clock, gate, saved, calls, book, truth, slips, crashes>>

AddedNoReset(m, pnl) == [m EXCEPT !.daily = @ + pnl, !.weekly = @ + pnl,
                                  !.monthly = @ + pnl,
                                  !.losses = IF pnl < 0 THEN @ + 1 ELSE @]  \* mutant
AddedTo(m, pnl) == [m EXCEPT !.daily = @ + pnl, !.weekly = @ + pnl,
                             !.monthly = @ + pnl,
                             !.losses = IF pnl < 0 THEN @ + 1 ELSE 0]

Booked(b, pnl) ==
  [today |-> b.today + pnl, month |-> b.month + pnl,
   since |-> [t \in Time |-> IF t <= now THEN b.since[t] + pnl ELSE b.since[t]],
   streak |-> IF pnl < 0 THEN b.streak + 1 ELSE 0, n |-> b.n + 1]

\* record_trade_result: memory is changed and what save_state is to write is put
\* together without a pause; then the write is awaited.
RecordTradeResult(c, pnl) ==
  /\ calls[c] = NoCall /\ truth.n < MaxTrades
  /\ mgr' = AddedTo(Rolled(mgr), pnl)
  /\ book' = Booked(book, pnl) /\ truth' = Booked(truth, pnl)
  /\ calls' = [calls EXCEPT ![c] = [at |-> "saving",
                                    copy |-> [m |-> Kept(mgr'), book |-> book']]]
  /\ UNCHANGED <<clock, gate, saved, slips, crashes>>

\* The write is done, perhaps after the write of a call that began later: each
\* has a connection of its own.
SaveState(c) ==
  /\ calls[c].at = "saving"
  /\ calls' = [calls EXCEPT ![c] = [NoCall EXCEPT !.at = "saved"]]
  /\ saved' = {calls[c].copy}
  /\ slips' = IF \E s \in saved : s.book.n > calls[c].copy.book.n
                  THEN slips \cup {"overtaken"} ELSE slips
  /\ UNCHANGED <<clock, gate, mgr, book, truth, crashes>>

Dec(n) == IF n > 0 THEN n - 1 ELSE 0

\* on_trade_closed, once save_state is back
TradeClosed(c) ==
  /\ calls[c].at = "saved" /\ calls' = [calls EXCEPT ![c] = NoCall]
  /\ mgr' = [mgr EXCEPT !.open = Dec(@)]
  /\ UNCHANGED <<clock, gate, saved, book, truth, slips, crashes>>

Saving == {c \in Calls : calls[c].at = "saving"}

\* The call is cancelled at an await, before or after its write.
CutOff(c) ==
  /\ calls[c] # NoCall /\ calls' = [calls EXCEPT ![c] = NoCall]
  /\ slips' = IF c \in Saving THEN slips \cup {"cut off"} ELSE slips
  /\ UNCHANGED <<clock, gate, mgr, saved, book, truth, crashes>>

\* The process dies, and in the next one the executor's manager is loaded.
Restart ==
  /\ crashes < MaxCrash /\ crashes' = crashes + 1
  /\ \/ saved = {} /\ mgr' = Fresh /\ book' = Nothing
     \/ \E s \in saved : mgr' = Loaded(s.m) /\ book' = s.book
  /\ gate' = Fresh /\ calls' = [c \in Calls |-> NoCall]
  /\ slips' = IF Saving # {} THEN slips \cup {"crashed"} ELSE slips
  /\ UNCHANGED <<clock, saved, truth>>

Close(c) == \/ SaveState(c) \/ TradeClosed(c) \/ CutOff(c)
            \/ \E pnl \in Pnls : RecordTradeResult(c, pnl)

Next == \/ TimePasses \/ AssessTrade \/ TradeOpened \/ Restart
        \/ \E c \in Calls : Close(c)

Spec == Init /\ [][Next]_vars
-----------------------------------------------------------------------------
TypeOK == /\ now \in Time /\ day \in Nat /\ month \in Nat
          /\ gate \in Manager /\ mgr \in Manager /\ saved \subseteq Copies
          /\ calls \in [Calls -> [at : {"none", "saving", "saved"}, copy : Copies]]
          /\ book \in Ledger /\ truth \in Ledger
          /\ slips \subseteq {"overtaken", "cut off", "crashed"} /\ crashes \in Nat

\* The figures of a manager are what the results come to, each in its window.
Exact(m, b) == /\ m.daily = b.today /\ m.monthly = b.month
               /\ m.weekly = b.since[m.weekFrom] /\ m.losses = b.streak

\* What the executor's manager would be asked at any moment is exactly what the
\* results it counted come to, day, rolling week, month and streak: over any
\* order of midnights, results, lost saves and restarts no window mixes the
\* results of two, and what a crash loses is lost from all figures at once.
FiguresExact == Exact(Rolled(mgr), book)

\* Who would be loaded if the process died now
Resumed == IF saved = {} THEN {Fresh} ELSE {Loaded(s.m) : s \in saved}

\* No result is ever lost, in memory or for the next process once no save is
\* under way, unless a call was cancelled while it saved, the process died
\* then, or a save was overtaken by an older one.
ResultsKept ==
  slips = {} => /\ Exact(Rolled(mgr), truth)
                  /\ Saving = {} => \A m \in Resumed : Exact(Rolled(m), truth)

\* "Max daily loss %", "Max simultaneous positions", "Pause after N consecutive
\* losses" (RiskConfig): once a limit is reached, an assessment refuses.
LimitsHold ==
  \/ truth.today <= -DailyLimit \/ mgr.open >= MaxOpen \/ truth.streak >= MaxLosses
  => ~Approves(Rolled(gate))

(***************************************************************************)
(* Why the figures are exact: they are saved together with the windows     *)
(* they belong to, no window of the past comes back, and one that is not   *)
(* running has had no result.                                              *)
(***************************************************************************)
Agrees(m, b) ==
  /\ m.dailyOn <= day /\ m.monthOn <= month /\ m.weekFrom <= now
  /\ IF m.dailyOn = day THEN m.daily = b.today ELSE b.today = 0
  /\ IF m.monthOn = month THEN m.monthly = b.month ELSE b.month = 0
  /\ IF WeekRuns(m) THEN m.weekly = b.since[m.weekFrom] ELSE b.since[now] = 0
  /\ m.losses = b.streak
  /\ \A t \in Time : t > now => b.since[t] = 0

CopySound(s) == Agrees(s.m, s.book) /\ s.m.weekFrom # NoDate

WindowInv ==
  /\ TypeOK
  /\ Agrees(mgr, book)
  /\ \A s \in saved : CopySound(s)
  /\ \A c \in Calls : calls[c].at = "saving" => CopySound(calls[c].copy)

(***************************************************************************)
(* Why none is lost: the copy with all of them is saved or being saved.    *)
(***************************************************************************)
NotAhead(b, t) == b.n <= t.n /\ (b.n = t.n => b = t)

KeptInv ==
  slips = {} =>
    /\ book = truth
    /\ \A s \in saved : NotAhead(s.book, truth)
    /\ \A c \in Saving : NotAhead(calls[c].copy.book, truth)
    /\ \/ saved = {} /\ truth = Nothing
       \/ saved # {} /\ \A s \in saved : s.book = truth
       \/ \E c \in Saving : calls[c].copy.book = truth
=============================================================================
