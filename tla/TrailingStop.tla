---------------------------- MODULE TrailingStop ----------------------------
(***************************************************************************)
(* trading/trailing_stop.py and the part of trading/signal_executor.py     *)
(* that applies it: one open trade, the stop the engine keeps for it in    *)
(* memory and the stop the database keeps.  Prices are whole pips.  An     *)
(* action ends at an `await`, so a storage error (Abort) or a crash may    *)
(* separate the stop in memory from the one in the database.               *)
(***************************************************************************)
EXTENDS Integers

CONSTANTS Prices,         \* the prices a tick may show
          Entry, InitStops,
          Target,         \* distance of the take profit from the entry
          Trail,          \* trail_distance: 15 pips
          Breakeven,      \* breakeven_pips: 15 pips
          MaxRestarts        \* bound of the model

ASSUME PriceAssumption ==
  /\ Prices \subseteq Int /\ InitStops \subseteq Int
  /\ Entry \in Int /\ Target \in Nat
ASSUME EngineAssumption ==
  Trail \in Nat /\ Breakeven \in Nat /\ MaxRestarts \in Nat

VARIABLES
  direction,   \* "BUY" or "SELL"
  row,         \* trading_signals: is the signal "open" or "closed"?
  dbStop,      \* its stop_loss column
  initial, stop, extreme,  \* TrailingState: its prices
  flags,       \* ... and which of trail_active, moved_to_breakeven and
               \* partial_exit_done are set
  pc, tick,    \* where _on_tick is ("down": no process), the price it handles
  sl,          \* its local: the stop it compares the price with
  best,        \* history: the best price a finished tick has seen
  outcome,     \* history: how the last tick ended
  mishaps,     \* history: which of "storage_error" and "partial_exit" happened
  unsaved,     \* history: the engine has moved its stop since it was last
               \* written or loaded, and nobody is about to write it
  restarts

engineVars == <<initial, stop, extreme, flags>>
dbVars     == <<row, dbStop>>
tickVars   == <<pc, tick, sl>>
histVars   == <<best, outcome>>
runVars    == <<mishaps, unsaved, restarts>>
stopVars == <<direction, dbVars, engineVars, tickVars, histVars, runVars>>

\* Which of two prices is the better one for the trade, and by how much.
Better(p, q) == IF direction = "BUY" THEN p > q ELSE p < q
Gain(p) == IF direction = "BUY" THEN p - Entry ELSE Entry - p
\* The price d pips worse than p, the price d pips better than p.
Behind(p, d) == IF direction = "BUY" THEN p - d ELSE p + d
Ahead(p, d)  == IF direction = "BUY" THEN p + d ELSE p - d
-----------------------------------------------------------------------------
(***************************************************************************)
(* TrailingStopEngine                                                      *)
(***************************************************************************)

\* register_trade, by open_signal or, after a restart, by initialize
Register(from) == /\ initial' = from /\ stop' = from
                  /\ extreme' = Entry
                  /\ flags' = {}

\* The watermark after price p
StaleExtreme(p) == extreme  \* mutant: the watermark is never moved
Extreme(p) == IF Better(p, extreme) THEN p ELSE extreme

ImprovesNot(new, old) == TRUE  \* mutant: "only move in favourable direction" dropped
Improves(new, old) == Better(new, old)

\* _calculate_new_stop for the chandelier method, applied if it is better
Trailed(p) == LET new == Behind(Extreme(p), Trail)
              IN  IF Improves(new, stop) THEN new ELSE stop

LosingStop == Behind(Entry, 1)  \* mutant: the signs of the buffer swapped
BreakevenStop == Ahead(Entry, 1)

\* _check_breakeven: the entry and one pip, once Breakeven pips are reached
Secured(p, old) == "breakeven" \notin flags /\ Gain(p) >= Breakeven /\ Better(BreakevenStop, old)

\* update(): the stop after price p, and whether it moved
NewStop(p) == IF Secured(p, Trailed(p)) THEN BreakevenStop ELSE Trailed(p)

\* trail_activation_pips is 0: nothing moves before the trade is at its entry.
Gated(p) == "active" \notin flags /\ Gain(p) < 0

Update(p) ==
  IF Gated(p) THEN UNCHANGED engineVars
  ELSE /\ extreme' = Extreme(p)
       /\ stop' = NewStop(p)
       /\ flags' = flags \cup {"active"}
                    \cup (IF Secured(p, Trailed(p)) THEN {"breakeven"} ELSE {})
       /\ UNCHANGED initial

StopPips == IF Entry > initial THEN Entry - initial ELSE initial - Entry

\* check_partial_exit at price p: half is closed at 1:1, the stop goes to the
\* entry and one pip, whatever it was
PartialExit(p) ==
  /\ row = "open" /\ pc = "idle" /\ "partial" \notin flags
  /\ Gain(p) >= StopPips
  /\ stop' = BreakevenStop
  /\ flags' = flags \cup {"partial", "breakeven"}
  /\ mishaps' = mishaps \cup {"partial_exit"} /\ unsaved' = TRUE
  /\ UNCHANGED <<direction, dbVars, initial, extreme, tickVars, histVars, restarts>>
-----------------------------------------------------------------------------
\* A trade has just been opened and registered.
StopInit ==
  /\ direction \in {"BUY", "SELL"}
  /\ initial \in InitStops /\ Better(Entry, initial)
  /\ row = "open" /\ dbStop = initial
  /\ stop = initial /\ extreme = Entry /\ flags = {}
  /\ pc = "idle" /\ tick = Entry /\ sl = initial
  /\ best = Entry /\ outcome = "none"
  /\ mishaps = {} /\ unsaved = FALSE /\ restarts = 0

(***************************************************************************)
(* _on_tick                                                                *)
(***************************************************************************)

\* get_open_signals
TickRead(p) ==
  /\ pc = "idle" /\ row = "open"
  /\ pc' = "read" /\ tick' = p /\ sl' = dbStop /\ outcome' = "none"
  /\ UNCHANGED <<direction, dbVars, engineVars, best, runVars>>

Hit(p, s) == ~Better(p, s) \/ ~Better(Ahead(Entry, Target), p)

\* The exit condition with the stop s: the trade is closed, or left open.
ExitCheck(s) ==
  /\ row' = IF Hit(tick, s) THEN "closed" ELSE "open"
  /\ outcome' = IF Hit(tick, s) THEN "closed" ELSE "held"
  /\ best' = IF Better(tick, best) THEN tick ELSE best
  /\ pc' = "idle"

\* update() in memory; a stop that moved is written first
MustWriteFar(p) ==  \* mutant: a move of one pip is not worth an UPDATE
  ~Gated(p) /\ NewStop(p) # stop /\ Better(Behind(NewStop(p), 1), sl)
MustWrite(p) == ~Gated(p) /\ NewStop(p) # stop /\ NewStop(p) # sl

TickTrail ==
  /\ pc = "read"
  /\ Update(tick)
  /\ IF MustWrite(tick)
       THEN /\ pc' = "writing"
            /\ UNCHANGED <<row, histVars>>
       ELSE ExitCheck(sl)
  /\ UNCHANGED <<direction, dbStop, tick, sl, runVars>>

\* update_signal_sl (and update_trade_journal_sl, see JournalLink)
TickWrite ==
  /\ pc = "writing"
  /\ dbStop' = stop /\ unsaved' = FALSE
  /\ pc' = "written"
  /\ UNCHANGED <<direction, row, engineVars, tick, sl, histVars, mishaps, restarts>>

\* sl = new_stop, then the exit condition
TickCheck ==
  /\ pc = "written"
  /\ sl' = stop
  /\ ExitCheck(stop)
  /\ UNCHANGED <<direction, dbStop, engineVars, tick, runVars>>

\* A storage call raises and _on_tick with it.
Abort ==
  /\ pc \notin {"idle", "down"}
  /\ pc' = "idle" /\ outcome' = "raised"
  /\ mishaps' = mishaps \cup {"storage_error"}
  /\ unsaved' = (unsaved \/ pc = "writing")
  /\ UNCHANGED <<direction, dbVars, engineVars, tick, sl, best, restarts>>

Crash ==
  /\ pc # "down" /\ restarts < MaxRestarts
  /\ pc' = "down" /\ restarts' = restarts + 1
  /\ UNCHANGED <<direction, dbVars, engineVars, tick, sl, histVars, mishaps, unsaved>>

Restored == dbStop

\* initialize(): registered again with what the database holds
StopRestart ==
  /\ pc = "down" /\ pc' = "idle"
  /\ Register(Restored) /\ unsaved' = FALSE
  /\ UNCHANGED <<direction, dbVars, tick, sl, histVars, mishaps, restarts>>

StopNext == \/ \E p \in Prices : TickRead(p) \/ PartialExit(p)
        \/ TickTrail \/ TickWrite \/ TickCheck
        \/ Abort \/ Crash \/ StopRestart

StopSpec == StopInit /\ [][StopNext]_stopVars
-----------------------------------------------------------------------------
StopTypeOK ==
  /\ direction \in {"BUY", "SELL"}
  /\ row \in {"open", "closed"} /\ dbStop \in Int
  /\ initial \in Int /\ stop \in Int /\ extreme \in Int
  /\ flags \subseteq {"active", "breakeven", "partial"}
  /\ pc \in {"idle", "read", "writing", "written", "down"}
  /\ tick \in Int /\ sl \in Int
  /\ best \in Int /\ outcome \in {"none", "held", "closed", "raised"}
  /\ mishaps \subseteq {"storage_error", "partial_exit"} /\ unsaved \in BOOLEAN
  /\ restarts \in Nat

\* The stored stop only ever moves in the trade's favour, over storage errors
\* and restarts as well ("Only move stop in favorable direction"); a partial exit
\* may set it back, in the life of one process, but never behind the entry.
StopNeverRetreats ==
  [][Better(dbStop, dbStop') => "partial" \in flags /\ Gain(dbStop') > 0]_stopVars

\* A trade is never left open at a price its own trailing stop excludes, unless
\* that stop never reached the database: a failed UPDATE is made good by the
\* next one, or by a restart.
StopHonoured ==
  pc = "idle" /\ outcome = "held" /\ ~unsaved => Better(tick, stop)

\* A trade said to be at break-even cannot lose any more: the stop that the
\* ticks close it at, the stored one, is beyond the entry.  It is not while a
\* partial exit or a failed UPDATE has left the move in memory only.
BreakevenSecures ==
  pc = "idle" /\ "breakeven" \in flags /\ ~unsaved => Gain(dbStop) > 0

\* The stored stop keeps within the trail distance of the best price a finished
\* tick has seen, though a restart forgets the watermark.
StopTracksBest ==
  row = "open" /\ best # Entry /\ mishaps = {} => ~Better(Behind(best, Trail), dbStop)

\* What a stop was moved for, of the stop that counts: it keeps within the trail
\* distance of the best price, and once break-even is stored no exit loses.
StopSound == StopTracksBest /\ BreakevenSecures

(***************************************************************************)
(* Why the stored stop never retreats: what is written is the engine's     *)
(* stop, and that is never behind the stored one but after a partial exit, *)
(* and then beyond the entry.                                              *)
(***************************************************************************)
EngineAhead == pc # "down" /\ "partial" \notin flags => ~Better(dbStop, stop)

EngineSecures ==
  pc # "down" => /\ "breakeven" \in flags => Gain(stop) > 0
                 /\ "partial" \in flags => "breakeven" \in flags /\ "partial_exit" \in mishaps

StopInv == StopTypeOK /\ EngineAhead /\ EngineSecures

(***************************************************************************)
(* Why it is honoured: unless a move is unsaved the two stops are equal    *)
(* whenever a tick reads one of them.                                      *)
(***************************************************************************)
InSync ==
  /\ pc = "written" => ~unsaved /\ dbStop = stop
  /\ pc \in {"idle", "read"} /\ ~unsaved => dbStop = stop
  /\ pc = "read" => sl = dbStop
  /\ pc \in {"read", "writing", "written"} => outcome = "none"
  /\ outcome = "held" => Better(tick, dbStop)

HonouredInv == StopInv /\ InSync

(***************************************************************************)
(* Why it tracks the best price: no price seen before the trail is active  *)
(* is a best one, and a stop on its way to the database covers the price   *)
(* of the tick that moved it.                                              *)
(***************************************************************************)
Tracking ==
  /\ ~unsaved
  /\ ~Better(Entry, best)
  /\ best # Entry => ~Better(Behind(best, Trail), dbStop)
  /\ pc \in {"writing", "written"} => ~Better(Behind(tick, Trail), stop)

SoundInv == HonouredInv /\ (mishaps = {} => Tracking)
=============================================================================
