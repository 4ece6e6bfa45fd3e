--------------------------- MODULE TradeExecution ---------------------------
(***************************************************************************)
(* trading/signal_executor.py over data/storage.py: how a trade is opened, *)
(* watched, closed and recovered.  Every asyncio task runs until an        *)
(* `await`; an action here is the code between two awaits together with    *)
(* the storage call it ends in, so any other task, a timeout or a crash    *)
(* may come between two actions of one call.                               *)
(***************************************************************************)
EXTENDS Integers, FiniteSets

CONSTANTS Openers,     \* tasks that call open_signal
          Closers,     \* tasks that call close_signal directly (close_trade)
          Tickers,     \* tasks that call _on_tick, under _tick_lock
          Checkers,    \* tasks that call check_signals, under no lock
          CronLocked,  \* the tasks the scheduler runs under its _trade_lock
          Early,       \* tasks that may start while initialize() is running
          MayAbort,    \* the tasks a timeout or a storage error may end
          Live,        \* TRUE: orders go to a broker, FALSE: paper trading
          ReadLimit,   \* LIMIT of Storage.get_signals
          MaxSig, MaxTx, MaxCrash,  \* bounds of the model
          NoTask

Task     == Openers \cup Closers \cup Tickers \cup Checkers
Scanners == Tickers \cup Checkers
Sig      == 1 .. MaxSig
TxId     == 1 .. MaxTx

ASSUME TaskAssumption ==
  /\ Openers \cap (Closers \cup Scanners) = {}
  /\ Closers \cap Scanners = {}
  /\ Tickers \cap Checkers = {}
  /\ NoTask \notin Task
ASSUME BoundAssumption == MaxSig \in Nat /\ MaxTx \in Nat /\ MaxCrash \in Nat
ASSUME ModeAssumption == Live \in BOOLEAN /\ ReadLimit \in Nat \ {0}

VARIABLES
  \* the database
  status,      \* trading_signals: id -> status ("none": no such row yet)
  tx,          \* transaction_logs: id -> [kind, sig, st]
  savedCount,  \* risk_manager_state: the open_trade_count last saved
  \* the broker
  positions,   \* the open_trade transactions the broker has filled
  \* the process
  phase,       \* "down", or where initialize() is, or "up"
  openCount,   \* RiskManager._open_trade_count
  tracked,     \* keys of TrailingStopEngine._trades
  tickLock,    \* holder of SignalExecutor._tick_lock
  tradeLock,   \* holder of CronScheduler._trade_lock
  toLoad,      \* the saved count load_state has read
  toRestore,   \* the open signals initialize has read
  toRecover,   \* transactions _recover_inflight_transactions still has to do
  pc,          \* where each task is
  txOf, sigOf, \* its transaction, and the signal it works on
  todo,        \* the open signals a scan has still to look at
  snap,        \* the count captured by save_state and not yet written
  \* history
  results,     \* how often record_trade_result ran for a signal
  dropped,     \* transactions whose call a timeout or an error ended
  unwatched,   \* trades this process has not told the trailing engine of: their
               \* opening was cut off before it, or initialize() left them out
  crashes

dbVars   == <<status, tx, savedCount, positions>>
memVars  == <<openCount, tracked>>
lockVars == <<tickLock, tradeLock>>
readVars == <<toLoad, toRestore, toRecover>>
bootVars == <<phase, readVars, crashes>>
callVars == <<txOf, sigOf, todo, snap>>
histVars == <<results, dropped, unwatched>>
vars == <<dbVars, memVars, lockVars, bootVars, pc, callVars, histVars>>

NoTx == 0
TxRow == [kind : {"open_trade", "close_trade"}, sig : 0 .. MaxSig,
          st : {"none", "pending", "completed", "failed", "pending_retry"}]
NoRow == [kind |-> "open_trade", sig |-> 0, st |-> "none"]

OpenPcs  == {"logged", "filled", "saved", "registered"}
ClosePcs == {"closing", "found", "missing", "marked", "committed", "recorded",
             "persisted"}
Pcs      == {"idle", "ready", "scan"} \cup OpenPcs \cup ClosePcs

\* Storage.get_signals(status="open"): the ReadLimit newest open rows.
OpenSignals == {s \in Sig : status[s] = "open"}
VisibleOpen == {s \in OpenSignals :
                  Cardinality({r \in OpenSignals : r > s}) < ReadLimit}

\* AUTOINCREMENT: the next row is the first unused id.
FreshSig(s) == /\ status[s] = "none"
               /\ \A r \in Sig : r < s => status[r] # "none"
FreshTx(x)  == /\ tx[x].st = "none"
               /\ \A y \in TxId : y < x => tx[y].st # "none"
-----------------------------------------------------------------------------
Init ==
  /\ status = [s \in Sig |-> "none"]
  /\ tx = [x \in TxId |-> NoRow]
  /\ savedCount = 0
  /\ positions = {}
  /\ phase = "down" /\ crashes = 0
  /\ toLoad = 0 /\ toRestore = {} /\ toRecover = {}
  /\ openCount = 0 /\ tracked = {}
  /\ tickLock = NoTask /\ tradeLock = NoTask
  /\ pc = [t \in Task |-> "idle"]
  /\ txOf = [t \in Task |-> NoTx] /\ sigOf = [t \in Task |-> 0]
  /\ todo = [t \in Task |-> {}] /\ snap = [t \in Task |-> 0]
  /\ results = [s \in Sig |-> 0] /\ dropped = {} /\ unwatched = {}

(***************************************************************************)
(* Steps every call is built from.                                         *)
(***************************************************************************)
Goto(t, l) == pc' = [pc EXCEPT ![t] = l]

SetTx(x, st) == tx' = [tx EXCEPT ![x].st = st]

ReleaseAny(t) == /\ tickLock' = NoTask  \* mutant: frees a lock it does not hold
                 /\ tradeLock' = IF tradeLock = t THEN NoTask ELSE tradeLock
\* The call returns: the scheduler's lock and the tick lock are let go.
Release(t) == /\ tickLock' = IF tickLock = t THEN NoTask ELSE tickLock
              /\ tradeLock' = IF tradeLock = t THEN NoTask ELSE tradeLock

\* The locals of a call are gone when it is over.
Clear(t) == /\ txOf' = [txOf EXCEPT ![t] = NoTx]
            /\ sigOf' = [sigOf EXCEPT ![t] = 0]
            /\ snap' = [snap EXCEPT ![t] = 0]

Return(t) == /\ Goto(t, "idle") /\ Release(t)
             /\ Clear(t) /\ todo' = [todo EXCEPT ![t] = {}]

\* close_signal returns to the loop of its scan, or to its caller.
CloseReturns(t) ==
  IF t \in Scanners THEN Goto(t, "scan") /\ Clear(t) /\ UNCHANGED <<lockVars, todo>>
                    ELSE Return(t)

MayEnter(t) == t \in CronLocked => tradeLock = NoTask

\* Bound of the model: no opener or closer starts with the log full.
Room(t) == t \in Scanners \/ \E x \in TxId : tx[x].st = "none"

\* A call begins; auto_trader and trade_monitor first take _trade_lock.
Begin(t) ==
  /\ pc[t] = "idle"
  /\ phase = "up" \/ (t \in Early /\ phase # "down")
  /\ MayEnter(t) /\ Room(t)
  /\ tradeLock' = IF t \in CronLocked THEN t ELSE tradeLock
  /\ Goto(t, "ready")
  /\ UNCHANGED <<dbVars, memVars, tickLock, bootVars, callVars, histVars>>

\* storage.log_transaction(kind, ..., "pending")
LogTx(t, kind, s, next) ==
  \E x \in TxId :
    /\ FreshTx(x)
    /\ tx' = [tx EXCEPT ![x] = [kind |-> kind, sig |-> s, st |-> "pending"]]
    /\ txOf' = [txOf EXCEPT ![t] = x]
    /\ sigOf' = [sigOf EXCEPT ![t] = s]
    /\ Goto(t, next)

(***************************************************************************)
(* open_signal                                                             *)
(***************************************************************************)
LogOpen(t) ==
  /\ t \in Openers /\ pc[t] = "ready"
  /\ LogTx(t, "open_trade", 0, "logged")
  /\ UNCHANGED <<status, savedCount, positions, memVars, lockVars, bootVars,
                 todo, snap, histVars>>

\* Spread gates, a rejected paper fill, no broker, or a refused order.
RejectOpen(t) ==
  /\ pc[t] = "logged"
  /\ SetTx(txOf[t], "failed")
  /\ Return(t)
  /\ UNCHANGED <<status, savedCount, positions, memVars, bootVars,
                 histVars>>

\* broker.execute_trade: the broker fills before the coroutine resumes.
BrokerFill(t) ==
  /\ Live /\ pc[t] = "logged"
  /\ positions' = positions \cup {txOf[t]}
  /\ Goto(t, "filled")
  /\ UNCHANGED <<status, tx, savedCount, memVars, lockVars, bootVars, callVars,
                 histVars>>

FilledAnyway(t) == pc[t] \in {"logged", "filled"}  \* mutant: ignores the broker's answer
Filled(t) == pc[t] = IF Live THEN "filled" ELSE "logged"

\* storage.save_signal: the row is committed, the coroutine not yet resumed.
\* The signal is also noted on the transaction, for the properties alone.
SaveSignal(t) ==
  /\ t \in Openers /\ Filled(t)
  /\ \E s \in Sig :
       /\ FreshSig(s)
       /\ status' = [status EXCEPT ![s] = "open"]
       /\ sigOf' = [sigOf EXCEPT ![t] = s]
       /\ tx' = [tx EXCEPT ![txOf[t]].sig = s]
  /\ Goto(t, "saved")
  /\ UNCHANGED <<savedCount, positions, memVars, lockVars, bootVars, txOf, todo,
                 snap, histVars>>

\* trailing_engine.register_trade and risk_manager.on_trade_opened
Register(t) ==
  /\ pc[t] = "saved"
  /\ tracked' = tracked \cup {sigOf[t]}
  /\ openCount' = openCount + 1
  /\ Goto(t, "registered")
  /\ UNCHANGED <<dbVars, lockVars, bootVars, callVars, histVars>>

CompleteOpen(t) ==
  /\ pc[t] = "registered"
  /\ SetTx(txOf[t], "completed")
  /\ Return(t)
  /\ UNCHANGED <<status, savedCount, positions, memVars, bootVars,
                 histVars>>
-----------------------------------------------------------------------------
(***************************************************************************)
(* close_signal                                                            *)
(***************************************************************************)
LogClose(t, s) ==
  /\ t \in Closers /\ pc[t] = "ready"
  /\ LogTx(t, "close_trade", s, "closing")
  /\ UNCHANGED <<status, savedCount, positions, memVars, lockVars, bootVars,
                 todo, snap, histVars>>

\* get_signals(status="open") and the search for the id in what it returned
FindSignal(t) ==
  /\ pc[t] = "closing"
  /\ Goto(t, IF sigOf[t] \in VisibleOpen THEN "found" ELSE "missing")
  /\ UNCHANGED <<dbVars, memVars, lockVars, bootVars, callVars, histVars>>

RejectClose(t) ==
  /\ pc[t] = "missing"
  /\ SetTx(txOf[t], "failed")
  /\ CloseReturns(t)
  /\ UNCHANGED <<status, savedCount, positions, memVars, bootVars,
                 histVars>>

\* update_signal_status(id, "closed"): an UPDATE by id, whatever the row holds
MarkClosed(t) ==
  /\ pc[t] = "found"
  /\ status' = [status EXCEPT ![sigOf[t]] = "closed"]
  /\ Goto(t, "marked")
  /\ UNCHANGED <<tx, savedCount, positions, memVars, lockVars, bootVars,
                 callVars, histVars>>

CompleteClose(t) ==
  /\ pc[t] = "marked"
  /\ SetTx(txOf[t], "completed")
  /\ Goto(t, "committed")
  /\ UNCHANGED <<status, savedCount, positions, memVars, lockVars, bootVars,
                 callVars, histVars>>

\* record_trade_result up to the await of save_state, which has by then
\* copied _open_trade_count into the state it will write
RecordResult(t) ==
  /\ pc[t] = "committed"
  /\ results' = [results EXCEPT ![sigOf[t]] = @ + 1]
  /\ snap' = [snap EXCEPT ![t] = openCount]
  /\ Goto(t, "recorded")
  /\ UNCHANGED <<dbVars, memVars, lockVars, bootVars, txOf, sigOf, todo, dropped,
                 unwatched>>

SaveRiskState(t) ==
  /\ pc[t] = "recorded"
  /\ savedCount' = snap[t]
  /\ Goto(t, "persisted")
  /\ UNCHANGED <<status, tx, positions, memVars, lockVars, bootVars, callVars,
                 histVars>>

Dec(n) == IF n > 0 THEN n - 1 ELSE 0

Untracked(s) == tracked \ {s}

\* trailing_engine.remove_trade and risk_manager.on_trade_closed
Forget(t) ==
  /\ pc[t] = "persisted"
  /\ tracked' = Untracked(sigOf[t])
  /\ openCount' = Dec(openCount)
  /\ CloseReturns(t)
  /\ UNCHANGED <<dbVars, bootVars, histVars>>

(***************************************************************************)
(* _on_tick and check_signals.  Which stop or target the price has reached *)
(* is the TrailingStop module's subject: here a scan may find any signal   *)
(* of its snapshot hit.                                                    *)
(***************************************************************************)
TickUnlocked(t) == TRUE  \* mutant: _on_tick without _tick_lock
TickFree(t) == t \in Tickers => tickLock = NoTask

BeginScan(t) ==
  /\ t \in Scanners /\ pc[t] = "ready"
  /\ TickFree(t)
  /\ tickLock' = IF t \in Tickers THEN t ELSE tickLock
  /\ todo' = [todo EXCEPT ![t] = VisibleOpen]
  /\ Goto(t, "scan")
  /\ UNCHANGED <<dbVars, memVars, tradeLock, bootVars, txOf, sigOf, snap, histVars>>

\* The newest signal left is not hit; its stop may have been moved.
ScanHold(t) ==
  /\ pc[t] = "scan"
  /\ \E s \in todo[t] :
       /\ \A r \in todo[t] : r <= s
       /\ todo' = [todo EXCEPT ![t] = @ \ {s}]
  /\ UNCHANGED <<dbVars, memVars, lockVars, bootVars, pc, txOf, sigOf, snap,
                 histVars>>

\* It is hit: close_signal is awaited inside the loop.
ScanExit(t) ==
  /\ pc[t] = "scan"
  /\ \E s \in todo[t] :
       /\ \A r \in todo[t] : r <= s
       /\ LogTx(t, "close_trade", s, "closing")
       /\ todo' = [todo EXCEPT ![t] = @ \ {s}]
  /\ UNCHANGED <<status, savedCount, positions, memVars, lockVars, bootVars,
                 snap, histVars>>

EndScan(t) ==
  /\ pc[t] = "scan" /\ todo[t] = {}
  /\ Return(t)
  /\ UNCHANGED <<dbVars, memVars, bootVars, histVars>>

(***************************************************************************)
(* A call ends early: safe_execute's or the scheduler's wait_for cancels   *)
(* it at an await, or a storage call raises.  `async with` frees its locks *)
(* and nothing is undone.                                                  *)
(***************************************************************************)
Abort(t) ==
  /\ t \in MayAbort /\ pc[t] # "idle"
  /\ Return(t)
  /\ dropped' = IF pc[t] \in {"ready", "scan"} THEN dropped
                                               ELSE dropped \cup {txOf[t]}
  /\ unwatched' = IF pc[t] = "saved" THEN unwatched \cup {sigOf[t]} ELSE unwatched
  /\ UNCHANGED <<dbVars, memVars, bootVars, results>>
-----------------------------------------------------------------------------
(***************************************************************************)
(* The process dies and starts again: initialize().  The API server was    *)
(* started before it, so Early requests can already arrive while it runs.  *)
(***************************************************************************)
\* What a process holds in memory is gone; so are the calls it was running.
ProcessGone ==
  /\ phase' = "down"
  /\ openCount' = 0 /\ tracked' = {}
  /\ tickLock' = NoTask /\ tradeLock' = NoTask
  /\ toLoad' = 0 /\ toRestore' = {} /\ toRecover' = {}
  /\ pc' = [t \in Task |-> "idle"]
  /\ txOf' = [t \in Task |-> NoTx] /\ sigOf' = [t \in Task |-> 0]
  /\ todo' = [t \in Task |-> {}] /\ snap' = [t \in Task |-> 0]
  /\ dropped' = {} /\ unwatched' = {}
  /\ UNCHANGED <<dbVars, results>>

Crash == /\ phase # "down" /\ crashes < MaxCrash
         /\ ProcessGone /\ crashes' = crashes + 1

\* A new SignalExecutor: fresh risk manager, trailing engine and locks.
Boot ==
  /\ phase = "down" /\ phase' = "loading"
  /\ UNCHANGED <<dbVars, memVars, lockVars, readVars, crashes, pc, callVars,
                 histVars>>

\* RiskManager.load_state reads what was saved ...
LoadState ==
  /\ phase = "loading" /\ phase' = "loaded"
  /\ toLoad' = savedCount
  /\ UNCHANGED <<dbVars, memVars, lockVars, toRestore, toRecover, crashes, pc,
                 callVars, histVars>>

\* ... and overwrites the counter with it; then the open signals are read ...
ApplyState ==
  /\ phase = "loaded" /\ phase' = "restoring"
  /\ openCount' = toLoad
  /\ toRestore' = VisibleOpen
  /\ unwatched' = unwatched \cup (OpenSignals \ VisibleOpen)
  /\ UNCHANGED <<dbVars, tracked, lockVars, toLoad, toRecover, crashes, pc,
                 callVars, results, dropped>>

PendingOpens == {x \in TxId : tx[x].st = "pending" /\ tx[x].kind = "open_trade"}  \* mutant
PendingTx == {x \in TxId : tx[x].st = "pending"}

RegisteredAnew(R) == R  \* mutant: forgets what a request has registered meanwhile
Registered(R) == tracked \cup R

\* ... registered, newest first, and get_pending_transactions called.  An
\* exception of either is logged as a warning and the start-up goes on: then
\* the trades from some one on are not followed.
RestoreTrailing ==
  /\ phase = "restoring" /\ phase' = "recovering"
  /\ \E R \in {toRestore} \cup {{r \in toRestore : r > s} : s \in toRestore} :
       /\ tracked' = Registered(R)
       /\ unwatched' = (unwatched \cup toRestore) \ R
  /\ toRecover' = PendingTx
  /\ UNCHANGED <<dbVars, openCount, lockVars, toLoad, toRestore, crashes, pc,
                 callVars, results, dropped>>

NextNever(x) == x \in toRecover /\ \A y \in toRecover : x < y  \* mutant: < for <=
NextToRecover(x) == x \in toRecover /\ \A y \in toRecover : x <= y

VerdictDone(kind) == "completed"  \* mutant: everything pending is taken for done
VerdictRetry(kind) == IF kind = "open_trade" THEN "failed" ELSE "pending"  \* mutant
Verdict(kind) == IF kind = "open_trade" THEN "failed" ELSE "pending_retry"

\* An open_trade is always marked failed.  A close_trade row has no
\* signal_id column, so it is always marked pending_retry.
RecoverTx ==
  /\ phase = "recovering"
  /\ \E x \in TxId :
       /\ NextToRecover(x)
       /\ Live => tx[x].kind = "open_trade"
       /\ SetTx(x, Verdict(tx[x].kind))
       /\ toRecover' = toRecover \ {x}
  /\ UNCHANGED <<status, savedCount, positions, memVars, lockVars, phase, toLoad,
                 toRestore, crashes, pc, callVars, histVars>>

\* With a broker, get_positions() answers with a dictionary; iterating it as a
\* list of positions raises, and initialize() with it: the start-up fails.
RecoveryRaises ==
  /\ Live /\ phase = "recovering"
  /\ \E x \in TxId : NextToRecover(x) /\ tx[x].kind = "close_trade"
  /\ ProcessGone /\ UNCHANGED crashes

RecoveryDone ==
  /\ phase = "recovering" /\ toRecover = {}
  /\ phase' = "up"
  /\ UNCHANGED <<dbVars, memVars, lockVars, readVars, crashes, pc, callVars,
                 histVars>>
-----------------------------------------------------------------------------
OpenStep(t) == \/ LogOpen(t) \/ RejectOpen(t) \/ BrokerFill(t) \/ SaveSignal(t)
               \/ Register(t) \/ CompleteOpen(t)

CloseStep(t) == \/ \E s \in Sig : LogClose(t, s)
                \/ FindSignal(t) \/ RejectClose(t) \/ MarkClosed(t)
                \/ CompleteClose(t) \/ RecordResult(t) \/ SaveRiskState(t)
                \/ Forget(t)

ScanStep(t) == ScanHold(t) \/ ScanExit(t) \/ EndScan(t)

Startup == \/ Boot \/ LoadState \/ ApplyState \/ RestoreTrailing
           \/ RecoverTx \/ RecoveryRaises \/ RecoveryDone

Next == \/ \E t \in Task : \/ Begin(t) \/ OpenStep(t) \/ CloseStep(t)
                           \/ BeginScan(t) \/ ScanStep(t) \/ Abort(t)
        \/ Crash
        \/ Startup

Spec == Init /\ [][Next]_vars

\* The event loop resumes every coroutine whose await is over, storage calls
\* come back, asyncio.Lock is first come first served, and the supervisor
\* restarts the process.  Nobody has to call, to abort or to crash.
Fairness ==
  /\ \A t \in Task : /\ WF_vars(OpenStep(t) \/ CloseStep(t) \/ ScanStep(t))
                     /\ SF_vars(BeginScan(t))
  /\ WF_vars(Startup)

FairSpec == Spec /\ Fairness
-----------------------------------------------------------------------------
TypeOK ==
  /\ status \in [Sig -> {"none", "open", "closed"}]
  /\ tx \in [TxId -> TxRow]
  /\ savedCount \in Nat /\ positions \subseteq TxId
  /\ phase \in {"down", "loading", "loaded", "restoring", "recovering", "up"}
  /\ openCount \in Nat /\ tracked \subseteq Sig
  /\ tickLock \in Task \cup {NoTask} /\ tradeLock \in Task \cup {NoTask}
  /\ toLoad \in Nat /\ toRestore \subseteq Sig /\ toRecover \subseteq TxId
  /\ pc \in [Task -> Pcs]
  /\ txOf \in [Task -> 0 .. MaxTx] /\ sigOf \in [Task -> 0 .. MaxSig]
  /\ todo \in [Task -> SUBSET Sig] /\ snap \in [Task -> Nat]
  /\ results \in [Sig -> Nat] /\ dropped \subseteq TxId /\ unwatched \subseteq Sig
  /\ crashes \in Nat
-----------------------------------------------------------------------------
\* A transaction logged completed is really done: the row of the trade it
\* opened exists, the trade it closed is closed.  (docs/STORAGE.md, section 3)
WALSound ==
  \A x \in TxId : tx[x].st = "completed" =>
    /\ tx[x].sig # 0
    /\ status[tx[x].sig] \in (IF tx[x].kind = "open_trade" THEN {"open", "closed"}
                                                          ELSE {"closed"})

\* Once initialize() is over, a pending transaction belongs to a call of this
\* process: one that is running, or one a timeout or an error has ended.
PendingOwned ==
  phase = "up" => \A x \in TxId :
    tx[x].st = "pending" => x \in dropped \/ \E t \in Task : txOf[t] = x

\* record_trade_result is called at most once for a trade: losses are counted
\* once in the drawdowns and in the losing streak.
ResultOnce == \A s \in Sig : results[s] <= 1

Opening == {sigOf[t] : t \in {u \in Task : pc[u] = "saved"}}

\* An open trade is followed by the trailing engine, whoever opens and closes
\* while others do, during start-up and after a crash: unless its opening is in
\* between or was cut off there, or start-up failed on it or was not shown it.
OpenWatched == phase = "up" => OpenSignals \subseteq tracked \cup Opening \cup unwatched

\* With a broker, no trade is stored that the broker has not filled.
SignalBacked ==
  Live => \A s \in Sig : status[s] # "none" => \E x \in positions : tx[x].sig = s

\* Every transaction gets its verdict: from its call, or, after a crash, from
\* recovery.  Only a call ended by a timeout leaves one behind.
PendingResolved ==
  \A x \in TxId : tx[x].st = "pending" ~> tx[x].st # "pending" \/ x \in dropped

\* The process comes up again.
ComesUp == phase # "up" ~> phase = "up"

-----------------------------------------------------------------------------
(***************************************************************************)
(* Why the invariants hold.  A running call owns its transaction: the row  *)
(* is of its kind, names its signal, and no other call has it.             *)
(***************************************************************************)
InCall(t) == pc[t] \in OpenPcs \cup ClosePcs
HasSig(t) == pc[t] \in {"saved", "registered"} \cup ClosePcs

OwnTx == \A t \in Task : InCall(t) =>
           /\ txOf[t] \in TxId
           /\ tx[txOf[t]].st # "none"
           /\ tx[txOf[t]].kind = IF pc[t] \in OpenPcs THEN "open_trade"
                                                    ELSE "close_trade"
OwnSig == \A t \in Task : HasSig(t) =>
            sigOf[t] \in Sig /\ tx[txOf[t]].sig = sigOf[t]
SigStored == \A t \in Task :
  /\ pc[t] \in {"saved", "registered"} => status[sigOf[t]] \in {"open", "closed"}
  /\ pc[t] \in {"marked", "committed"} => status[sigOf[t]] = "closed"
TxApart == \A t, u \in Task : t # u /\ InCall(t) /\ InCall(u) => txOf[t] # txOf[u]

CallsOwn == OwnTx /\ OwnSig /\ SigStored /\ TxApart

WALInv == TypeOK /\ CallsOwn /\ WALSound

(***************************************************************************)
(* The search for the open signal and the UPDATE that closes it are two    *)
(* awaits.  As long as no two calls are between them with the same signal  *)
(* they are one step as far as other closings are concerned.  The tick     *)
(* lock brings that about when all closing goes through _on_tick, and so   *)
(* does a single caller.                                                   *)
(***************************************************************************)
Apart == \A t, u \in Task :
           t # u /\ pc[t] = "found" /\ pc[u] = "found" => sigOf[t] # sigOf[u]

TicksOnly == Closers = {} /\ Checkers = {}
OneCloses == \A t, u \in Closers \cup Scanners : t = u

TickInv ==
  /\ \A t \in Tickers : pc[t] \in {"scan"} \cup ClosePcs => tickLock = t
  /\ \A t \in Task : pc[t] \in {"scan"} \cup ClosePcs => t \in Closers \cup Scanners

\* Of two calls that close one signal at most one has found or closed it.
OneSettles ==
  /\ \A t \in Task : pc[t] = "found" => status[sigOf[t]] = "open"
  /\ \A t, u \in Task :
       t # u /\ pc[t] \in {"marked", "committed"} /\ pc[u] \in {"marked", "committed"}
         => sigOf[t] # sigOf[u]
  /\ \A t \in Task : pc[t] \in {"marked", "committed"} => results[sigOf[t]] = 0
  /\ \A s \in Sig : status[s] # "closed" => results[s] = 0

BookInv == TypeOK /\ CallsOwn /\ OneSettles /\ ResultOnce

(***************************************************************************)
(* What a pending transaction waits for: recovery, which read it when it   *)
(* had registered the open trades, or the call that logged it.  The last   *)
(* steps of a closing come after its verdict.                              *)
(***************************************************************************)
Owned(x) == \E t \in Task : InCall(t) /\ txOf[t] = x

PendingKept ==
  /\ phase \in {"recovering", "up"} =>
       \A x \in TxId : tx[x].st = "pending" => x \in toRecover \cup dropped \/ Owned(x)
  /\ phase = "up" => toRecover = {}
  /\ \A t \in Task : pc[t] \in {"committed", "recorded", "persisted"} =>
                       tx[txOf[t]].st # "pending"

\* What a closing has found is stored.
FoundStored == \A t \in Task : pc[t] = "found" => status[sigOf[t]] # "none"

\* A position is a logged transaction, an
\* order the broker has filled is a position, and its row names no signal before SaveSignal.
FillKept ==
  /\ \A x \in positions : tx[x].st # "none"
  /\ \A t \in Task : pc[t] = "filled" => txOf[t] \in positions
  /\ \A t \in Task : pc[t] \in {"logged", "filled"} => tx[txOf[t]].sig = 0

(***************************************************************************)
(* Why open trades are followed: what start-up has not read yet it will    *)
(* read, what it has read it will register, and the trailing engine only   *)
(* forgets a trade that is closed.                                         *)
(***************************************************************************)
ClosedStays ==
  \A t \in Task : pc[t] \in {"marked", "committed", "recorded", "persisted"} =>
                  status[sigOf[t]] = "closed"

WatchInv ==
  /\ ClosedStays
  /\ phase = "restoring" =>
       OpenSignals \subseteq tracked \cup toRestore \cup Opening \cup unwatched
  /\ phase \in {"recovering", "up"} =>
       OpenSignals \subseteq tracked \cup Opening \cup unwatched

Book == INSTANCE PositionBook WITH book <- status, settled <- results
BookSpec == Book!Spec
=============================================================================
