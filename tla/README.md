# EuroScope: the verification project

EuroScope is an autonomous EUR/USD analyst and paper trader: a Telegram bot, a
REST API, a scheduler and an agent loop share one asyncio event loop, one set of
"skills" and one SQLite file. This directory holds TLA+ modules translated from
its source, TLC configurations that check them on small instances, and proofs
that TLAPS checks. Paths below are relative to `src/euroscope/` unless they
start with `docs/`; line numbers are those of the modelled commit.

Contents

1. How the program works, part by part (inventory)
2. The modules and how they correspond to the code
3. The runs: what each one checks, its bounds, why they suffice
4. Fairness
5. What is proved, and along which argument
6. What is model-checked only
7. Where the code departs from its documentation, and other facts met while modelling
8. What is not modelled, and why
9. The plan

---

## 1. Inventory

There are no threads that matter to the trading logic: everything interleaves
at `await`. So **the unit of atomicity is the code between two awaits**, and what
makes the program hard is state read before an await and used after it, an
exception or a cancellation (`asyncio.wait_for`) at an await, and a process
that dies at one. Most of the memory of the program is lost when it dies; what
survives is the SQLite file and a few JSON files.

### The trading core

| part | state | operations | hard behaviours | what makes it correct |
|---|---|---|---|---|
| **SignalExecutor** `trading/signal_executor.py` | rows of `trading_signals` and `transaction_logs`; `_tick_lock`; which trades the engine follows | `open_signal`, `close_signal`, `_on_tick`, `check_signals`, `initialize`, `_recover_inflight_transactions` | every call is 4 to 7 awaits long; two closers of one trade; crash or cancellation between two writes; requests during start-up | a trade is closed once and its result counted once; the log says only what was done; after start-up nothing is left pending without an owner |
| **TrailingStopEngine** `trading/trailing_stop.py` | per trade: initial and current stop, watermark, three flags, all in memory | `register_trade`, `update`, `check_partial_exit`, `remove_trade` | the stop exists twice (memory, database) and the UPDATE may fail; a restart forgets the watermark | the stop never retreats; a trade is not left open beyond its stop |
| **RiskManager** `trading/risk_manager.py` | day, week and month figures with their dates, losing streak, open-trade counter; `risk_manager_state` on disk | `assess_trade`, `record_trade_result`, `on_trade_opened/closed`, `save_state`, `load_state` | windows roll only when somebody looks; three different rules for three windows; a save is awaited after memory has changed; restart on another day; two managers | figures equal what was booked; no result is lost but by a cut-off save |
| **Emergency halt** `skills/deviation_monitor`, `automation/events.py`, `skills/signal_executor`, `brain/orchestrator.py`, `brain/agent_core.py` | `emergency_mode`/`until` in the global context; the same on disk, twice; a separate halt in the executor skill; two cooldowns | raise, save, announce, honour, end, restore | raised between the check and the trade; save fails; two saved copies compete after a restart | no trade before the end; every emergency has an end and ends |
| **Agent core** `brain/agent_core.py` (`world_model.py`, `conviction.py`) | state machine of 8 states, a tick lock, timers, world model, convictions; `agent_core_state` on disk | `_tick` (from its own loop and from the scheduler's heartbeat), `start`, `stop` | a tick waits for skills and the language model in the middle of a state; it is cancelled after 90 s; two drivers | what it does fits its state; it decides only on what it has established; analysis recurs |

### Analysis: from candles to a trade

| part | state and operations | hard behaviours | what makes it correct |
|---|---|---|---|
| **Pipeline and auto trader** `brain/orchestrator.py`, `automation/cron.py` | one shared `SkillContext` (signals, risk, metadata); `run_full_analysis_pipeline`; `autonomous_trader` | every skill is an await; the context keeps what an earlier run wrote; other pipelines write to it; committees only on conflict | what is traded was debated and assessed in that run, in that direction |
| **World model** `brain/world_model.py`, part of `agent_core.py` | the agent's picture, its last snapshot, its cached summary, evidence | three writers; the snapshot and the cache are renewed at different moments | a change speaks for or against a thesis as it should; danger makes nobody bolder |
| **Strategy, regime, arbiter** `trading/strategy_engine.py`, `trading/regime_adaptive.py`, `brain/conflict_arbiter.py` | none | each rule written twice, for buying and selling, and voted on with weights | no taste for one side of the market |
| **Chart reading** `analysis/patterns.py`, `levels.py`, `technical.py` | none | the same | the same |
| **Market context** `skills/liquidity_awareness`, `session_context`, `uncertainty_assessment` | none | zones, an intent guessed from them, layers of doubt | symmetric; more doubt never means more confidence |
| **Sizing** `trading/risk_manager.py`, `skills/risk_management`, `trading/safety_guardrails.py` | none | eight factors, three clamps, three successive stops | the stop protects, the reward is worth it, caution never enlarges |

### Services

| part | state and operations | hard behaviours | what makes it correct |
|---|---|---|---|
| **Language model gateway** `brain/llm_router.py`, `llm_interface.py`, `cost_tracker.py`, `utils/resilience.py` | a breaker per provider, the day's cost, the tool loop | admitted before it is charged; failures, retries, time-outs | every caller is answered; overspending is bounded |
| **Scheduler** `automation/cron.py` | fourteen named tasks, next-run times, one trade lock | callbacks cut off at any await after 120 s | a task not cancelled keeps running |
| **REST API** `bot/api_server.py` | settings file in two copies, a forecast cache under a lock, cached pages | requests overlap; a write is cut off | a kill switch holds; a forecast is answered |
| **Convictions** `brain/conviction.py` | theses with evidence, confidence, age | what forms, weakens, contradicts or expires them | no flip-flop, no eternal belief |
| **Market data** `data/multi_provider.py`, providers | a breaker, last known prices, two caches of candles | failover, stale repeats | what is handed out is as fresh as it says |
| **Storage** `data/storage.py` | a pool of connections created on first use, their transactions | two first users, cancellation, close, busy database | no connection lost; what was confirmed is kept |
| **Paper trading** `simulation/trading_simulator.py` | an account, its trades, a loop per `start()` | two loops on one account | the account adds up; a stopped loop ends |
| **Pattern learning** `learning/pattern_tracker.py` | rows waiting for a verdict | a bounded batch, newest first | what can be judged is judged |
| **Proactive alerts** `automation/cron.py`, `alerts.py`, `brain/proactive_engine.py` | cooldowns, what each chat was told | a message delivered and not confirmed | alerts keep their distance |
| **Backtests** `backtest/`, `analytics/`, `evaluation/` | none | a bar seen too early, an order within a bar, costs with the wrong sign | a report knows no later bar and takes every cost |

How they meet. The scheduler's `autonomous_trader` (`automation/cron.py:558`) runs the analysis
pipeline, asks the guardrail, takes `_trade_lock` and calls the `signal_executor` skill, whose
`_guard_trade` looks at the emergency once more and whose `SignalExecutor` opens the trade (the risk
was assessed in the pipeline by another instance of the manager, see section 7). The `trade_monitor`
(`cron.py:657`) takes the same lock and processes a tick. Users close trades through `close_trade`. The
deviation monitor raises an emergency in the shared context and announces it on the event bus; the
pipeline ends it. The agent observes all this through `list_trades` and the pipeline's results, from
which it renews its world model and its convictions. Skills, services and storage meet only through
calls and the shared context; no two services share state, which is why they can be checked apart.

`PROJECT.json` lists all 35 components with their files and status, and 40 hazards with the line where
each bites and the property that would catch it, or why none does.

---

## 2. The modules

| module | what it is |
|---|---|
| `PositionBook` | abstract: a signal is opened once, closed once, and settled at most once after that |
| `TradeExecution` | the executor with its log, locks, start-up and recovery; implements `PositionBook` while no two calls stand between finding and closing one signal |
| `TrailingStop` | one trade, its stop in memory and in the database, ticks, break-even, partial exit, restart |
| `RiskManager` | drawdown windows, streak and counter of the two managers, the save apart from the result |
| `EmergencyHalt` | emergency and auto trader, over stops and crashes |
| `AgentCore` | the agent's state machine under two drivers |
| `TradePipeline` | the analysis pipeline over its shared context, and the auto trader that acts on it |
| `WorldModel` | the agent's picture of the market, evidence, theses, the bar for a decision |
| `StrategyChoice`, `ChartReading`, `MarketContext`, `TradeSizing` | what is computed of candles and readings, as operators over bounded inputs |
| `Backtest` | both replays, their costs, metrics and splits, as operators and recursive functions |
| `Ordering` | the elements of a finite set in order, used by `ChartReading` and `MarketContext` |
| `LLMGateway`, `CronScheduler`, `ApiServer`, `Convictions`, `PaperTrading`, `Learning` | a service each |
| `MarketData`, `StoragePool`, `Notices` | price and candle sources, connections and transactions, alerts |
| `MCTradeExecution`, `MCAgentCore`, `MCTradePipeline`, `MCWorldModel` | constants and symmetry for TLC |
| `MCTrading`, `MCServices`, `MCAnalysis`, `MCEmergencyHalt` | several parts in one run: a behaviour belongs to one part, chosen at the start (`focus`), and the others rest |
| `..._proofs` | theorems about the module they are named after; `Trading_proofs` is about `TrailingStop`, `RiskManager` and `TradePipeline`, `Services_proofs` about `LLMGateway`, `CronScheduler`, `ApiServer`, `Convictions` and `PaperTrading`, `Analysis_proofs` about `StoragePool`, `TradeSizing`, `MarketData`, `Notices`, `MarketContext` and `WorldModel`, and `Mirrored_proofs`, which extends it, about the symmetry of the five parts that read a market |

The modules are separate because each abstracts what the others need from it to a choice: in
`TradeExecution` any signal of a scan may be hit (which, is `TrailingStop`'s subject); in
`RiskManager` a close begins with its result and ends with the decrement (what comes before is
`TradeExecution`'s); in `TradePipeline` any skill may report any direction (which, is
`StrategyChoice`'s) or fail. `PROJECT.json` maps every definition to its lines.

### TradeExecution

*Tasks.* `Openers` call `open_signal`, `Closers` call `close_signal` directly, `Tickers` call `_on_tick`
under `_tick_lock`, `Checkers` call `check_signals` under no lock. `CronLocked` tasks hold the scheduler's
`_trade_lock` around the call; `Early` ones may start while `initialize()` runs (the API server is
started first); `MayAbort` ones may be cancelled by a timeout or an exception at any await.

*State.* `status` is the `status` column of `trading_signals`, `tx` the rows of `transaction_logs`,
`savedCount` the counter inside `risk_manager_state`, `positions` what the broker has filled.
`openCount` and `tracked` are the memory of the risk manager and the trailing engine. `pc`, `txOf`,
`sigOf`, `todo` and `snap` are the position and the locals of each coroutine. `snap` is there because
`save_state` copies the counter before it awaits.

*Calls, one action per await.*
`open_signal`: `LogOpen` → (`BrokerFill` when live) → `SaveSignal` → `Register` → `CompleteOpen`, or
`RejectOpen`. `close_signal`: `LogClose` (or `ScanExit` from a scan) → `FindSignal` → `MarkClosed` →
`CompleteClose` → `RecordResult` → `SaveRiskState` → `Forget`, or `RejectClose`. Ticks and checks:
`BeginScan` → `ScanHold`/`ScanExit`… → `EndScan`; the list is the one read at the beginning. Start-up: `Boot` →
`LoadState` → `ApplyState` → `RestoreTrailing` → `RecoverTx`… → `RecoveryDone`, or `RecoveryRaises`. Restoring the trailing
stops may fail at any trade: the exception is logged as a warning (`signal_executor.py:67-68`), start-up goes on, and the
trades that were left are noted in `unwatched` (history), as are those that the query did not return and openings cut
off before `Register`. `OpenWatched` is what remains true: every other open trade is followed.

*Which callers exist.* `container.py` sets `broker` and `ws_client` to None, and `process_tick` is missing from the
skill's `capabilities` (section 7), so in the wiring of this commit trades are paper trades and the
only closers are `close_trade` calls. The module models the class under all the callers it is written for,
as its constants; live mode and the two kinds of ticks are what the code would do once they are wired.

### TrailingStop

Prices are whole pips. `initial`, `stop`, `extreme`, `flags` are `TrailingState`; `dbStop` and `row` the
database. A tick is `TickRead` → `TickTrail` → (`TickWrite` → `TickCheck`) because `_on_tick` awaits the list of
open signals and, when the stop moved, the UPDATE. `Update` is the chandelier method with the parameters the
executor passes (activation 0, trail 15 pips, break-even 15 pips). `Abort` is a storage call that raises.
`PartialExit` is `check_partial_exit`. `best`, `outcome`, `mishaps` and `unsaved` are history; `unsaved` says that the
engine has moved its stop and nobody is about to write it, after a partial exit or an UPDATE that failed. What `StopSound`
says of break-even is about `dbStop`, the stop ticks close at.

### RiskManager

The program has two managers. `mgr` is the executor's own (`signal_executor.py:34`): it is told of every trade, saves itself
and is loaded again. `gate` is the container's (`container.py:145`), which the risk skill asks: it assesses, and is told of
nothing. `saved` is the state on disk. A close is `RecordTradeResult`, where memory changes and the dictionary to be
written is put together, `SaveState`, the awaited write, and `TradeClosed`; other closes, `CutOff` (a cancellation) and
`Restart` (a crash) come in between, and a write may be overtaken by an older one. `AssessTrade` and `TradeOpened` are the other operations.
Time goes in instants, of which a day has `DayTime`; a month has `MonthDays` days, and the window of a week runs for
`WeekTime` instants from the first look at it, whatever the calendar says. What really happened is history: `truth` is what
all results come to today, this month, since every instant and in a row, `book` the same of those that `mgr` has counted
(each copy to be saved carries its own), and `slips` which of the three mishaps of a save there were.

### EmergencyHalt

`ctx` is the global context, `disk` is `emergency_mode_state`, `agentState` the emergency inside
`agent_core_state`, `haltUntil` the skill's own halt. The check of the deviation monitor is `MonitorCheck` →
`Detect` → `SaveEmergency` → `RegimeShift`, or `NoDeviation`, `SaveFails`. The auto trader is `AutoPipeline` →
`ShouldBlock` twice (in the task and again in `_open_trade`) → `OpenOrder`, with `Finish` for every other way out.
The agent restores in two steps, because `_restore_state` awaits a read before it assigns. `promised` is the
end of the last emergency raised (0 if it never reached the disk and the process died: the code makes no promise about it); `mishaps` notes the
start-ups for which the code makes no promise (section 7).

### AgentCore

`state` and `NextState` are `AgentState` and `_determine_next_state`; `pc` is the await at which the tick of a driver
stands, `hung` the drivers whose await never returns; `stale` the timers that have run out. The world model is reduced to the
three facts the machine asks of it (open trade known, price known, spread above the kill switch) and the
tracker to the strength of its strongest conviction. A tick begins with one action per state (`Scan`,
`Analyze`, `FormConvictions`, `Decide`, `Execute`, `Monitor`, `Review` and their failing variants) and goes on with one
per await. `Timeout` is `wait_for(…, 90)`. `traded` is the truth in storage.

### TradePipeline

One shared record per field of the `SkillContext` that matters: `signals`, `risk`, `profile` (what the risk debate left),
`emergency`. `run[p].at` is the await a pipeline stands at; the steps are `CheckEmergency`, `Analyse`, `DetectSignal`,
`Resolve` or `CommitteeAnswers`, `CotFilter`, `Debate`, `DebateRisk`, `StoreDecision`, `AssessRisk`, `FullFundamental`, then
the auto trader's `Gate`, `Guard` (the task's look at the guardrail), `TakeLock` (the second one, under the trade lock) and
`OpenTrade`. Each `_execute_pipeline` ends with a conflict phase of its own, which may rewrite the confidence: that of the crisis
skill, which runs on the shared context in an emergency (`orchestrator.py:264-265`), of the analysis, of the risk step, and of
the full fundamental analysis that follows it in a trending, volatile or breaking market (`:472-475`); `Continue` is what
comes after each. A skill that fails or times out leaves the old values in place; a verdict without an answer goes on.
`Traders` are the auto trader's pipelines, `Analysts` those of the agent, the pulse and the commands, all on one context;
`debated`, `assessed` and `alone` are history, the last one that no other pipeline has taken a step since the run began.
Confidences keep the two scales the code mixes, hundredths of a per cent and hundredths of one, because the
threshold is on one of them. `Switch` and `Emergency` are the surroundings.

### WorldModel

`world` holds the fields that are compared or decided by, `found` what the skills have left in the shared context (a
report that lacks a field leaves the old one), `snapshot` and `cached` the last picture and the last summary.
`UpdateWorld` is `update_from_pipeline`, `ListOpenTrades` and `ScanPrice` the two
halves of a scan, `TellWorld` any request for the summary, `Review` what `_do_update_convictions` makes of a change:
`DeltaEvidence` for the thesis held, `InitialEvidence` and `FirstConfidence` for a new one. `Bar` and `Proposes` are
`_should_evaluate_trade` and `_do_decide`. Words are kept as the code spells them, because it compares words of three
spellings (section 7).

### The pure parts

`StrategyChoice` includes what the pattern tracker has learned: `taught` is the average multiplier of the patterns at hand,
for each bias (`skills/trading_strategy/skill.py:318-336`), an input, because it depends on the names the tracker has judged.
`StrategyChoice`, `ChartReading`, `MarketContext` and `TradeSizing` are operators over integers (pips or tenths of them,
tenths of a point of RSI and ADX); the state machine around each takes an input and
stores what the code answers. They were compared with the Python code itself, run on the same inputs: all
32,408 strategy markets (with nothing learned of patterns) agree exactly; 32,368 chart readings and 11,520 sizings agree up to the rounding of a unit.
`Backtest` does the same for whole histories: the detector is a constant operator, as the code takes the
strategy from outside, and a bar carries the fill, the hour and the noise of the execution simulator as inputs.
One bar of the offline engine is `OfflineOn`: positions are judged by the bar's extremes, then `EnterAtOpen` enters at its open.
`ChartReading` lists all support and resistance levels, of which the code returns the five nearest ones, and a chart is
the closes that are plotted, 50 at most.

### LLMGateway

`breaker` per provider with its failures and whether the last is recent, `spent` the day's cost, `call` where each caller
stands: which providers are left, which retry, which iteration of the tool loop. `Attempt` → `Respond` is one HTTP
request; `Skipped`, `Retried`, `Failed`, `Succeeded` are what follows. `IterationTimeout` cancels the router call under
way, `ForceFinal` is the last answer of the loop. Chats and loops end with a reply, a notice or a time-out.

### CronScheduler

`enabled`, `due`, `at`, `failures` per task; `at[n]` is the await of its callback, from `Body`, the awaited steps of each
of the fourteen callbacks. `CronTick` starts every due task that does not run; `StepOn` waits for `_trade_lock` where the
step is "locked"; `ReturnOk`, `RaiseOut` and `CutOff` are the three ends of a run. Delays are abstracted to "due".

### ApiServer, Convictions, PaperTrading, Learning

`ApiServer` keeps the settings file in its two copies (clear and sealed) and the memory of the bot; a write may be torn by
a crash, and without a configured key the next process has a new secret, to which the sealed copy is unreadable (`Readable`). Scans go
through their skills one await each; forecasts queue on one lock; pages are cached. `Convictions`
keeps confidence as the bands the thresholds make, evidence up to the number that activates, and the age from creation; `MaxFormed`,
the bound of the model, lies above `MaxActive`, the limit of the code. `PaperTrading`
has a task for every call of `start()`, each waiting for a price or sleeping, and requests that wait for a price.
`Learning` has the rows a detection inserts and the tick: it takes a price, reads a batch, judges it one update at a
time, and may be cut off between any two.

### MarketData, StoragePool, Notices

In `MarketData` a price is how long ago the market was last seen at it, candles how long ago they were fetched. `still` is
how long the market has stood still (a weekend), `Delay` how far Yahoo's quotes are behind, `warned` the warning that
`multi_provider.py:232-238` adds to them. Stored candles answer when they are `enough`. Each asker goes down the list
of sources, which may answer, fail, refuse or repeat the last known price; Yahoo's requests block the loop, so nobody else moves (`LoopFree`).
`StoragePool` models SQLite's own rules as the code relies on them: one connection with uncommitted rows, a snapshot
that is outdated once another commits; `Left` is the end of a method, after which the connection goes back to the
queue it came from with whatever transaction is open. In `Notices` a message may arrive without confirmation, the
engine marks the alert when at least one chat was reached, and each chat has its own record of the last hour.

### Combined runs

`MCTrading`, `MCServices`, `MCAnalysis` and `MCEmergencyHalt` put parts that share no state side by side. `focus` chooses one at the start
and the rest keep one initial state, so the state count is the sum and not the product; each fairness condition is
about its own part only.

---

## 3. The runs

| run | shows | instance | distinct states |
|---|---|---|---|
| `exec_live` | `SignalBacked`, `OpenWatched`, `ResultOnce`, `BookSpec`: with a broker, one crash, requests during start-up, a restoration that may fail and calls cut off anywhere, no stored trade lacks a fill, every open trade is followed but for the named cases, and, as all closing goes through `_on_tick`, the executor refines `PositionBook`, though only one of the two tickers holds the trade lock | 2 openers (one early, may abort), 2 tickers (one may abort); 2 signals, 3 transactions, 1 crash | 822,204 |
| `exec_crash` | `WALSound`, `PendingOwned`, `RecoveryEnds`: a crash at any await, requests during `initialize`, cancelled calls | opener (early, may abort), closer, ticker; 1 signal, 3 transactions, 1 crash | 104,776 |
| `exec_double_close` | finding: two direct closers settle one trade twice | 2 closers | |
| `trading` | stops (`StopHonoured`, `StopSound`, `StopNeverRetreats`), risk figures (`FiguresExact`, `ResultsKept`), and what the auto trader opens beside another pipeline (`DebatedBeforeTraded`, `RiskMatchesSignal`) | prices 5..15, entry 10, four initial stops, both directions, trail and break-even 2, target 5, 1 restart; 2 closes at a time, results −2 and +1, 3 of them, days of 2 instants, weeks of 3, months of 2 days, 5 instants, 1 crash; one auto trader run after run, or one run each of the auto trader and an analyst on one context | 2,455,197 |
| `trading_gate` | finding: the manager that assesses approves with all limits reached | the same, assessed at every instant | |
| `halt` | `AutoHonoursEmergency`, `EmergencyHasEnd`, `EmergencyEnds`, `PipelineReturns` | spans 2 and 4, cooldown 3, 6 time units, 2 stops or crashes; one auto trader, run after run | 574,321 |
| `agent` | `StateStable`, `DecidingSafe`, `AnalysisRecurs` | 2 drivers, 1 restart | 60,172 |
| `pipeline_stop` | finding: after a debate the stop is a distance where a price belongs | one auto trader, risk skill reliable | |
| `pipeline_risk` | finding: a failed risk assessment trades with no record or an older one | one auto trader, risk skill may fail | |
| `services` | `OverspendBounded`, `CallersAnswered`, `TasksKeepRunning`, `KillStopsScans`, `BeliefsCoherent`, `ExpiresByCreation`, `BooksBalance`, `StoppedLoopsEnd`, `JudgedUnlessCrowded` | one chat and one tool loop, 2 providers, 1 retry; tasks one by one, the trading pair and the briefing with the health report together; 2 API clients; 3 convictions for 2 places; 2 loops and 2 manual trades; 3 patterns in batches of 1 | 96,236 |
| `analysis` | `Mirrored`, `CautionKept`, `StopsGuard`, `ReportsHonest`, `DataFresh`, `ConnectionsConserved`, `AnsweredDurable`, `AlertsSpaced` | the grids of `MCAnalysis`; 2 askers and 2 readers, quotes 1 tick behind; 2 writers, pools of 2, 1 cancellation; 2 chats, 2 messages, 1 restart; 2 pipeline runs, each with one scan | 901,286 |
| `thesis_side` | finding: a change that confirms a thesis counts against it | 2 pipeline runs, each with one scan | |

*What the properties say.* Besides those explained with the modules:
`StopSound`: the stored stop keeps within the trail distance of the best price a finished tick has seen, and a trade at
break-even cannot lose once that stop is stored (it can while a partial exit or a failed UPDATE has moved it in memory only:
both are named in the premise, `unsaved`). `FiguresExact`: day, week, month and streak are exactly what the results in the
manager come to, no window mixes those of two, and a lost save takes a result out of all figures at once. `ResultsKept`:
none is lost unless a save was cancelled, died with the process or was overtaken. `DebatedBeforeTraded`, `RiskMatchesSignal`:
what the auto trader opens was debated in that run, and is what was decided and assessed, in a run nobody cut into; what
others do when they cut in is section 7. `OpenWatched` is explained with `TradeExecution`. `OverspendBounded`: requests admitted
before the budget was reached overspend it by at most one call each. `KillStopsScans`: a pressed kill switch stops even
scans under way, and no restart with a mixed or torn file undoes it. `BooksBalance`: with two loops on one account every
trade is in one list once and the balance is what the closed ones brought. `JudgedUnlessCrowded`: a pattern that
announces a direction is judged, unless at least a batch of later ones never will be. `Mirrored`: markets, votes, charts, zones, sizes
and theses turned upside down give the opposite answer (ties that the code breaks towards one side are excluded by
name: `Torn`, `Motionless`, `Undecided`). `CautionKept`: more doubt, losses, volatility or danger never gives more
confidence, size or trades. `StopsGuard`: the stop is on the losing side, outside the noise, and the reward is worth
the risk. `BeliefsCoherent`: never more convictions than places, those still forming counted, and one thesis per direction.
`ExpiresByCreation`: 48 hours after it was formed a conviction ends, reinforced or not (section 7).
`ReportsHonest` has five parts. No decision depends on a later bar. Within a bar the offline engine's result differs from
the order its own comment gives (enter at the open, then judge by the extremes) on exactly two kinds of bar: the order's own
bar reaches its levels, or a place that the bar's extremes freed is taken at its open. Slippage and commission only take
from a replayed trade. An offline trade brings what it would have brought at no cost less what its two fills cost, which is
something unless the slippage was drawn in its favour, and then at most 6 tenths of a pip are gained. The drawdown is the
deepest fall of the balance, its start included; the harness's leaves out the start, and nothing else.
`DataFresh`: a price not marked as cached is the market's of this call, or its last while the market stands still, and
behind it only with the warning of a delay; candles were fetched no longer ago than both caches allow.
`AnsweredDurable`: a write whose caller was answered is in the database.

*Why the bounds are enough.* In `TradeExecution` a violation needs two calls on one signal (two callers,
one signal), an interrupted call and its recovery (one crash, a transaction left over for a later
call), or a restoration that stops between two trades (two signals). `MaxTx` lets no new
opener or closer begin when the log is full; scans still run, but cannot close then. In `TrailingStop` the
price range covers the initial stop, the region below activation, break-even, several trail distances and
the target on both sides; two initial stops per direction lie at three and four pips, so the partial exit comes
both before and after trailing has passed break-even. In `RiskManager` five instants contain two midnights, a month change and the
end of a week that began in the middle of a day, each with a save under way or after a restart; two calls are enough for a save that
overtakes another, and a daily limit of two losses can be reached. Assessments change nothing but `gate`, so one instant is
enough for them where no property is about it. Of pipelines that share a context one run each shows what either can do to the
other; what a context carries from run to run is explored with the auto trader alone (`alone`, and as the second
focus of `halt`). In `EmergencyHalt` the order of the code's spans is kept (short < cooldown <
long) so a second emergency falls within and after the first, and two stops let an emergency raised before
one restart be restored by the next. `AgentCore` and a pipeline alone are unbounded but for the restarts: every sequence of runs is
explored. In `LLMGateway` two providers give failover, a threshold of two failures lets a breaker open within one
retried question, and a budget of two is overspent by two callers. Two clients are enough for a lock, two loops for
one account, two users for a pool (each of the two pools that the creation race may build has two connections).
Three convictions for two places make the limit bind. In `Learning` a batch
of one with three patterns is the smallest crowd. In `Notices` the clock has an hour of two instants and passes
through quiet and thin hours. The grids of `MCAnalysis` are chosen so that the rules meet values on both
sides of their thresholds; of two inputs that are each other upside down they hold one where `Mirrored` turns it itself.

*Deadlock* is checked in `exec_live`, `exec_crash`, `halt` and `agent`: somebody can
always call. In `trading`, `services`, `analysis`, `exec_double_close` and `trading_gate` the trade, the days, the log, the bounded
calls or the single input come to an end, and there the check is off.

*Symmetry* is used only in `exec_double_close` (two users), which checks no liveness.

*Mutants.* Every property of a passing run has at least one changed definition, written beside the definition it replaces
and marked as a mutant, under which TLC finds that property violated; `PROJECT.json` lists them.

---

## 4. Fairness

* `TradeExecution.FairSpec`: weak fairness of the steps of a running call and of start-up. The event loop
  resumes a coroutine whose await is over, storage calls come back or raise (`Abort`), and the process is restarted by its
  supervisor. Strong fairness of `BeginScan`, since `asyncio.Lock` wakes waiters first come, first
  served. No fairness of beginning a call, of cancelling one, or of crashing.
* `EmergencyHalt.FairSpec`: the clock runs, the process is started, the restore goes on, and somebody runs the
  pipeline (the agent does in every cycle). None for the monitor, the auto trader, or a stop.
* `AgentCore.FairSpec`: both drivers keep beginning ticks (a loop with a sleep; a scheduled task), and `wait_for` ends every
  tick. Strong fairness of the pipeline coming back and of what follows: a pipeline started again and again is now and
  then quicker than 90 seconds. Without that assumption `AnalysisRecurs` would say that the network works.
* `TradePipeline` (in `halt`): weak fairness of a pipeline's own steps; `safe_execute` ends every skill after its time limit.
* `MCServices.Fairness`: a caller of the gateway is resumed (HTTP requests and sleeps have limits); the scheduler's tick comes
  round, time passes to a task's next run, and a run ends at the latest by its limit (that it ends well is not assumed); a client
  of the forecast is resumed and its work ends within its 90 s; the conviction tracker is ticked with a price (it is, from the first quote on) and convictions
  grow old; the paper trader's tasks are resumed and the feed answers or times out; the learning tick's storage
  calls return, and, strongly, a tick starts at every price level again and again, as far as ticks keep being due. The
  last is an assumption about the market: without it a pattern may wait for a price that never comes.
* `TrailingStop`, `RiskManager`, `WorldModel`, the parts of `MCAnalysis`: safety only.

---

## 5. What is proved

There are 34 main theorems (and two they rest on), and every invariant that a passing run checks is stated by one of them.
They hold for every value of the constants that satisfies the named ASSUMEs of the
modules. Each rests on an inductive invariant; initial states satisfy it, each action is a step of the
proof. TLC checked each invariant on the instance of its run before it was proved.

**TradeExecution_proofs.** `TypeCorrect` and `WALSoundness` rest on `CallsOwn`: a running call owns its transaction row
(the row exists, is of its kind, names its signal: `OwnTx`, `OwnSig`), no two calls own the same one (`TxApart`), and what
a call has already done to the signal is in the table (`SigStored`). Without it, `completed` could be written for a row
whose trade does not exist; with it `WALSound` is preserved by the two actions that write `completed`, and recovery
never writes it.
`PendingIsOwned` adds `PendingKept`: while the process recovers or is up, a pending row is still to be recovered, was
dropped by a call that ended early, or belongs to a running call. It needs to know that a call past its commit no longer
owns a pending row, or a cancelled call could not be told from one that forgot its row.
`SignalsAreBacked` adds `FillKept` (an order the broker has filled is logged, and its row names no signal before
`SaveSignal`, so one fill cannot back two signals) and `FoundStored`.
`OpenTradesWatched` rests on `WatchInv`: what start-up has not read yet it will read, what it has read it will register or
note as left, and the engine forgets only a trade that is closed (`ClosedStays`). It has no hypothesis: ticks, scans and
direct calls, early requests, cut-off calls, crashes and a restoration that fails are all in it.
`ApartImplementsBook` and `ApartSettlesOnce` have one hypothesis, about states and not about callers: `Apart`, no two calls
stand between `FindSignal` and `MarkClosed` with the same signal. Whoever closes (ticks, scans, direct calls), the executor then
implements `PositionBook` and no result is recorded twice; `OneSettles` says that of two calls that close one signal at most one has
found it open or closed it. `LockKeepsApart` says when `Apart` holds: when all closing goes through `_on_tick`, by its lock
(`TickInv`), and when there is a single closing caller. `exec_double_close` shows that two direct callers break it, and the
two conclusions with it.

**Trading_proofs**, on stops. `StopsOnlyImprove` from `StopInv`: before a partial exit the engine's stop is never
behind the stored one (`EngineAhead`), after one it is beyond the entry (`EngineSecures`), and the engine's stop is what is written. `StopsHonoured`
from `InSync`: unless a move is `unsaved` both stops are equal whenever a tick reads one of them. `StopsSound` from
`SoundInv`, which adds `Tracking`: the best price seen is never worse than the entry, the stored stop is within the trail distance
of it, and while a tick waits for its UPDATE the engine's stop is so for the price of the tick, which becomes the best one only
when the tick ends. Its break-even part needs no `Tracking`: by `EngineSecures` the engine's stop is beyond the
entry, and by `InSync` so is the stored one.

**Trading_proofs**, on risk. `FiguresAreExact` from `WindowInv`: the manager in memory, the saved one *and* every copy that a
call is about to save agree with the results that are in them (`Agrees`). A figure whose window runs equals what was booked since the
window began, and where the window does not run nothing was booked in the present one; the second half is what a restart that
finds an old window needs. `ResultsAreKept` adds `KeptInv`: as long as no save has gone wrong (`slips`) a copy with all results is
saved or being saved, and a copy with as many results as there are has the same ones (`NotAhead`).

**Trading_proofs**, on the pipeline. `PipelineTyped`, `TradesAreDebated` and `RiskIsForTheSignal` hold for any number of
pipelines of both kinds on one context. They rest on `PipelineInv`, which says of each auto trader's run that nobody has cut into: until it has
debated, the confidence in the context is a fraction of one, or an emergency will keep the run from the gate
(`FractionUnlessDebated`); and from the assessment on the direction stays what was assessed, from the gate on what was decided
(`DirectionKept`), through the second and third conflict phase. The lemma `CutSound` says why others need not be known: whoever takes a step
ends `alone` for all the rest.

**EmergencyHalt_proofs.** `AlwaysEnds` from `EndInv`: mode and end are set together in the context, in
the state being restored and in the saved one. `EmergencyHonoured` from `HonourInv`: as long as the last
emergency is not over, it is in the context (process up), in what the agent has read (restoring), or on disk
(starting, down), unless a mishap happened at this start-up.

**AgentCore_proofs.** `AgentTyped`, `TicksAlone` (`StateStable`), `DecisionsFounded` (`DecidingSafe`) from `TickInv`: at
most one tick is under way (`OneTick`), its await fits the state, and DECIDING is entered only with the facts
it is founded on, which nothing changes while no tick waits.

**Services_proofs.** `OverspendIsBounded` (`LLMInv`): what was spent and what the requests in flight may still cost is below
the budget plus one call of each caller. It assumes finitely many callers and a dearest call, without which there is no bound.
`BeliefsAreCoherent` (`ConvictionInv`): convictions are numbered without gaps, so a new one is really new; the coherence itself is
then inductive. `KillSwitchStopsScans` (`KillInv`): from the press on, trading is off in memory, and off in the clear half of the file unless
the file is torn. `TradeLockIsSound` (`LockInv`): the lock is held by a task exactly while it stands in its locked
section; the proof looks at the position of that section in every one of the fourteen callbacks.

`BooksAreBalanced` (`BookInv`): the lists hold trades, and `BooksBalance` is then inductive. A price that comes divides
the open trades into `Watched` and `Finished`; that none is lost or doubled (`Divided`) and that the sum of two lists joined
is the sum of the sums (`EarnedJoins`) are inductions over the length of a list. They are written with recursive functions
instead of folds, the lemma `Recursion` shows that these exist, and the induction itself is `EveryNumber`, a statement
about sets of numbers that follows from the well-foundedness of `<`.

**Analysis_proofs.** `ConnectionsAreConserved` (`PoolInv`): no connection is in a queue twice or in one it was not
made for (`QueuesApart`), or in a queue and in a hand (`HandsApart`); the count follows by the pigeonhole
lemmas about finite sets. `AnswersAreDurable` adds `RowsPending`: the row of a writer who is about to commit is
on its connection.
`StopsAreGuarded` (`SizingInv`): however often the guardrail has seen a trade, target and verdict stay, the stop
is never nearer than the adaptive one, and the size, at least ten thousandths at first, loses at most three at each look; two looks leave a
positive size. `SizingAssumption` says that a record has won no more trades than it has, and that winning ones brought something.
`DataIsFresh` (`MarketInv`): a live answer is as old as the market stands still, or a delayed one with its warning (`PricesMarked`); what a
source keeps was fetched when its stamp says (`StampsTrue`), what the store keeps may have been fetched before its stamp by
the longest lifetime of the caches before it (`StoreBehind`), which is the bound candles get. `MarketAssumption` has the
clock of the model (`AgeCap`) above the delay and every lifetime.
`AlertsAreSpaced` (`NoticesInv`): the engine knows every confirmed arrival (`ToldKnown`), and a chat still to be written to
was last told an hour ago or is found in the cache with that very message (`RoundSpaced`), which matters for a chat that is
listed twice and for a round cut off half way.

`CautionIsKept` joins three properties of components without common state. `DoubtNeverHelps`: the assessment in the context is
`AssessDoubt` of the evidence in view, and the weighted sum over the evidence grows with each layer (`EveryNumber` again, as the
sum is recursive). `CautionNeverEnlarges` (`AssessedIs`): an assessment is the `Outcome` of its proposal after as many looks of the
guardrail as were counted; every factor, clamp and fallback on the way to the size is shown to be monotone, each sign of danger by
itself. `StandsAside` (`PictureInv`): what the agent knows are numbers where numbers are compared, and a thesis has a
confidence; then each graver circumstance raises the bar or lowers the score. `ContextAssumption` and `WorldAssumption`
say of what kind the views and reports are that the constants list; the inputs of the run are of that kind.

**Backtest_proofs.** `ReportsAreHonest`: the report is `ReportOf` of the candles it was made of (`BacktestInv`), and what follows
about it is an induction over bars, again with `EveryNumber`; the replays and the metrics are recursive functions, and that each exists
is a lemma of its own (`ReplaysExist`, `OfflinesExist`, `BalancesExist`, `FallsExist`).
*No look-ahead*: the first bars of a history give the same state of the replay as the first bars of any history that begins with them
(`SameReplay`, `SameOffline`), and what comes after changes no entry and no exit at a level already reached (`LaterReplays`,
`OffliningKnown`). A bar in a test set is apart from the training set by `SplitsApart`, which needs `Lookback <= Folds.purge`; the harness
uses the same 50 bars for both (`evaluation/harness_core.py:199`).
*Costs only hurt*: an open trade is `Standing`, a closed one `Stopped` or `LeftOver`, and says which bars and which fill it comes from
(`ReplayResult`); then the fill with slippage moves stop, target and entry together, so that a level that is reached is worth no more
than without slippage, unless the other level is reached first, which is a loss (`CostsHurt`).
*The order within a bar*: what the comment describes and what the engine does are compared bar by bar, for any positions it may hold
(`SaidDiffers`): both keep the same positions unless the new order is touched by its own bar or had no place before it.
*The costs of the offline engine*: a position is waiting or shut by the first bar that touches it (`Traced`, preserved by `OfflineTraces`), so
every trade is the costless one, less its two fills (`FillsTaken`), and each fill is bounded by the simulator's rules (`CostBounds`).
*The drawdown*: the running peak less the balance is the greatest fall between two points so far, and the greatest of these is the
deepest fall, from the start or from the first trade on (`FallsListed`, `DrawdownIsExact`).
`BacktestAssumption` says of candles what a data source says, `low <= close <= high`.

**Mirrored_proofs.** `MirrorsAgree` is five statements of one form. What was answered is kept with what it was read from (`ChoiceInv`,
`ChartInv`, `ContextInv`, `AssessedIs`, `LeadingInv`), so each is a fact about the operators: applied to the mirror image of an
input they give the mirror image of the answer.
For the strategies, the vote, the sizes and the theses that is a comparison of the doubled branches, one after the other. What was
learned of patterns is turned with the market: the multipliers of bullish ones become those of bearish ones (`TaughtReversed`); that
they need not be equal in one market is section 7. The vote and
the weight of evidence are sums over sets and sequences, and equal by induction on what has been counted.
In a chart the swing lows become the swing highs (`SwingsUpended`), so every pattern found is answered by its counterpart
(`EveryOneAnswered`) and loses as much to its surroundings (`AdjustedAlike`); prices that lie together, seen from below, begin where
they ended (`ClusterTurned`), and their mean is the mean turned (`CentreTurned`). Swings are listed with `Sorted`, because
the definition of `SortSeq` is one that no prover sees; that a finite set has such a list in every strict order is the lemma `SortedIs`.
Zones are found in another order in the mirrored market, and those of equal strength stay in it. So the two lists are not equal: they are
`Rearranged`, joined by a bijection that goes with the mirror, and what is computed of them, sums, the nearest zone, the set that is shown, does
not depend on the order. The premises of `Mirrored` are where it does: as many zones as are kept, of which some may have been
dropped (`Strongest`), two nearest ones or one at the price (`Undecided`); and, in the other parts, a market oversold and overbought at once or a
drawn vote (`Torn`), and a chart without motion (`Motionless`). The proof uses each of them.
The assumptions are `ChoiceAssumption`, `ChartAssumption`, `ContextAssumption`, `SizingAssumption` and `WorldAssumption`: of what kind
the inputs are, with no bound on prices; a chart has the at most 50 closes that the code looks at, and a timeframe's RSI and ADX are
in the bands their thresholds make.

---

## 6. Model-checked only

* Liveness: `RecoveryEnds`, `EmergencyEnds`, `AnalysisRecurs`, `PipelineReturns`, and those of `services`
  (`CallersAnswered`, `TasksKeepRunning`, `ExpiresByCreation`, `StoppedLoopsEnd`, `JudgedUnlessCrowded`). TLAPS handles
  neither fairness nor ENABLED.
* What is false and shown by a run: the five findings of section 7.

---

## 7. Where the code departs from its documentation

The models follow the code. Five disagreements have a run that shows them:

* `exec_double_close`: two direct calls of `close_signal` both find the signal open and both record its result.
* `pipeline_stop`: the debate's `stop_loss_pips` (a distance) replaces the stop price in `ctx.risk["stop_loss"]`
  (`brain/orchestrator.py:468`), against `skills/risk_management/SKILL.md:60-62`; the profile is never cleared.
* `thesis_side`: the technical bias is stored as "Bullish", "Bearish" or "Neutral" (`analysis/technical.py:308`) and compared
  with "bullish", "bearish", "neutral" (`brain/world_model.py:53`, `brain/agent_core.py:612-624`): it always speaks against the thesis.
* `pipeline_risk`: a risk assessment that fails or times out is skipped (`orchestrator.py:165-191`), `ctx.risk` keeps what an earlier
  run left, and `_guard_trade` refuses only a record that says `approved` is False (`skills/signal_executor/skill.py:288`): the trade is
  opened with no record, or with that of the opposite direction, against "safety gate" in `skills/risk_management/SKILL.md:7-9`.
* `trading_gate`: `assess_trade` is asked of the container's manager (`container.py:145`), which no result, opening or closing
  reaches; they go to the executor's own (`trading/signal_executor.py:34`). With the day's losses, the open trades or the losing
  streak at their limits (`trading/risk_manager.py:24-28`) it still approves.

The others below were met while modelling.

*Trade execution*
* A crash after `completed` and before `record_trade_result` loses the result (`trading/signal_executor.py:478`).
* After a failed UPDATE of the stop, later ticks compare with the stored, older stop (`:160`); `StopHonoured` and
  `StopsHonoured` say so in their premises.
* Recovery marks an interrupted `open_trade` failed (`:107`) although the comment above says it checks for an
  open signal; a crash after `save_signal` leaves an open trade whose log says failed, and in live mode a fill
  without a trade.
* `broker.get_positions()` is used as a dictionary at `:85` and as a list at `:113-117`; with a broker a pending `close_trade`
  makes every start-up raise (`RecoveryRaises`). In `exec_live` a process that died within a closing never comes up again.
* `signal_id` is no column of `transaction_logs` (`:118`), so no interrupted close is ever found completed.
* `get_open_signals` inherits `LIMIT 20` (`data/storage.py:526`): older open trades are not watched (`ReadLimit`).
* `record_trade_result` saves the open-trade counter before `on_trade_closed` decrements it, so a restart loads one too
  many.
* `create_pending_order` passes a `status` that `save_signal` does not take (`:346-357`).
* `process_tick` is not among the skill's `capabilities` (`skills/signal_executor/skill.py:40`), which `safe_execute` checks
  (`skills/base.py:241`): the trade monitor's ticks are refused.
* `_update_trade` calls `update_signal_levels`, which storage does not have (`skill.py:425`).
* There are two risk managers (finding `trading_gate`). The limits set by commands and the settings page (`bot.py:99`,
  `api_server.py`) are written to the config; the check of the drawdown in `should_block_signal` is another one, over the journal.
* `open_signal` registers a trade before it is complete and `initialize` may be reading the open ones meanwhile; an exception while
  trailing stops are restored leaves the rest unfollowed with a warning (`:67-68`). `OpenWatched` names both.
* A closing cancelled at `save_state` never reaches `remove_trade` and `on_trade_closed` (`:489`): the engine keeps a closed trade and the counter
  one too many.
* `check_signals` repeats the logic of `_on_tick` without its lock.
* Journal rows are not closed when a signal is, so the drawdown check of the guardrails sees nothing.

*Stops, limits, sizes*
* A partial exit sets the stop to break-even even when trailing has moved it further (`trailing_stop.py:258`, against
  "Only move stop in favorable direction" at `:189`). Only tests call it. The stop it moves is in memory alone: a tick
  closes at the stored one until the next UPDATE (`unsaved`).
* The "rolling 7-day window" is a tumbling one (`risk_manager.py:500`, comment at `:91`).
* A result changes memory before its save is awaited (`:605-619`): a cancellation or a crash there loses it from the disk, and of two saves the one
  that ends last stays, even if it began first (`ResultsKept` names the three).
* The pause after three losses (`:536`, "Pause after N consecutive losses" at `:28`) never ends: only a winning trade resets the
  streak, and none is approved.
* Pips (`record_trade_result`) and the account's currency (`assess_trade`) are compared as if they were one unit.
* The Kelly fraction (0 to 0.02) is used as a percentage (`risk_manager.py:209-214`): a proven winning record is always sized at
  the floor, a losing one with the full risk.
* The size is for the manager's stop, the trade gets the adaptive one (`skills/risk_management/skill.py:75-113`); an approved trade
  may risk more than the 2 % of `SKILL.md:81`. The guardrail widens a stop to 25 pips without moving the target, and the
  safety enhancement runs twice (`cron.py:607`, `skills/signal_executor/skill.py:161`).
* An intent below 0.4 is raised to 0.6 whenever the confidence adjustment is at least that, against `SKILL.md:76` "blocked".
* `insufficient_risk_reward` can never fire, and any direction but BUY is computed as a sale.

*Emergency*
* A deviation of five minutes replaces the end of a day-long emergency (`skills/deviation_monitor/skill.py:111`, against
  "full day halt" at `SKILL.md:105`).
* Without an `agent_core_state` on disk the saved emergency is not restored (`agent_core.py:1012`), against
  `skills/deviation_monitor/SKILL.md:114` (mishap `no_state`).
* An emergency raised while the agent restores may be overwritten by what was read before (`agent_core.py:1032`, mishap
  `early_shift`).
* The API's scan runs with a fresh context (`api_server.py:381`): there only the halt of 300 s blocks a trade.
* The kill switch is read once at the start of the auto trader (`cron.py:563`): it does not stop one that is running. The
  settings page, sent with its default, undoes it (`api_server.py:919` against `:379`).

*Pipeline and auto trader*
* The auto trader demands a confidence of 60 (`cron.py:585`) where all but the debate leave a fraction of one
  (`orchestrator.py:456-458`): only debated signals can pass, which is what `DebatedBeforeTraded` states.
* The pipelines of the agent, the pulse and the commands work on the same global context as the auto trader's. `DebatedBeforeTraded` and
  `RiskMatchesSignal` hold of runs that none of them cuts into (`alone`). One that does may replace the signal between the debate and the trade: then
  the auto trader opens what nobody debated (against "Only execute high-confidence signals autonomously", `cron.py:583`, if its confidence is a
  strategy's per cent) or what was assessed for the other direction.
* After a failed candle fetch the analysis uses earlier candles; `data_quality_warning` is never taken back; `history` of the
  context grows without bound (`skills/base.py:66`); a failed D1 labels the H1 bias as D1.

*Agent, world model, convictions*
* `list_trades` answering with an empty list is not passed on (`agent_core.py:354`): after the last trade closes the agent
  believes it open, and REVIEWING never follows the close of a real trade.
* With a known open trade and no price, monitoring returns before it notes the time (`:516`) and takes the place of
  every other state. With one driver only, monitoring is due at every tick (`:870`).
* The verdict is stored as "buy" or "sell" (`world_model.py:325`) and stays after the conflict is gone; a thesis formed from it is
  sold whatever it says (`agent_core.py:437`).
* An empty change counts as significant, so every quiet scan leads to an analysis; the same change is weighed again after each
  scan until the next analysis (`:405-416`).
* The summary for the status page may be older than the last update (`world_model.py:470`, against the comment at `:469`); the one
  for reasoning is only asked for after a change, which renews it. After a restart both are gone.
* An overlap session lowers the bar again that an event has raised (`agent_core.py:937`); no skill reports a sweep; minutes to
  the next event never count down.
* No handler is registered, so a dispatched OPEN_TRADE does nothing; `pause()` and `resume()` have no caller; IDLE is left by the
  first tick and never returned to, unlike in the OODA diagrams of the README and `docs/ARCHITECTURE.md`.
* A level that the language model gives as text makes every later tick of the tracker raise (`:697`); `ExpiresByCreation` is checked
  without such levels (`TextLevels` is FALSE; with them no conviction would end).
* A conviction ends 48 hours after it was formed, reinforced or not (`conviction.py:309` compares `created_at`), against "Convictions expire after 48h
  without reinforcement" (`:97`): that is what `ExpiresByCreation` states of the code. Deactivated convictions are not archived.

*Services*
* The breaker does not reset its failure count on success in CLOSED (against "consecutive", `utils/resilience.py:131`), and every
  call in HALF_OPEN is a probe (`:149-165`).
* An iteration time-out cancels a router call whose cost is then never recorded; router and interface have separate cost trackers.
* Callbacks swallow their exceptions, so the scheduler's health report sees only time-outs; `wait_for(120)` may cut the auto
  trader off inside `open_trade`; `stop()` stops neither running tasks nor the job queue's ticking.
* The pool is created lazily without a lock (`data/storage.py:265`), so two first users build two; `close()` leaks connections in
  use. A failed or cancelled write leaves its transaction open on a pooled connection (`:289-297`, against "ACID" in `docs/STORAGE.md`);
  a later commit by another method decides about it.
* Synchronous requests of two providers block the event loop (docstring at `data/multi_provider.py:289`); a repeated quote is marked
  as cached, and no reader looks at the mark; it also stops the failover (`:177`). Yahoo's price is 15 minutes behind and says so
  in a warning (`:232`, `:238`). At a weekend every source's last price goes without a mark, although `data/provider.py:53` speaks of
  a marked fallback. The age of candles counts from their fetching: what a source sends may end earlier.
* The forecast cache answers any timeframe with the one it was filled for, and keeps apologies of the model as forecasts for 300 s.
* Stop and start within the simulator's sleep leave two loops; exit costs are counted twice; a trade closed as won may have
  lost.
* Only the newest hundred unresolved patterns are read (`learning/pattern_tracker.py:88`, "Check all unresolved patterns") and
  neutral ones never resolve; `register_forecast` has no caller, so the arbiter's
  blending with the record of forecasts (`conflict_arbiter.py:88-99`) multiplies by 1 and is left out; nobody reads the tuned parameters.
* Market events are made without strengths, so every alert counts as low and is suppressed in quiet hours and within 60
  minutes of any other; one chat's success suppresses the retry for the others; a chat without preferences ends the signal
  notices.
* Never invoked in production: price alerts, `SmartAlerts`, `SafetyBreaker`, heartbeat checks, `reset_breakers`,
  `MultiSource.clear_cache`, `run_analysis`, `SignalGenerator`.

*Analysis and backtests*
* The pattern tracker learns by a pattern's name (`learning/pattern_tracker.py:242-257`) and reaches the strategy by `inject_dependencies`
  (`orchestrator.py:110-114`, `telegram_bot.py:117`): a double top and a double bottom may get different multipliers, so equal patterns of
  opposite sides need not give equal confidence. `Mirrored` turns what was learned with the market.
* `skills/technical_analysis/SKILL.md:81` names an inverse head and shoulders, for which there is no detector; `Mirrored` compares all
  other patterns.
* `mtf_bias` is stored as "Bullish" and compared in lower case (`skills/trading_strategy/skill.py:92-93`); patterns lack the key "bias";
  a breakout never gives a direction; an ADX between 21 and 25 always waits; draws of the vote go to BUY.
* The macro data lacks the key that confluence asks for, so uncertainty below an ADX of 40 is always high; the causal layer is never
  fed; the behavioural one is computed and thrown away.
* The liquidity sweep looks back 90 seconds on hourly bars; a close exactly on a zone counts as rejected from above.
* The offline engine judges positions by a bar's extremes before it enters at that bar's open (`backtest/engine.py:95-99` describes the
  other order): an order's own bar never ends it, and a place freed by the bar's extremes is used at its open. `EntersAsSaid` states that these two
  kinds of bar are the only ones. It charges no commission. "Exits are always adverse" (`trading/execution_simulator.py:177`) and "Slippage is always >= 0"
  (`:255`, which adds "negative slippage = price improvement, rare"), but one slippage in ten improves the price (`:261`): `FillsCost` bounds what that can bring.
* The replay called deterministic (`:4-6`) draws at random and asks the clock; `run_walk_forward`
  raises AttributeError; closing at the end of the data costs nothing in the replay; the harness counts its drawdown from the balance after the first trade
  (`evaluation/harness_core.py:149`, `DrawdownExact`); walk-forward windows overlap; the cross-validation never uses its training bars.

---

## 8. Not modelled, and why

| part | why |
|---|---|
| Retry decorator, rate limiter | one coroutine sleeping and trying again; its effect, a late failure, is an outcome of every call in the modules |
| Event bus, heartbeat | delivery is a loop over a list; the one subscriber that changes trading state is in `EmergencyHalt`; no heartbeat check is registered |
| Skill framework, registry | dispatch by name and a time limit; a skill that fails or is too late writes nothing, which is an outcome in the modules that call skills |
| Memory, reflection, session plans, briefings | text for prompts and users, similarity of embeddings, single inserts |
| News, calendar, macro, sentiment | fetching and scoring of text; what is made of the score is in the analysis modules |
| Safety circuit breaker | never constructed |
| Indicator arithmetic | floating-point series that libraries define; the models start from readings |
| Older signal generator, other analysis skills | no caller; statistics over one data frame without state |
| Tuner, forecasts, counterfactuals | read by nobody, fed by nobody, or ending in a swallowed TypeError |
| Reports, behaviour analytics | aggregation of stored rows |
| Telegram commands, user settings, webhooks | request and answer with the library |
| Configuration, entry point, logging, charts, formatting | reading at start, output |
| Judge, behavioural validator | offline scoring for development |

Inside the modelled parts: the ATR, fixed and step methods of the trailing stop (nothing selects them), `check_signals`'
pending orders (they cannot be created), stateless pages and authorisation of the API, parsing of tool calls, prompts, Sharpe and Sortino
ratios, shadow mode, Fibonacci and pivot levels. Retries inside SQLite and partially written pages: a storage call
happens, raises, or is cancelled.

---

## 9. The plan

Done, in this order: `PositionBook`, `TradeExecution`, `TrailingStop`, `RiskManager`, `EmergencyHalt`, `AgentCore` with
their proofs; `TradePipeline`; the services; the data and analysis modules; `WorldModel`.

Left, most important first:

| what | content |
|---|---|
| proofs | a weaker book that allows a second settlement, for closings that are not apart; the gateway's answers as a safety property of its steps |
| overlapping pipelines | what still holds of a run that another cuts into, with the arbiter's and the debate's figures told apart |
| composition | the agent's theses (`WorldModel`) driving `Convictions` with real levels; the auto trader of `TradePipeline` calling `TradeExecution` |
| tuner | two `auto_tunes` on one `tuning.json` (a lost update) |
| smaller parts | `SmartAlerts` and price alerts, if they are ever called |

Small modules that share no state share a TLC module and a run, so that the runs stay few. Wherever a module is to
be proved about, recursion is written with functions or folds.
