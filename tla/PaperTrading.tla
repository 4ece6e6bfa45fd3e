---------------------------- MODULE PaperTrading ----------------------------
(* TradingSimulator and the four requests of the Mini App that drive it.     *)
(* start() is a task of its own, and nothing keeps a second one from being   *)
(* started while the first sleeps; every method between two awaits is one    *)
(* step.  Prices, costs and results in pips of one position size.            *)
EXTENDS Integers, FiniteSets, Sequences

CONSTANTS Quotes,     \* prices the feed gives
          Spreads,    \* costs ExecutionSimulator draws
          StopPips, TargetPips, \* around a manual trade, 20 and 40
          Least,      \* minimum_balance less initial_balance
          MaxTasks,   \* bound on the tasks created
          MaxManual   \* bound on the trades asked for

ASSUME PaperAssumption ==
  /\ Quotes \subseteq Int /\ Spreads \subseteq Int /\ Least \in Int
  /\ {StopPips, TargetPips} \subseteq Nat \ {0} /\ {MaxTasks, MaxManual} \subseteq Nat

VARIABLES simulator, \* [made, provider, running, bankrupt, balance, count]
          openTrades, closedTrades,
          task,      \* where each call of start() is
          request    \* where each trade request is

paperVars == <<simulator, openTrades, closedTrades, task, request>>

Tasks == 1 .. MaxTasks
Requests == 1 .. MaxManual

PaperTypeOK ==
  /\ simulator \in [made : BOOLEAN, provider : BOOLEAN, running : BOOLEAN,
                    bankrupt : BOOLEAN, balance : Int, count : Nat]
  /\ task \in [Tasks -> {"unborn", "created", "asking", "sleeping", "ended"}]
  /\ request \in [Requests -> {"unborn", "asking", "answered"}]

PaperInit ==
  /\ simulator = [made |-> FALSE, provider |-> FALSE, running |-> FALSE,
                  bankrupt |-> FALSE, balance |-> 0, count |-> 0]
  /\ openTrades = <<>> /\ closedTrades = <<>>
  /\ task = [t \in Tasks |-> "unborn"]
  /\ request = [r \in Requests |-> "unborn"]

Way(direction) == IF direction = "BUY" THEN 1 ELSE -1

\* Trade.exit_reason
ExitReason(trade, price) ==
  LET moved == Way(trade.direction) * (price - trade.entry)
  IN  CASE moved <= -StopPips  -> "stop_loss"
        [] moved >= TargetPips -> "take_profit"
        [] OTHER               -> "none"

Pnl(trade, price, costs) == Way(trade.direction) * (price - trade.entry) - costs

\* Trade.close after simulate_exit: the cost moves the price and is taken off
\* the result again.
ClosedAs(trade, price, cost) ==
  LET filled == price - Way(trade.direction) * cost
  IN  [trade EXCEPT !.status = IF ExitReason(trade, price) = "stop_loss" THEN "CLOSED_LOSS" ELSE "CLOSED_WIN",
                    !.pnl = Pnl(trade, filled, trade.cost + cost)]

\* Mutant: a trade that is closed stays among the open ones.
StillOpen(trade, price) == TRUE

StaysOpen(trade, price) == ExitReason(trade, price) = "none"

\* The trades a price leaves open, and those it closes, in their order.
Watched(trades, price) ==
  LET left[n \in 0 .. Len(trades)] ==
        IF n = 0 THEN <<>>
        ELSE IF StaysOpen(trades[n], price)
          THEN Append(left[n - 1], [trades[n] EXCEPT !.pnl = Pnl(trades[n], price, trades[n].cost)])
          ELSE left[n - 1]
  IN  left[Len(trades)]

Finished(trades, price, cost) ==
  LET done[n \in 0 .. Len(trades)] ==
        IF n = 0 THEN <<>>
        ELSE IF ExitReason(trades[n], price) = "none" THEN done[n - 1]
          ELSE Append(done[n - 1], ClosedAs(trades[n], price, cost))
  IN  done[Len(trades)]

Earned(trades) ==
  LET sum[n \in 0 .. Len(trades)] == IF n = 0 THEN 0 ELSE sum[n - 1] + trades[n].pnl
  IN  sum[Len(trades)]

\* update_trades(price)
UpdateTrades(price, cost) ==
  LET done == Finished(openTrades, price, cost)
      balance == simulator.balance + Earned(done)
      broke == balance <= Least
  IN  /\ openTrades' = Watched(openTrades, price)
      /\ closedTrades' = closedTrades \o done
      /\ simulator' = [simulator EXCEPT !.balance = balance,
                                        !.bankrupt = @ \/ broke,
                                        !.running = @ /\ ~broke]

\* Made by whichever request comes first; the status page gives it no feed.
Made(provider) ==
  IF simulator.made THEN simulator ELSE [simulator EXCEPT !.made = TRUE, !.provider = provider]

\* _api_simulation
StatusAsked ==
  /\ ~simulator.made
  /\ simulator' = Made(FALSE)
  /\ UNCHANGED <<openTrades, closedTrades, task, request>>

\* _api_simulation_start
StartAsked ==
  /\ simulator' = Made(TRUE)
  /\ IF simulator.running
     THEN UNCHANGED task
     ELSE \E t \in Tasks :
            /\ task[t] = "unborn" /\ \A u \in Tasks : u < t => task[u] # "unborn"
            /\ task' = [task EXCEPT ![t] = "created"]
  /\ UNCHANGED <<openTrades, closedTrades, request>>

\* _api_simulation_stop
StopAsked ==
  /\ simulator.made
  /\ simulator' = [simulator EXCEPT !.running = FALSE]
  /\ UNCHANGED <<openTrades, closedTrades, task, request>>

\* _api_simulation_trade up to the price it waits for.
TradeAsked(r) ==
  /\ request[r] = "unborn"
  /\ simulator' = Made(TRUE)
  /\ request' = [request EXCEPT ![r] = "asking"]
  /\ UNCHANGED <<openTrades, closedTrades, task>>

\* open_trade, unless there is no price, no fill, or the account is bankrupt.
TradeOpened(r) ==
  /\ request[r] = "asking"
  /\ request' = [request EXCEPT ![r] = "answered"]
  /\ \/ UNCHANGED <<simulator, openTrades>>
     \/ /\ ~simulator.bankrupt
        /\ \E price \in Quotes, cost \in Spreads, direction \in {"BUY", "SELL"} :
             /\ simulator' = [simulator EXCEPT !.count = @ + 1]
             /\ openTrades' = Append(openTrades,
                  [id |-> simulator.count + 1, direction |-> direction, entry |-> price,
                   cost |-> cost, pnl |-> 0, status |-> "OPEN"])
  /\ UNCHANGED <<closedTrades, task>>

\* start() begins: without a feed it returns at once.
TaskBegins(t) ==
  /\ task[t] = "created"
  /\ IF simulator.provider
     THEN /\ simulator' = [simulator EXCEPT !.running = TRUE]
          /\ task' = [task EXCEPT ![t] = "asking"]
     ELSE /\ task' = [task EXCEPT ![t] = "ended"]
          /\ UNCHANGED simulator
  /\ UNCHANGED <<openTrades, closedTrades, request>>

\* The feed answers: with an error, or with a price.
PriceCame(t) ==
  /\ task[t] = "asking"
  /\ task' = [task EXCEPT ![t] = "sleeping"]
  /\ \/ UNCHANGED <<simulator, openTrades, closedTrades>>
     \/ \E price \in Quotes, cost \in Spreads : UpdateTrades(price, cost)
  /\ UNCHANGED request

\* Mutant: the loop is only left when the account is bankrupt.
RunningOn == ~simulator.bankrupt

GoesOn == simulator.running

Wakes(t) ==
  /\ task[t] = "sleeping"
  /\ task' = [task EXCEPT ![t] = IF GoesOn THEN "asking" ELSE "ended"]
  /\ UNCHANGED <<simulator, openTrades, closedTrades, request>>

PaperNext ==
  \/ StatusAsked \/ StartAsked \/ StopAsked
  \/ \E r \in Requests : TradeAsked(r) \/ TradeOpened(r)
  \/ \E t \in Tasks : TaskBegins(t) \/ PriceCame(t) \/ Wakes(t)

PaperSpec == PaperInit /\ [][PaperNext]_paperVars

\* The event loop runs what is ready; the feed answers or times out.
PaperWorks(t) == TaskBegins(t) \/ PriceCame(t) \/ Wakes(t)

-----------------------------------------------------------------------------

Ids(trades) == {trades[k].id : k \in DOMAIN trades}

\* Whatever loops work on it, the account adds up: every trade ever opened is
\* in exactly one list, once, and the balance is what the closed ones brought.
BooksBalance ==
  /\ Ids(openTrades) \cup Ids(closedTrades) = 1 .. simulator.count
  /\ Len(openTrades) + Len(closedTrades) = simulator.count
  /\ simulator.balance = Earned(closedTrades)

\* Once the simulation is stopped for good, by the user or by bankruptcy, every
\* loop ends, the ones a restart left behind included.
StoppedLoopsEnd ==
  <>[](~simulator.running /\ \A t \in Tasks : task[t] # "created")
    => <>[](\A t \in Tasks : task[t] \in {"unborn", "ended"})
=============================================================================
