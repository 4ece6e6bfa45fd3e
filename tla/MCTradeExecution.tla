-------------------------- MODULE MCTradeExecution --------------------------
(* TradeExecution with named callers: the auto trader and the API open     *)
(* trades; the trade monitor and the price stream process ticks; a user    *)
(* closes by hand.                                                         *)
EXTENDS TradeExecution, TLC

CONSTANTS autoTrader, api, monitor, stream, userA, userB, checker

InterchangeableUsers == Permutations({userA, userB})

\* After a crash the process comes up again, and every transaction it left
\* pending gets its verdict.
RecoveryEnds == PendingResolved /\ ComesUp
=============================================================================
