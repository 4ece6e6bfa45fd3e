---------------------------- MODULE PositionBook ----------------------------
(***************************************************************************)
(* What EuroScope promises about a trade, whatever the scheduling: a       *)
(* signal is opened once, closed once, and its result is settled with the  *)
(* risk manager at most once and only after it was closed.                 *)
(***************************************************************************)
EXTENDS Naturals

CONSTANT Sig

VARIABLES book,     \* book[s]: where the signal stands
          settled   \* settled[s]: how many results were recorded for it

bookVars == <<book, settled>>

Init == /\ book = [s \in Sig |-> "none"]
        /\ settled = [s \in Sig |-> 0]

Open(s) == /\ book[s] = "none"
           /\ book' = [book EXCEPT ![s] = "open"]
           /\ UNCHANGED settled

Close(s) == /\ book[s] = "open"
            /\ book' = [book EXCEPT ![s] = "closed"]
            /\ UNCHANGED settled

Settle(s) == /\ book[s] = "closed"
             /\ settled[s] = 0
             /\ settled' = [settled EXCEPT ![s] = 1]
             /\ UNCHANGED book

Next == \E s \in Sig : Open(s) \/ Close(s) \/ Settle(s)

Spec == Init /\ [][Next]_bookVars
=============================================================================
