----------------------------- MODULE Convictions -----------------------------
(* ConvictionTracker: the theses the agent forms, what evidence and time do  *)
(* to them, and how each one ends.  Called from one place of the agent at a  *)
(* time, so that an operation is a step.  Confidence is abstracted to the    *)
(* bands the thresholds make; evidence counts up to what activation needs.   *)
EXTENDS Naturals, FiniteSets

CONSTANTS Directions, \* directions a thesis may have
          Theses,     \* texts of theses
          MaxActive,  \* MAX_ACTIVE_CONVICTIONS
          MinEvidence, \* MIN_EVIDENCE_TO_ACTIVATE
          MaxFormed,  \* bound: convictions formed
          TextLevels  \* levels may come as text

ASSUME ConvictionAssumption ==
  {MaxActive, MinEvidence, MaxFormed} \subseteq Nat /\ TextLevels \in BOOLEAN

VARIABLE conv \* the convictions in the order they were formed; _history is
              \* those that ended, but for the deactivated ones

convictionVars == conv

\* Bands: below DEACTIVATION_CONFIDENCE, below ACTIVATION_CONFIDENCE, and above.
Bands == 0 .. 2

Conviction == [status : {"forming", "active"}, direction : Directions, thesis : Theses,
               band : Bands, support : 0 .. MinEvidence, old : BOOLEAN, text : BOOLEAN]
Ended == {"invalidated", "realized", "expired", "deactivated"}
Gone(s) == [status |-> s]

ConvictionInit == conv = <<>>

Formed == DOMAIN conv
Open == {i \in Formed : conv[i].status \in {"forming", "active"}}

\* Mutant: those still forming are not counted.
FullOfActive == Cardinality({i \in Open : conv[i].status = "active"}) >= MaxActive

\* Those still forming count: evidence may make each of them active.
Full == Cardinality(Open) >= MaxActive

\* Mutant: a thesis that is already there is the one that is strengthened.
StrengthenedSame(d, t) == {i \in Open : conv[i].direction = d /\ conv[i].thesis = t}

\* Open convictions of the direction, with another thesis: the first of them
\* takes the evidence of the new one.
Strengthened(d, t) == {i \in Open : conv[i].direction = d /\ conv[i].thesis # t}

\* A confidence of 0.60 or more makes it active at once, whatever the number
\* of its evidence; without any it is 0.3.
Form(d, t, support, band) ==
  /\ ~Full /\ Cardinality(Formed) < MaxFormed
  /\ Strengthened(d, t) = {}
  /\ support = 0 => band = 0
  /\ \E text \in BOOLEAN :
       /\ text => TextLevels
       /\ conv' = [i \in Formed \cup {Cardinality(Formed) + 1} |->
            IF i \in Formed THEN conv[i]
            ELSE [status |-> IF band = 2 THEN "active" ELSE "forming", direction |-> d,
                  thesis |-> t, band |-> band, support |-> support, old |-> FALSE,
                  text |-> text]]

\* Mutant: the age counts from the last evidence.
RefreshedYoung(c) == FALSE

\* New evidence does not make a conviction younger.
Refreshed(c) == c.old

\* add_evidence, called alone or for each evidence of a conviction that
\* strengthens this one: for it, the confidence grows by less than a band.
AddEvidence(i, for, band) ==
  LET c == conv[i]
      support == IF for /\ c.support < MinEvidence THEN c.support + 1 ELSE c.support IN
  /\ i \in Open
  /\ IF for THEN band \in {c.band, c.band + 1} ELSE band <= c.band
  /\ conv' = [conv EXCEPT ![i] =
       [c EXCEPT !.band = band, !.support = support, !.old = Refreshed(c),
                 !.status = IF support >= MinEvidence /\ band = 2 THEN "active" ELSE @]]

\* The trade of a conviction is closed, or the agent drops it.
Close(i, s) == i \in Open /\ conv' = [conv EXCEPT ![i] = Gone(s)]

\* What may happen to a conviction in a tick: its level or its target is hit;
\* its confidence decays, stale evidence against it raises it again, or all its
\* evidence is pruned.
Lots == {"invalidated", "realized", "same", "lower", "higher", "pruned"}

Decayed(c, lot) ==
  CASE lot = "lower" /\ c.band > 0 -> [c EXCEPT !.band = @ - 1]
    [] lot = "higher" /\ c.band < 2 -> [c EXCEPT !.band = @ + 1]
    [] lot = "pruned" -> [c EXCEPT !.support = 0]
    [] OTHER -> c

\* Then it may be too old, or its confidence too low (which nothing archives).
Ticked(c, lot) ==
  CASE lot \in Ended -> Gone(lot)
    [] lot \notin Ended /\ c.old -> Gone("expired")
    [] lot \notin Ended /\ ~c.old /\ c.status = "active" /\ Decayed(c, lot).band = 0
         -> Gone("deactivated")
    [] OTHER -> Decayed(c, lot)

\* A level that is text cannot be compared with a price: the tick raises
\* before it comes to that conviction and those after it.
Reached(price) == {i \in Open : price => \A j \in Open : conv[j].text => i < j}

\* A tick of the tracker, with a price or without one.
Tick(price, lot) ==
  /\ \A i \in Open : ~price \/ i \notin Reached(price) => lot[i] \notin Ended
  /\ conv' = [i \in Formed |->
       IF i \notin Open THEN conv[i]
       ELSE IF i \in Reached(price) THEN Ticked(conv[i], lot[i]) ELSE Decayed(conv[i], lot[i])]

TickAny == \E price \in BOOLEAN : \E lot \in [Open -> Lots] : Tick(price, lot)

\* Decay is applied every 15 minutes: most ticks find nothing but the age. From
\* the first quote on the agent gives every tick a price.
QuietTick == Tick(TRUE, [i \in Open |-> "same"])

\* 48 hours since it was formed, with or without new evidence.
GrowOld(i) ==
  /\ i \in Open /\ ~conv[i].old
  /\ conv' = [conv EXCEPT ![i].old = TRUE]

ConvictionNext ==
  \/ \E d \in Directions, t \in Theses, s \in 0 .. MinEvidence, b \in Bands : Form(d, t, s, b)
  \/ \E i \in 1 .. MaxFormed : \/ \E for \in BOOLEAN, b \in Bands : AddEvidence(i, for, b)
                               \/ \E s \in {"invalidated", "realized"} : Close(i, s)
                               \/ GrowOld(i)
  \/ TickAny

ConvictionSpec == ConvictionInit /\ [][ConvictionNext]_convictionVars
----------------------------------------------------------------------------
ConvictionTypeOK == \A i \in Formed : conv[i] \in Conviction \cup {Gone(s) : s \in Ended}

\* "No flip-flopping": open convictions of one direction are of one thesis, a
\* new one only adds to what is believed. And "maximum 3 active convictions at
\* any time": not at their forming alone but whatever evidence, decay and ends
\* of others come in between, as those still forming have their places.
BeliefsCoherent ==
  /\ Cardinality(Open) <= MaxActive
  /\ \A i, j \in Open : conv[i].direction = conv[j].direction => conv[i].thesis = conv[j].thesis

\* 48 hours after it was formed a conviction ends, however lately it was
\* reinforced: the comment at conviction.py:97 has the 48 hours begin anew with
\* every reinforcement, by which a conviction could live for ever; the code
\* counts them from created_at.
ExpiresByCreation == \A i \in 1 .. MaxFormed : i \in Open /\ conv[i].old ~> i \notin Open
=============================================================================
