------------------------------ MODULE Learning ------------------------------
(* What the program learns from: the patterns the technical analysis records *)
(* and the learning tick that judges them against a price.  Every storage    *)
(* call is an await, between which a tick can be cut off.                    *)
EXTENDS Integers, FiniteSets, Sequences, SequencesExt

CONSTANTS Prices,    \* prices the feed gives
          Signals,   \* what a pattern announces
          Batch,     \* patterns read by a tick, 100
          Sample,    \* judged patterns a rate needs, 3
          MaxPatterns, \* bound on the detections
          MaxCuts    \* bound on the ticks that are cut off

ASSUME LearningAssumption ==
  /\ Prices \subseteq Int /\ Sample \in Nat \ {0} 
  /\ Signals \subseteq {"BULLISH", "BEARISH", "NEUTRAL"} /\ Batch \in Nat \ {0}
  /\ {MaxPatterns, MaxCuts} \subseteq Nat

VARIABLES patterns,   \* the rows of pattern_stats, oldest first
          multiplier, \* what the last detection was told of its kind
          tick,       \* the learning tick: [at, price, batch]
          cuts

learningVars == <<patterns, multiplier, tick, cuts>>

Resting == [at |-> "resting", price |-> 0, batch |-> <<>>]

LearningTypeOK ==
  /\ \A i \in DOMAIN patterns :
       patterns[i] \in [signal : Signals, entry : Prices, verdict : {"none", "success", "failure"}]
  /\ tick.at \in {"resting", "reading", "judging"}

LearningInit ==
  /\ patterns = <<>> /\ multiplier = 100 /\ tick = Resting /\ cuts = 0

-----------------------------------------------------------------------------
(* Patterns. *)

Judged == {i \in DOMAIN patterns : patterns[i].verdict # "none"}
Unresolved == {i \in DOMAIN patterns : patterns[i].verdict = "none"}

\* get_confidence_multiplier in hundredths, from get_pattern_success_rates.
ConfidenceMultiplier ==
  LET good == {i \in Judged : patterns[i].verdict = "success"}
  IN  IF Cardinality(Judged) < Sample THEN 100
      ELSE 50 + (100 * Cardinality(good)) \div Cardinality(Judged)

\* record_detection, then the multiplier of the pattern's kind.
DetectPattern ==
  /\ Len(patterns) < MaxPatterns
  /\ \E signal \in Signals, entry \in Prices :
       patterns' = Append(patterns, [signal |-> signal, entry |-> entry, verdict |-> "none"])
  /\ multiplier' = ConfidenceMultiplier
  /\ UNCHANGED <<tick, cuts>>

\* Mutant: the oldest ones are read.
Oldest(limit) == SelectSeq([i \in DOMAIN patterns |-> i],
                           LAMBDA i : i \in Unresolved /\ Cardinality({j \in Unresolved : j < i}) < limit)

\* get_unresolved_patterns: the latest ones, latest first.
Latest(limit) ==
  Reverse(SelectSeq([i \in DOMAIN patterns |-> i],
                    LAMBDA i : i \in Unresolved /\ Cardinality({j \in Unresolved : j > i}) < limit))

\* resolve_pending's judgement of a pattern.
PatternVerdict(pattern, price) ==
  LET moved == price - pattern.entry
  IN  CASE pattern.signal = "BULLISH" /\ moved > 0 -> "success"
        [] pattern.signal = "BULLISH" /\ moved < 0 -> "failure"
        [] pattern.signal = "BEARISH" /\ moved < 0 -> "success"
        [] pattern.signal = "BEARISH" /\ moved > 0 -> "failure"
        [] OTHER                                   -> "none"

\* learning_tick, unless the hours are quiet: asks the price.
TickStarts(price) ==
  /\ tick = Resting
  /\ tick' = [at |-> "reading", price |-> price, batch |-> <<>>]
  /\ UNCHANGED <<patterns, multiplier, cuts>>

TickReads ==
  /\ tick.at = "reading"
  /\ tick' = [tick EXCEPT !.at = "judging", !.batch = Latest(Batch)]
  /\ UNCHANGED <<patterns, multiplier, cuts>>

\* One round of resolve_pending's loop: at most one update.
TickJudges ==
  /\ tick.at = "judging"
  /\ IF tick.batch = <<>>
     THEN tick' = Resting /\ UNCHANGED patterns
     ELSE LET i == Head(tick.batch)
              verdict == PatternVerdict(patterns[i], tick.price)
          IN  /\ tick' = [tick EXCEPT !.batch = Tail(@)]
              /\ patterns' = IF verdict = "none" THEN patterns
                             ELSE [patterns EXCEPT ![i].verdict = verdict]
  /\ UNCHANGED <<multiplier, cuts>>

\* Cut off after two minutes, or a storage call raised.
TickCut ==
  /\ tick.at # "resting" /\ cuts < MaxCuts
  /\ tick' = Resting /\ cuts' = cuts + 1
  /\ UNCHANGED <<patterns, multiplier>>

LearningNext ==
  \/ DetectPattern
  \/ \E price \in Prices : TickStarts(price)
  \/ TickReads \/ TickJudges \/ TickCut

-----------------------------------------------------------------------------

\* A pattern that announces a direction is judged in the end, unless a batch of
\* later ones that never will be stands before it.
JudgedUnlessCrowded ==
  \A i \in 1 .. MaxPatterns :
    <>[](i \in Unresolved /\ patterns[i].signal # "NEUTRAL")
      => <>[](Cardinality({j \in Unresolved : j > i}) >= Batch)
=============================================================================
