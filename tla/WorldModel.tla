----------------------------- MODULE WorldModel -----------------------------
(* The agent's picture of the market: how a pipeline run and the scans write *)
(* it, what of it counts as changed, the summary that is handed out and kept,*)
(* and what the agent makes of a change: evidence for or against a thesis, a *)
(* new thesis, a trade.  Words are kept as the code spells them.  Prices are *)
(* in tenths of a pip, RSI, ADX and the weight of evidence in tenths, and    *)
(* confidence in hundredths of a percent.  One thesis is followed; what time *)
(* and price do to it is in Convictions.  Nothing puts a sweep, an order     *)
(* block or a sweep's bias into the context, so they are left out.           *)
EXTENDS Integers, FiniteSets, Sequences, TLC

CONSTANTS Reports,     \* what the skills of a pipeline run may write
          WorldTicks,  \* what a scan may read: price and spread
          Listed,      \* how many open trades storage may list
          MaxUpdates,  \* bound: pipeline runs
          MaxScans,    \* bound: scans after a pipeline run
          KillSpread   \* safety_spread_kill_threshold

\* What a skill may say of the trend, and how the verdict of the arbiter or the
\* committee reads in small letters.
Leanings == {"bullish", "bearish", "neutral", "Bullish", "Bearish", "Neutral"}
Lowered == [BUY |-> "buy", SELL |-> "sell", NEUTRAL |-> "neutral", HOLD |-> "hold"]

ASSUME WorldAssumption ==
  /\ Listed \subseteq Nat /\ MaxUpdates \in Nat /\ MaxScans \in Nat /\ KillSpread \in Nat
  /\ \A r \in Reports : /\ \A k \in {"spread", "soon", "rsi", "hist"} \cap DOMAIN r : r[k] \in Int
                        /\ \A k \in {"bias", "mtf"} \cap DOMAIN r : r[k] \in Leanings
                        /\ "verdict" \in DOMAIN r => r.verdict \in DOMAIN Lowered
  /\ \A t \in WorldTicks : t.spread \in Int

VARIABLES
  world,     \* the sub-states, with what a summary shows or a decision asks of them
  found,     \* external: the shared context; what a run does not write stays
  snapshot,  \* _last_snapshot
  cached,    \* _cached_summary
  belief,    \* the thesis followed
  stage,     \* of the agent: it scans or analyses next, lists the trades, or reviews
  updates, scans

worldVars == <<world, found, snapshot, cached, belief, stage, updates, scans>>

Nothing == [none |-> TRUE]
BlankWorld == [price |-> 0, spread |-> 0, bias |-> "neutral", rsi |-> 500, adx |-> 200, hist |-> 0,
          mtf |-> "neutral", direction |-> "neutral", regime |-> "ranging", session |-> "off",
          rates |-> "", allowed |-> TRUE, soon |-> 999, trades |-> 0]

WorldInit ==
  /\ world = BlankWorld /\ found = << >> /\ snapshot = Nothing /\ cached = Nothing /\ belief = Nothing
  /\ stage = "scan" /\ updates = 0 /\ scans = 0
-----------------------------------------------------------------------------
(* The picture *)

SignalWord(f) ==
  CASE "signal" \in DOMAIN f /\ f.signal = "BUY" -> "bullish"
    [] "signal" \in DOMAIN f /\ f.signal = "SELL" -> "bearish"
    [] OTHER -> "neutral"

\* What the context does not name stays, and a verdict replaces the signal.
Synced(w, f) ==
  LET told == [k \in DOMAIN w |-> IF k \in DOMAIN f THEN f[k] ELSE w[k]]
  IN  [told EXCEPT !.direction =
         IF "verdict" \in DOMAIN f THEN Lowered[f.verdict] ELSE SignalWord(f)]

\* The keys of a snapshot, and by how little a number may move unnoticed.
Compared(w) ==
  [price |-> w.price, regime |-> w.regime, direction |-> w.direction, bias |-> w.bias,
   rsi |-> w.rsi, adx |-> w.adx, session |-> w.session, trades |-> w.trades]
Unnoticed == [price |-> 5, rsi |-> 10, adx |-> 10]

Between(a, b) == IF a < b THEN b - a ELSE a - b

\* get_delta
Changed ==
  LET now == Compared(world)
  IN  {k \in DOMAIN now : /\ snapshot[k] # now[k]
                          /\ k \in DOMAIN Unnoticed => Between(snapshot[k], now[k]) >= Unnoticed[k]}

Initial == snapshot = Nothing

\* has_significant_change, asked when something changed
Significant ==
  \/ Changed \cap {"regime", "direction", "session"} # {}
  \/ "price" \in Changed /\ Between(world.price, snapshot.price) > 100
  \/ /\ "rsi" \in Changed
     /\ \/ (snapshot.rsi < 300) # (world.rsi < 300)
        \/ (snapshot.rsi > 700) # (world.rsi > 700)

\* The kept summary is given while nothing changed since the last snapshot.
Cacheable == cached # Nothing /\ ~Initial /\ Changed = {}

Summary == IF Cacheable THEN cached ELSE world

\* A run of the pipeline, whatever its skills could find out.
UpdateWorld(r) ==
  /\ stage = "scan" /\ updates < MaxUpdates
  /\ found' = [k \in DOMAIN r \cup DOMAIN found |-> IF k \in DOMAIN r THEN r[k] ELSE found[k]]
  /\ snapshot' = Compared(world)
  /\ world' = Synced(world, found')
  /\ stage' = "list" /\ updates' = updates + 1 /\ scans' = 0
  /\ UNCHANGED <<cached, belief>>

\* The open trades as storage has them; an empty list is not passed on.
ListOpenTrades(n) ==
  /\ stage = "list" /\ stage' = "review"
  /\ world' = IF n = 0 THEN world ELSE [world EXCEPT !.trades = n]
  /\ UNCHANGED <<found, snapshot, cached, belief, updates, scans>>

\* A scan: no snapshot is taken. What changed since the last one is reviewed
\* again, unless it is significant, or nothing, or the analysis is due anyway.
ScanPrice(t) ==
  /\ stage = "scan" /\ scans < MaxScans
  /\ world' = [world EXCEPT !.price = t.price, !.spread = t.spread]
  /\ scans' = scans + 1
  /\ UNCHANGED <<found, snapshot, cached, belief, updates>>
  /\ stage' \in {"scan"} \cup IF ~Initial /\ Changed' # {} /\ ~Significant' THEN {"review"} ELSE {}

\* The status page, a chat or the session planner asks for the summary.
TellWorld ==
  /\ cached # Summary /\ cached' = Summary
  /\ UNCHANGED <<world, found, snapshot, belief, stage, updates, scans>>

\* A graceful stop saves the picture and the theses, but neither the snapshot
\* nor the context; without one there may be nothing to restore.
RestartAgent(graceful) ==
  /\ updates > 0 /\ world' = (IF graceful THEN world ELSE BlankWorld)
  /\ belief' = (IF graceful THEN belief ELSE Nothing)
  /\ found' = << >> /\ snapshot' = Nothing /\ cached' = Nothing /\ stage' = "scan"
  /\ UNCHANGED <<updates, scans>>
-----------------------------------------------------------------------------
(* Evidence *)

Piece(holds, for, weight, source, says) ==
  IF holds THEN <<[for |-> for, weight |-> weight, source |-> source, says |-> says]>> ELSE <<>>

\* Of what changed, for a thesis that says own
DeltaEvidence(own) ==
  LET trending == "regime" \in Changed /\ world.regime = "trending"
      Word(k, is, yes, no) ==
        Piece(k \in Changed /\ is = own, TRUE, yes, "technical", is)
          \o Piece(k \in Changed /\ is \notin {own, "neutral"}, FALSE, no, "technical", is)
  IN  Piece(trending /\ own = "bullish", TRUE, 15, "regime", "")
        \o Piece(trending /\ own = "bearish", world.direction = "bearish", 10, "regime", "")
        \o Word("bias", world.bias, 12, 15)
        \o Word("direction", world.direction, 10, 18)

\* Of the picture as it is, for a new thesis
InitialEvidence(w, own) ==
  LET up == own = "bullish"  down == own = "bearish"
      Word(is, yes, no) ==
        Piece(is = own, TRUE, yes, "technical", is)
          \o Piece(is \notin {own, "neutral"}, FALSE, no, "technical", is)
  IN  Word(w.bias, 12, 10)
        \o Piece(w.adx > 300, TRUE, 13, "technical", "")
        \o Piece(\/ up /\ 400 < w.rsi /\ w.rsi < 700
                 \/ down /\ 300 < w.rsi /\ w.rsi < 600, TRUE, 8, "technical", "")
        \o Piece((up /\ w.hist > 0) \/ (down /\ w.hist < 0), TRUE, 10, "technical", "")
        \o Piece(w.regime = "trending" /\ w.direction = own, TRUE, 15, "regime", own)
        \o Word(w.mtf, 15, 15)
        \o Piece((up /\ w.rates = "EUR stronger") \/ (down /\ w.rates = "USD stronger"),
                 TRUE, 13, "fundamental", own)

Favouring(es) == {i \in DOMAIN es : es[i].for}

EvidenceWeight(es, side) ==
  LET sum[i \in 0 .. Len(es)] ==
        IF i = 0 THEN 0 ELSE sum[i - 1] + IF es[i].for = side THEN es[i].weight ELSE 0
  IN  sum[Len(es)]

\* _calculate_initial_confidence
FirstConfidence(es) ==
  LET yes == EvidenceWeight(es, TRUE)  no == EvidenceWeight(es, FALSE)
      many == Cardinality({es[i].source : i \in Favouring(es)}) >= 3
      c == 3000 + (4000 * yes) \div (yes + no) + IF many THEN 1000 ELSE 0
  IN  IF yes + no = 0 THEN 3000 ELSE IF c > 8000 THEN 8000 ELSE c

Thesis(own, es) ==
  [direction |-> own, confidence |-> FirstConfidence(es)]

\* add_evidence
Weighed(b, e) ==
  LET more == b.confidence + (e.weight * 5 * (10000 - b.confidence)) \div 1000
      less == b.confidence - 80 * e.weight
  IN  [b EXCEPT !.confidence = IF e.for THEN IF more > 9500 THEN 9500 ELSE more
                               ELSE IF less < 500 THEN 500 ELSE less]

Weighing(b, es) ==
  LET after[i \in 0 .. Len(es)] == IF i = 0 THEN b ELSE Weighed(after[i - 1], es[i])
  IN  after[Len(es)]

Reviews == stage = "review" /\ ~Initial /\ Changed # {}

AfterDelta == IF belief = Nothing THEN Nothing ELSE Weighing(belief, DeltaEvidence(belief.direction))

\* create_conviction: one of the same direction is strengthened, the thesis of
\* another direction stands beside it and is not followed.
Forming(b, own) ==
  LET es == InitialEvidence(world, own)
  IN  IF b = Nothing THEN Thesis(own, es) ELSE IF b.direction = own THEN Weighing(b, es) ELSE b

\* _form_heuristic_conviction takes the direction as the picture spells it.
Heuristic ==
  /\ world.adx >= 250 /\ world.regime \in {"trending", "breakout"}
  /\ world.direction # "neutral"
  /\ Cardinality(Favouring(InitialEvidence(world, world.direction))) >= 2

\* CONVICTION_FORMING: the evidence of the change, and if that is significant
\* the model is asked; it may form a thesis, leave it, or fail.
Review ==
  /\ Reviews /\ stage' = "scan"
  /\ \/ belief' = AfterDelta
     \/ /\ Significant
        /\ \E own \in {"bullish", "bearish"} \cup IF Heuristic THEN {world.direction} ELSE {} :
             belief' = Forming(AfterDelta, own)
  /\ cached' = IF Significant THEN Summary ELSE cached
  /\ UNCHANGED <<world, found, snapshot, updates, scans>>

NothingToReview ==
  /\ stage = "review" /\ ~Reviews /\ stage' = "scan"
  /\ UNCHANGED <<world, found, snapshot, cached, belief, updates, scans>>

\* It is invalidated, realized or expires.
ThesisEnds ==
  /\ belief # Nothing /\ belief' = Nothing
  /\ UNCHANGED <<world, found, snapshot, cached, stage, updates, scans>>
-----------------------------------------------------------------------------
(* Decisions *)

Liquid(w) == w.session \in {"london", "new_york", "overlap"}

BarLax(w) == IF w.soon < 30 THEN 5500 ELSE 7000  \* mutant: swapped branches
\* The overlap takes back what the regime and an event raised.
Bar(w) ==
  IF w.session = "overlap" THEN 5000
  ELSE IF w.soon < 30 THEN 7000 ELSE IF w.regime = "volatile" THEN 6500 ELSE 5500

\* _should_evaluate_trade
ShouldTrade(w, b) == w.spread <= KillSpread /\ b.confidence >= Bar(w) /\ Liquid(w)

\* Anything that is not "bullish" is sold.
TradeSide(b) == IF b.direction = "bullish" THEN "BUY" ELSE "SELL"

\* Trades that are known are monitored before anything is decided. Then
\* _do_decide, for a single thesis; nothing executes what it proposes.
Proposes(w, b) ==
  w.trades = 0 /\ ShouldTrade(w, b) /\ b.confidence >= 5500 /\ w.allowed /\ w.soon >= 15

WorldNext ==
  \/ \E r \in Reports : UpdateWorld(r)
  \/ \E n \in Listed : ListOpenTrades(n)
  \/ \E t \in WorldTicks : ScanPrice(t)
  \/ \E graceful \in BOOLEAN : RestartAgent(graceful)
  \/ TellWorld \/ Review \/ NothingToReview \/ ThesisEnds

WorldSpec == WorldInit /\ [][WorldNext]_worldVars
-----------------------------------------------------------------------------
\* The picture with more to be careful of: wider, nearer an event, wilder, less
\* liquid, with a trade open or trading not allowed.
Graver(w) ==
  {[w EXCEPT !.spread = @ + 50], [w EXCEPT !.soon = IF @ > 20 THEN 20 ELSE 10],
   [w EXCEPT !.session = IF @ = "overlap" THEN "london" ELSE "asian"],
   [w EXCEPT !.regime = "volatile"], [w EXCEPT !.trades = 1], [w EXCEPT !.allowed = FALSE]}

\* Nothing to be careful of makes the agent propose what it otherwise would not.
StandsAside ==
  belief # Nothing => \A v \in Graver(world) : Proposes(v, belief) => Proposes(world, belief)

Turn == [bullish |-> "bearish", bearish |-> "bullish", Bullish |-> "Bearish",
         Bearish |-> "Bullish", buy |-> "sell", sell |-> "buy",
         neutral |-> "neutral", Neutral |-> "Neutral", hold |-> "hold"]

MirrorWorld(w) ==
  [w EXCEPT !.bias = Turn[@], !.mtf = Turn[@], !.direction = Turn[@], !.rsi = 1000 - @,
            !.hist = -@, !.rates = CASE @ = "EUR stronger" -> "USD stronger"
                                     [] @ = "USD stronger" -> "EUR stronger" [] OTHER -> @]

\* A new thesis and its opposite in the picture turned upside down are believed
\* alike.
ThesesMirrored ==
  \A own \in {"bullish", "bearish"} :
    FirstConfidence(InitialEvidence(world, own))
      = FirstConfidence(InitialEvidence(MirrorWorld(world), Turn[own]))

\* "confirms thesis": what turned to the side of a thesis speaks for it, and a
\* trade is proposed on its side.  The code compares words of three spellings,
\* and one of them is always against, or sold.
SideOf(word) ==
  IF word \in {"bullish", "Bullish", "buy", "BUY"} THEN "up"
  ELSE IF word \in {"bearish", "Bearish", "sell", "SELL"} THEN "down" ELSE "none"

ThesisServed ==
  belief # Nothing =>
    LET own == SideOf(belief.direction)  es == DeltaEvidence(belief.direction)
    IN  /\ Reviews => \A i \in DOMAIN es : own # "none" /\ SideOf(es[i].says) = own => es[i].for
        /\ Proposes(world, belief) /\ own # "none" => SideOf(TradeSide(belief)) = own
=============================================================================
