-------------------------- MODULE Mirrored_proofs --------------------------
(* Both sides of the market are served alike: for every market, chart,      *)
(* timeframe, zone, trade and picture of the world, its mirror image is     *)
(* answered with the mirror image of the answer.                            *)
EXTENDS Analysis_proofs

(* What a mirrored trade gets. *)

Opposite(q, p) ==
  /\ p.direction \in {"BUY", "SELL"} /\ q.direction = (IF p.direction = "BUY" THEN "SELL" ELSE "BUY")
  /\ q.zones = {-z : z \in p.zones}
  /\ q.support = Negated(p.resistance) /\ q.resistance = Negated(p.support)

\* All that has no side.
Alike(q, p) ==
  /\ q.atr = p.atr /\ q.usual = p.usual /\ q.session = p.session /\ q.intent = p.intent /\ q.lift = p.lift
  /\ q.tolerance = p.tolerance /\ q.losses = p.losses /\ q.down = p.down /\ q.limits = p.limits
  /\ q.gbp = p.gbp /\ q.chf = p.chf /\ q.regime = p.regime /\ q.strength = p.strength
  /\ q.swings = p.swings /\ q.record = p.record /\ q.account = p.account /\ q.alarm = p.alarm
  /\ q.volatile = p.volatile /\ q.uncertain = p.uncertain

LEMMA NegatedSequence ==
  ASSUME NEW s \in Seq(Int)
  PROVE  /\ Negated(s) \in Seq(Int) /\ DOMAIN Negated(s) = DOMAIN s
         /\ \A i \in DOMAIN s : s[i] \in Int /\ Negated(s)[i] = -s[i]
  <1>1. Len(s) \in Nat /\ DOMAIN s = 1 .. Len(s) /\ \A i \in DOMAIN s : s[i] \in Int
    OBVIOUS
  <1> DEFINE l == Len(s)
  <1>2. l \in Nat /\ DOMAIN s = 1 .. l
    BY <1>1
  <1> HIDE DEF l
  <1> DEFINE g == Negated(s)
  <1>3. g = [i \in 1 .. l |-> -s[i]]
    BY <1>2 DEF Negated
  <1> HIDE DEF g
  <1>4. ASSUME NEW i \in 1 .. l PROVE s[i] \in Int /\ -s[i] \in Int /\ g[i] = -s[i]
    BY <1>1, <1>2, <1>3
  <1>5. g \in [1 .. l -> Int] /\ DOMAIN g = 1 .. l
    BY <1>3, <1>4
  <1>6. g \in Seq(Int)
    BY <1>2, <1>5
  <1> QED BY <1>2, <1>4, <1>5, <1>6 DEF g

LEMMA MirrorIs ==
  ASSUME NEW p \in Proposals, p.direction # "WAIT", NEW q, q = MirrorProposal(p)
  PROVE  Opposite(q, p) /\ Alike(q, p) /\ Plausible(p) /\ Plausible(q)
  <1>1. Plausible(p) /\ p \in Proposal
    BY Proposed, SizingAssumption DEF SizingAssumption
  <1>2. DOMAIN p = {"direction", "atr", "usual", "support", "resistance", "zones", "session", "intent",
                    "lift", "tolerance", "losses", "down", "limits", "gbp", "chf", "regime", "strength",
                    "swings", "record", "account", "alarm", "volatile", "uncertain"}
    BY <1>1 DEF Proposal
  <1>3. DOMAIN q = DOMAIN p
    BY DEF MirrorProposal
  <1>4. Alike(q, p)
    BY <1>2 DEF MirrorProposal, Alike
  <1>5. p.direction \in {"BUY", "SELL"}
    BY <1>1, Fields
  <1>6. Opposite(q, p)
    BY <1>2, <1>5 DEF MirrorProposal, Opposite
  <1>7. q.support \in Seq(Int) /\ q.resistance \in Seq(Int)
    <2>1. p.support \in Seq(Int) /\ p.resistance \in Seq(Int)
      BY <1>1, Fields
    <2> QED BY <1>6, <2>1, NegatedSequence DEF Opposite
  <1>8. q.zones \subseteq Int /\ q.direction \in {"BUY", "SELL", "WAIT"}
    <2>1. p.zones \subseteq Int
      BY <1>1, Fields
    <2> QED BY <1>6, <2>1 DEF Opposite
  <1>9. Plausible(q)
    BY <1>1, <1>3, <1>4, <1>7, <1>8 DEF Plausible, Alike
  <1> QED BY <1>1, <1>4, <1>6, <1>9

LEMMA MirrorBuys ==
  ASSUME NEW p, NEW q, Opposite(q, p)
  PROVE  /\ Buys(q) <=> ~Buys(p)
         /\ p.direction \in {"BUY", "SELL"} /\ q.direction \in {"BUY", "SELL"}
  BY DEF Opposite, Buys

\* The nearest below is opposite the nearest above.
LEMMA NearestOpposite ==
  ASSUME NEW Z \in SUBSET Int, Z # {}, NEW Y, Y = {-z : z \in Z}
  PROVE  /\ (\A z \in Z : z <= 0) => Max(Z) \in Int /\ Min(Y) = -Max(Z)
         /\ (\A z \in Z : z >= 0) => Min(Z) \in Int /\ Max(Y) = -Min(Z)
  <1>1. ASSUME \A z \in Z : z <= 0 PROVE Max(Z) \in Int /\ Min(Y) = -Max(Z)
    <2>1. Max(Z) \in Z /\ \A z \in Z : Max(Z) >= z
      BY <1>1, NearestBelow
    <2> DEFINE m == Max(Z)
    <2>2. m \in Int /\ -m \in Y /\ \A y \in Y : -m <= y /\ y \in Int
      <3>1. m \in Z /\ \A z \in Z : z \in Int /\ m >= z
        BY <2>1
      <3> HIDE DEF m
      <3>2. \A z \in Z : -m <= -z /\ -z \in Int
        BY <3>1
      <3> QED BY <3>1, <3>2
    <2> HIDE DEF m
    <2>3. \A x \in Y : (\A y \in Y : x <= y) => x = -m
      BY <2>2
    <2>4. Min(Y) = -m
      BY <2>2, <2>3 DEF Min
    <2> QED BY <2>2, <2>4 DEF m
  <1>2. ASSUME \A z \in Z : z >= 0 PROVE Min(Z) \in Int /\ Max(Y) = -Min(Z)
    <2>1. Z \in SUBSET Nat
      BY <1>2
    <2>2. Min(Z) \in Z /\ \A z \in Z : Min(Z) <= z
      BY <2>1, NearestAbove
    <2> DEFINE m == Min(Z)
    <2>3. m \in Int /\ -m \in Y /\ \A y \in Y : -m >= y /\ y \in Int
      <3>1. m \in Z /\ \A z \in Z : z \in Int /\ m <= z
        BY <2>2
      <3> HIDE DEF m
      <3>2. \A z \in Z : -m >= -z /\ -z \in Int
        BY <3>1
      <3> QED BY <3>1, <3>2
    <2> HIDE DEF m
    <2>4. \A x \in Y : (\A y \in Y : x >= y) => x = -m
      BY <2>3
    <2>5. Max(Y) = -m
      BY <2>3, <2>4 DEF Max
    <2> QED BY <2>3, <2>5 DEF m
  <1> QED BY <1>1, <1>2

LEMMA MirrorStop ==
  ASSUME NEW p, NEW q, Plausible(p), Plausible(q), Opposite(q, p), Alike(q, p)
  PROVE  AdaptiveStop(q) = -AdaptiveStop(p)
  <1>1. Buffer(q) = Buffer(p) /\ Buffer(p) \in Int
    BY Buffers DEF Buffer, Alike
  <1>2. p.zones \subseteq Int /\ q.zones = {-z : z \in p.zones}
    BY Fields DEF Opposite
  <1>3. Behind(p) \in SUBSET Int
    BY <1>2 DEF Behind
  <1>4. Behind(q) = {-z : z \in Behind(p)}
    <2>1. \A z \in p.zones : z < 0 <=> -z > 0
      BY <1>2
    <2>2. \A z \in p.zones : z > 0 <=> -z < 0
      BY <1>2
    <2>3. CASE Buys(p)
      BY <1>2, <2>1, <2>3, MirrorBuys DEF Behind
    <2>4. CASE ~Buys(p)
      BY <1>2, <2>2, <2>4, MirrorBuys DEF Behind
    <2> QED BY <2>3, <2>4
  <1>5. CASE Behind(p) = {}
    BY <1>1, <1>4, <1>5, MirrorBuys DEF AdaptiveStop
  <1>6. CASE Behind(p) # {} /\ Buys(p)
    <2>1. \A z \in Behind(p) : z <= 0
      BY <1>2, <1>6 DEF Behind
    <2>2. Max(Behind(p)) \in Int /\ Min(Behind(q)) = -Max(Behind(p))
      BY <1>3, <1>4, <1>6, <2>1, NearestOpposite
    <2> QED BY <1>1, <1>4, <1>6, <2>2, MirrorBuys DEF AdaptiveStop
  <1>7. CASE Behind(p) # {} /\ ~Buys(p)
    <2>1. \A z \in Behind(p) : z >= 0
      BY <1>2, <1>7 DEF Behind
    <2>2. Min(Behind(p)) \in Int /\ Max(Behind(q)) = -Min(Behind(p))
      BY <1>3, <1>4, <1>7, <2>1, NearestOpposite
    <2> QED BY <1>1, <1>4, <1>7, <2>2, MirrorBuys DEF AdaptiveStop
  <1> QED BY <1>5, <1>6, <1>7

LEMMA MirrorLevelStop ==
  ASSUME NEW p, NEW q, Plausible(p), Plausible(q), Opposite(q, p)
  PROVE  LevelStop(q) = -LevelStop(p)
  <1>1. p.support \in Seq(Int) /\ p.resistance \in Seq(Int)
    BY Fields
  <1>2. /\ DOMAIN q.resistance = DOMAIN p.support
        /\ \A i \in DOMAIN p.support : p.support[i] \in Int /\ q.resistance[i] = -p.support[i]
    BY <1>1, NegatedSequence DEF Opposite
  <1>3. /\ DOMAIN q.support = DOMAIN p.resistance
        /\ \A i \in DOMAIN p.resistance : p.resistance[i] \in Int /\ q.support[i] = -p.resistance[i]
    BY <1>1, NegatedSequence DEF Opposite
  <1>4. Above(q) = Below(p) /\ Below(q) = Above(p)
    BY <1>2, <1>3 DEF Above, Below
  <1>5. Below(p) \in SUBSET Nat /\ Above(p) \in SUBSET Nat
    <2>1. /\ DOMAIN p.support = 1 .. Len(p.support) /\ Len(p.support) \in Nat
          /\ DOMAIN p.resistance = 1 .. Len(p.resistance) /\ Len(p.resistance) \in Nat
      BY <1>1
    <2> QED BY <2>1 DEF Below, Above
  <1>8. \A x, y \in Int : x <= 0 /\ 0 <= x /\ y <= 0 /\ 0 <= y => y = -x
    OBVIOUS
  <1>6. CASE Buys(p)
    <2>1. CASE Below(p) = {}
      <3>1. LevelStop(p) = 0 /\ LevelStop(q) = 0
        BY <1>4, <1>6, <2>1, MirrorBuys DEF LevelStop
      <3> DEFINE x == LevelStop(p)
                 y == LevelStop(q)
      <3>2. x \in Int /\ y \in Int /\ x <= 0 /\ 0 <= x /\ y <= 0 /\ 0 <= y
        BY <3>1
      <3> HIDE DEF x, y
      <3>3. y = -x
        BY <1>8, <3>2
      <3> QED BY <3>3 DEF x, y
    <2>2. CASE Below(p) # {}
      <3>1. Min(Below(p)) \in DOMAIN p.support
        BY <1>5, <2>2, NearestAbove DEF Below
      <3> QED BY <1>2, <1>4, <1>6, <2>2, <3>1, MirrorBuys DEF LevelStop
    <2> QED BY <2>1, <2>2
  <1>7. CASE ~Buys(p)
    <2>1. CASE Above(p) = {}
      <3>1. LevelStop(p) = 0 /\ LevelStop(q) = 0
        BY <1>4, <1>7, <2>1, MirrorBuys DEF LevelStop
      <3> DEFINE x == LevelStop(p)
                 y == LevelStop(q)
      <3>2. x \in Int /\ y \in Int /\ x <= 0 /\ 0 <= x /\ y <= 0 /\ 0 <= y
        BY <3>1
      <3> HIDE DEF x, y
      <3>3. y = -x
        BY <1>8, <3>2
      <3> QED BY <3>3 DEF x, y
    <2>2. CASE Above(p) # {}
      <3>1. Min(Above(p)) \in DOMAIN p.resistance
        BY <1>5, <2>2, NearestAbove DEF Above
      <3> QED BY <1>3, <1>4, <1>7, <2>2, <3>1, MirrorBuys DEF LevelStop
    <2> QED BY <2>1, <2>2
  <1> QED BY <1>6, <1>7

LEMMA MirrorManagerStop ==
  ASSUME NEW p, NEW q, Plausible(p), Plausible(q), Opposite(q, p), Alike(q, p)
  PROVE  FromEntry(ManagerStop(q)) = FromEntry(ManagerStop(p))
  <1> DEFINE a == AtrStop(p)
             b == AtrStop(q)
             l == LevelStop(p)
             k == LevelStop(q)
  <1>1. k = -l /\ l \in Int
    BY MirrorLevelStop, LevelStops
  <1>2. b = -a /\ a \in Int
    <2>1. (3 * p.atr) \div 2 \in Int /\ q.atr = p.atr
      BY Fields DEF Alike
    <2> QED BY <2>1, MirrorBuys DEF AtrStop
  <1> HIDE DEF a, b, k, l
  <1>3. \A x, y \in Int : /\ Max({x, y}) = IF x >= y THEN x ELSE y
                          /\ Min({x, y}) = IF x <= y THEN x ELSE y
    <2> TAKE x \in Int, y \in Int
    <2>1. /\ Max({x, y}) \in {x, y} /\ Max({x, y}) >= x /\ Max({x, y}) >= y
          /\ Min({x, y}) \in {x, y} /\ Min({x, y}) <= x /\ Min({x, y}) <= y
      BY MaxOfTwo, MinOfTwo
    <2> QED BY <2>1
  <1>4. Max({a, l}) = (IF a >= l THEN a ELSE l) /\ Min({a, l}) = (IF a <= l THEN a ELSE l)
    BY <1>1, <1>2, <1>3
  <1>5. Max({b, k}) = (IF b >= k THEN b ELSE k) /\ Min({b, k}) = (IF b <= k THEN b ELSE k)
    <2>1. b \in Int /\ k \in Int
      BY <1>1, <1>2
    <2> QED BY <2>1, <1>3
  <1>6. /\ ChosenStop(p) = CASE a # 0 /\ l # 0 -> IF Buys(p) THEN Max({a, l}) ELSE Min({a, l})
                             [] a # 0 /\ l = 0 -> a
                             [] a = 0 /\ l # 0 -> l
                             [] OTHER -> IF Buys(p) THEN -300 ELSE 300
        /\ ChosenStop(q) = CASE b # 0 /\ k # 0 -> IF Buys(q) THEN Max({b, k}) ELSE Min({b, k})
                             [] b # 0 /\ k = 0 -> b
                             [] b = 0 /\ k # 0 -> k
                             [] OTHER -> IF Buys(q) THEN -300 ELSE 300
    BY DEF ChosenStop, a, b, k, l
  <1>7. ChosenStop(q) = -ChosenStop(p) /\ ChosenStop(p) \in Int
    BY <1>1, <1>2, <1>4, <1>5, <1>6, MirrorBuys
  <1> QED BY <1>7, MirrorBuys DEF ManagerStop, FromEntry

LEMMA MirrorSize ==
  ASSUME NEW p, NEW q, Plausible(p), Plausible(q), Opposite(q, p), Alike(q, p)
  PROVE  DynamicSize(q) = DynamicSize(p) /\ RiskScore(q) = RiskScore(p)
  <1>1. FromEntry(ManagerStop(q)) = FromEntry(ManagerStop(p))
    BY MirrorManagerStop
  <1>2. /\ VolFactor(q) = VolFactor(p) /\ AtrFactor(q) = AtrFactor(p) /\ RegimeShare(q) = RegimeShare(p)
        /\ StreakFactor(q) = StreakFactor(p)
    BY DEF Alike, VolFactor, AtrFactor, RegimeShare, StreakFactor
  <1>3. \A risk : ScaledRisk(risk, q) = ScaledRisk(risk, p)
    BY <1>2 DEF ScaledRisk
  <1>4. ManagerSize(q) = ManagerSize(p)
    BY <1>1, <1>3 DEF ManagerSize, Alike
  <1>5. DynamicRisk(q) = DynamicRisk(p)
    BY DEF DynamicRisk, SessionTenths, Closed, IntentTenths, IntentSeen, DownTenths, PairTwentieths, Alike
  <1>6. DynamicSize(q) = DynamicSize(p)
    BY <1>4, <1>5 DEF DynamicSize, BaseSize, Alike
  <1>7. RiskScore(q) = RiskScore(p)
    BY <1>1 DEF RiskScore, Alike
  <1> QED BY <1>6, <1>7

LEMMA MirrorVerdict ==
  ASSUME NEW p, NEW q, Plausible(p), Plausible(q), Opposite(q, p), Alike(q, p)
  PROVE  /\ Rejection(q) = Rejection(p)
         /\ AdaptiveStop(p) \in Int /\ TakeProfit(p, AdaptiveStop(p)) \in Int
         /\ TakeProfit(q, AdaptiveStop(q)) = -TakeProfit(p, AdaptiveStop(p))
  <1> DEFINE s == AdaptiveStop(p)
             z == AdaptiveStop(q)
             t == TakeProfit(p, s)
             u == TakeProfit(q, z)
  <1>1. z = -s /\ s \in Int
    BY MirrorStop, AdaptiveSide
  <1>2. FromEntry(z) = FromEntry(s) /\ FromEntry(s) \in Int
    <2> HIDE DEF s, z
    <2> QED BY <1>1 DEF FromEntry
  <1>3. u = -t /\ t \in Int
    BY <1>2, MirrorBuys DEF TakeProfit
  <1>4. InNoise(q) <=> InNoise(p)
    BY <1>2 DEF InNoise, Alike
  <1>5. PaysTooLittle(q) <=> PaysTooLittle(p)
    <2>1. Slippage(q) = Slippage(p)
      BY DEF Slippage, Alike
    <2> DEFINE f == IF Buys(p) THEN t ELSE -t
               g == IF Buys(q) THEN u ELSE -u
               r == IF Buys(p) THEN -s ELSE s
               w == IF Buys(q) THEN -z ELSE z
    <2>2. /\ PaysTooLittle(p) <=> r <= 0 \/ f * 10 < (r + Slippage(p)) * 13
          /\ PaysTooLittle(q) <=> w <= 0 \/ g * 10 < (w + Slippage(q)) * 13
      BY DEF PaysTooLittle
    <2>3. g = f /\ w = r
      <3> HIDE DEF s, z, t, u
      <3> QED BY <1>1, <1>3, MirrorBuys
    <2> HIDE DEF f, g, r, w
    <2> QED BY <2>1, <2>2, <2>3
  <1>6. ManagerApproves(q) <=> ManagerApproves(p)
    BY MirrorManagerStop DEF ManagerApproves, Alike
  <1>7. /\ Closed(q) <=> Closed(p)
        /\ DownTenths(q) = DownTenths(p) /\ IntentTenths(q) = IntentTenths(p)
    BY DEF Closed, DownTenths, IntentTenths, IntentSeen, Alike
  <1>8. Rejection(q) = Rejection(p)
    BY <1>4, <1>5, <1>6, <1>7, Zenon DEF Rejection
  <1> QED BY <1>1, <1>3, <1>8

\* Of an assessment, the other side.
OtherSide(a) == [a EXCEPT !.stop = -@, !.target = -@]

LEMMA MirrorEnhanced ==
  ASSUME NEW p, NEW q, Opposite(q, p), Alike(q, p), NEW a,
         {"stop", "target", "size", "guarded"} \subseteq DOMAIN a, a.stop \in Int
  PROVE  /\ Enhanced(q, OtherSide(a)) = OtherSide(Enhanced(p, a))
         /\ {"stop", "target", "size", "guarded"} \subseteq DOMAIN Enhanced(p, a)
         /\ Enhanced(p, a).stop \in Int
  <1> DEFINE b == OtherSide(a)
             x == Enhanced(p, a)
             y == Enhanced(q, b)
             z == OtherSide(x)
  <1>1. /\ b.stop = -a.stop /\ b.target = -a.target /\ DOMAIN b = DOMAIN a
        /\ \A k \in DOMAIN a \ {"stop", "target"} : b[k] = a[k]
    BY DEF OtherSide
  <1>2. GuardedStop(q, -a.stop) = -GuardedStop(p, a.stop) /\ GuardedStop(p, a.stop) \in Int
    BY MirrorBuys DEF GuardedStop, FromEntry, Alike
  <1>3. /\ DOMAIN x = DOMAIN a /\ x.stop = GuardedStop(p, a.stop) /\ x.target = a.target
        /\ x.size = (IF p.uncertain THEN (a.size * 7) \div 10 ELSE a.size) /\ x.guarded = a.guarded + 1
        /\ \A k \in DOMAIN a \ {"stop", "size", "guarded"} : x[k] = a[k]
    BY DEF Enhanced
  <1> HIDE DEF b
  <1>4. /\ DOMAIN y = DOMAIN b /\ y.stop = GuardedStop(q, b.stop) /\ y.target = b.target
        /\ y.size = (IF q.uncertain THEN (b.size * 7) \div 10 ELSE b.size) /\ y.guarded = b.guarded + 1
        /\ \A k \in DOMAIN b \ {"stop", "size", "guarded"} : y[k] = b[k]
    BY <1>1 DEF Enhanced
  <1>5. y = [k \in DOMAIN b |-> y[k]]
    BY <1>4 DEF Enhanced
  <1> HIDE DEF x, y
  <1>6. /\ DOMAIN z = DOMAIN x /\ z.stop = -x.stop /\ z.target = -x.target
        /\ \A k \in DOMAIN x \ {"stop", "target"} : z[k] = x[k]
    BY <1>3 DEF OtherSide
  <1>7. z = [k \in DOMAIN x |-> z[k]]
    BY DEF OtherSide
  <1>8. q.uncertain = p.uncertain
    BY DEF Alike
  <1> HIDE DEF z
  <1>9. ASSUME NEW k \in DOMAIN a PROVE y[k] = z[k]
    <2>1. CASE k = "stop"
      BY <1>1, <1>2, <1>3, <1>4, <1>6, <2>1
    <2>2. CASE k = "target"
      BY <1>1, <1>3, <1>4, <1>6, <2>2
    <2>3. CASE k = "size"
      <3>1. b.size = a.size
        BY <1>1
      <3>2. z.size = x.size
        BY <1>3, <1>6
      <3> QED BY <1>3, <1>4, <1>8, <2>3, <3>1, <3>2
    <2>4. CASE k = "guarded"
      <3>1. b.guarded = a.guarded
        BY <1>1
      <3>2. z.guarded = x.guarded
        BY <1>3, <1>6
      <3> QED BY <1>3, <1>4, <2>4, <3>1, <3>2
    <2>5. CASE k \notin {"stop", "target", "size", "guarded"}
      BY <1>1, <1>3, <1>4, <1>6, <2>5
    <2> QED BY <2>1, <2>2, <2>3, <2>4, <2>5
  <1>10. y = z
    BY <1>1, <1>3, <1>4, <1>5, <1>6, <1>7, <1>9
  <1> QED BY <1>2, <1>3, <1>10 DEF x, y, z, b

LEMMA MirrorOutcome ==
  ASSUME NEW p, NEW q, Plausible(p), Plausible(q), Opposite(q, p), Alike(q, p), NEW n \in 0 .. 2
  PROVE  Outcome(q, n) = OtherSide(Outcome(p, n))
  <1> DEFINE a == AssessmentOf(p)
             b == Enhanced(p, a)
             c == Enhanced(p, b)
             d == AssessmentOf(q)
             e == Enhanced(q, d)
             f == Enhanced(q, e)
  <1>1. /\ Outcome(p, 0) = a /\ Outcome(p, 1) = b /\ Outcome(p, 2) = c
        /\ Outcome(q, 0) = d /\ Outcome(q, 1) = e /\ Outcome(q, 2) = f
    BY DEF Outcome
  <1>2. d = OtherSide(a) /\ {"stop", "target", "size", "guarded"} \subseteq DOMAIN a /\ a.stop \in Int
    <2>1. /\ AdaptiveStop(q) = -AdaptiveStop(p) /\ DynamicSize(q) = DynamicSize(p)
          /\ RiskScore(q) = RiskScore(p)
      BY MirrorStop, MirrorSize
    <2> DEFINE t == AdaptiveStop(p)
               u == TakeProfit(p, t)
    <2>2. /\ Rejection(q) = Rejection(p) /\ t \in Int /\ TakeProfit(q, -t) = -u
      BY <2>1, MirrorVerdict
    <2> HIDE DEF t, u
    <2>3. a = [stop |-> t, target |-> u, size |-> 10 * DynamicSize(p), reason |-> Rejection(p),
               score |-> RiskScore(p), guarded |-> 0]
      BY DEF AssessmentOf, t, u
    <2>4. d = [stop |-> -t, target |-> -u, size |-> 10 * DynamicSize(p), reason |-> Rejection(p),
               score |-> RiskScore(p), guarded |-> 0]
      BY <2>1, <2>2 DEF AssessmentOf, t
    <2> HIDE DEF a, d
    <2>5. {"stop", "target", "size", "guarded"} \subseteq DOMAIN a /\ a.stop = t /\ a.target = u
      BY <2>3
    <2>6. OtherSide(a) = [a EXCEPT !.stop = -t, !.target = -u]
      BY <2>5 DEF OtherSide
    <2>7. d = OtherSide(a)
      BY <2>3, <2>4, <2>6
    <2> QED BY <2>2, <2>5, <2>7
  <1> HIDE DEF a, d
  <1>3. e = OtherSide(b) /\ {"stop", "target", "size", "guarded"} \subseteq DOMAIN b /\ b.stop \in Int
    BY <1>2, MirrorEnhanced
  <1> HIDE DEF b, e
  <1>4. f = OtherSide(c)
    BY <1>3, MirrorEnhanced
  <1> HIDE DEF c, f
  <1>5. n = 0 \/ n = 1 \/ n = 2
    OBVIOUS
  <1> QED BY <1>1, <1>2, <1>3, <1>4, <1>5

LEMMA TradesMirrored == AssessedIs /\ proposal \in Proposals => SizingMirrored
  <1> SUFFICES ASSUME AssessedIs, proposal \in Proposals, assessed # Unassessed, proposal.direction # "WAIT"
               PROVE  Outcome(MirrorProposal(proposal), assessed.guarded)
                        = [assessed EXCEPT !.stop = -@, !.target = -@]
    BY DEF SizingMirrored
  <1> DEFINE n == assessed.guarded
             q == MirrorProposal(proposal)
  <1>1. n \in 0 .. 2 /\ assessed = Outcome(proposal, n)
    BY DEF AssessedIs, SizingInv, Safeguarded, Assessments
  <1>2. Opposite(q, proposal) /\ Alike(q, proposal) /\ Plausible(proposal) /\ Plausible(q)
    BY MirrorIs
  <1> HIDE DEF q, n
  <1>3. Outcome(q, n) = OtherSide(assessed)
    BY <1>1, <1>2, MirrorOutcome
  <1> QED BY <1>3 DEF OtherSide, q, n

(* What is believed of a thesis and of its opposite. *)

\* Evidence that weighs the same, whatever it says.
EvidenceTwins(words, es, fs) ==
  /\ es \in Seq(Said(words)) /\ fs \in Seq(Said(words)) /\ Len(fs) = Len(es)
  /\ \A i \in 1 .. Len(es) :
       fs[i].for = es[i].for /\ fs[i].weight = es[i].weight /\ fs[i].source = es[i].source

LEMMA PieceTwins ==
  ASSUME NEW words, NEW holds, NEW for \in BOOLEAN, NEW weight \in Nat,
         NEW source \in {"technical", "regime", "fundamental"}, NEW says \in words, NEW other \in words
  PROVE  EvidenceTwins(words, Piece(holds, for, weight, source, says), Piece(holds, for, weight, source, other))
  <1> DEFINE a == Piece(holds, for, weight, source, says)
             b == Piece(holds, for, weight, source, other)
  <1>1. a \in Seq(Said(words)) /\ b \in Seq(Said(words))
    BY PieceIs
  <1>2. CASE holds
    <2> DEFINE x == [for |-> for, weight |-> weight, source |-> source, says |-> says]
               y == [for |-> for, weight |-> weight, source |-> source, says |-> other]
    <2>1. a = <<x>> /\ b = <<y>>
      BY <1>2 DEF Piece
    <2>2. x.for = y.for /\ x.weight = y.weight /\ x.source = y.source
      OBVIOUS
    <2> HIDE DEF a, b, x, y
    <2>3. Len(a) = 1 /\ Len(b) = 1 /\ a[1] = x /\ b[1] = y
      BY <2>1
    <2>4. \A i \in 1 .. 1 : i = 1
      OBVIOUS
    <2>5. EvidenceTwins(words, a, b)
      BY <1>1, <2>2, <2>3, <2>4 DEF EvidenceTwins
    <2> QED BY <2>5 DEF a, b
  <1>3. CASE ~holds
    <2>1. a = << >> /\ b = << >>
      BY <1>3 DEF Piece
    <2> HIDE DEF a, b
    <2>2. EvidenceTwins(words, a, b)
      BY <1>1, <2>1 DEF EvidenceTwins
    <2> QED BY <2>2 DEF a, b
  <1> QED BY <1>2, <1>3

LEMMA JoinedTwins ==
  ASSUME NEW words, NEW a, NEW b, NEW c, NEW d, EvidenceTwins(words, a, b), EvidenceTwins(words, c, d)
  PROVE  EvidenceTwins(words, a \o c, b \o d)
  <1>0. a \in Seq(Said(words)) /\ b \in Seq(Said(words)) /\ c \in Seq(Said(words)) /\ d \in Seq(Said(words))
    BY DEF EvidenceTwins
  <1>1. a \o c \in Seq(Said(words)) /\ b \o d \in Seq(Said(words))
    BY <1>0, Joined
  <1> DEFINE m == Len(a)
             n == Len(c)
  <1>2. m \in Nat /\ n \in Nat /\ Len(b) = m /\ Len(d) = n
    BY DEF EvidenceTwins
  <1>3. Len(a \o c) = m + n /\ Len(b \o d) = m + n
    BY <1>0, <1>2
  <1>4. ASSUME NEW i \in 1 .. m + n
        PROVE  /\ (a \o c)[i] = IF i <= m THEN a[i] ELSE c[i - m]
               /\ (b \o d)[i] = IF i <= m THEN b[i] ELSE d[i - m]
    BY <1>0, <1>2, <1>4
  <1>5. ASSUME NEW i \in 1 .. m
        PROVE  b[i].for = a[i].for /\ b[i].weight = a[i].weight /\ b[i].source = a[i].source
    BY <1>5 DEF EvidenceTwins
  <1>6. ASSUME NEW i \in 1 .. n
        PROVE  d[i].for = c[i].for /\ d[i].weight = c[i].weight /\ d[i].source = c[i].source
    BY <1>6 DEF EvidenceTwins
  <1> DEFINE p == a \o c
             q == b \o d
  <1> HIDE DEF m, n, p, q
  <1>7. ASSUME NEW i \in 1 .. m + n
        PROVE  q[i].for = p[i].for /\ q[i].weight = p[i].weight /\ q[i].source = p[i].source
    <2>1. CASE i <= m
      <3>1. i \in 1 .. m
        BY <1>2, <2>1
      <3> QED BY <1>4, <1>5, <2>1, <3>1 DEF p, q
    <2>2. CASE ~(i <= m)
      <3>1. i - m \in 1 .. n
        BY <1>2, <2>2
      <3> QED BY <1>4, <1>6, <2>2, <3>1 DEF p, q
    <2> QED BY <2>1, <2>2
  <1> QED BY <1>1, <1>3, <1>7 DEF EvidenceTwins, p, q

LEMMA WeightsAlike ==
  ASSUME NEW words, NEW es, NEW fs, EvidenceTwins(words, es, fs), NEW side
  PROVE  EvidenceWeight(es, side) = EvidenceWeight(fs, side)
  <1> DEFINE n == Len(es)
             Next0(h, f, i) == IF i = 0 THEN 0 ELSE f[i - 1] + IF h[i].for = side THEN h[i].weight ELSE 0
             P(f) == f = [i \in 0 .. Len(es) |-> Next0(es, f, i)]
             Q(f) == f = [i \in 0 .. Len(fs) |-> Next0(fs, f, i)]
  <1>1. n \in Nat /\ Len(fs) = n
    BY DEF EvidenceTwins
  <1>2. ASSUME NEW f PROVE P(f) <=> Q(f)
    <2>1. \A i \in 0 .. n : Next0(es, f, i) = Next0(fs, f, i)
      <3> SUFFICES ASSUME NEW i \in 0 .. n, i # 0 PROVE fs[i].for = es[i].for /\ fs[i].weight = es[i].weight
        OBVIOUS
      <3>1. i \in 1 .. n
        BY <1>1
      <3> QED BY <3>1 DEF EvidenceTwins
    <2> HIDE DEF Next0
    <2> QED BY <1>1, <2>1
  <1>3. (CHOOSE f : P(f)) = (CHOOSE f : Q(f))
    <2> HIDE DEF P, Q
    <2> QED BY <1>2
  <1>4. EvidenceWeight(es, side) = (CHOOSE f : P(f))[Len(es)]
    BY DEF EvidenceWeight
  <1>5. EvidenceWeight(fs, side) = (CHOOSE f : Q(f))[Len(fs)]
    BY DEF EvidenceWeight
  <1> HIDE DEF P, Q
  <1> QED BY <1>1, <1>3, <1>4, <1>5

LEMMA FirstAlike ==
  ASSUME NEW words, NEW es, NEW fs, EvidenceTwins(words, es, fs)
  PROVE  FirstConfidence(es) = FirstConfidence(fs)
  <1>1. /\ EvidenceWeight(es, TRUE) = EvidenceWeight(fs, TRUE)
        /\ EvidenceWeight(es, FALSE) = EvidenceWeight(fs, FALSE)
    <2>1. \A side : EvidenceWeight(es, side) = EvidenceWeight(fs, side)
      BY WeightsAlike
    <2> QED BY <2>1
  <1>2. DOMAIN es = 1 .. Len(es) /\ DOMAIN fs = DOMAIN es
    BY DEF EvidenceTwins
  <1>3. \A i \in DOMAIN es : (fs[i].for <=> es[i].for) /\ fs[i].source = es[i].source
    BY <1>2 DEF EvidenceTwins
  <1>4. Favouring(fs) = Favouring(es)
    BY <1>2, <1>3 DEF Favouring
  <1>5. \A i \in Favouring(es) : fs[i].source = es[i].source
    BY <1>3 DEF Favouring
  <1>6. {fs[i].source : i \in Favouring(fs)} = {es[i].source : i \in Favouring(es)}
    BY <1>4, <1>5
  <1> DEFINE Is(y, n, sources) ==
               LET c == 3000 + (4000 * y) \div (y + n) + IF Cardinality(sources) >= 3 THEN 1000 ELSE 0
               IN  IF y + n = 0 THEN 3000 ELSE IF c > 8000 THEN 8000 ELSE c
  <1>7. \A h : FirstConfidence(h) = Is(EvidenceWeight(h, TRUE), EvidenceWeight(h, FALSE),
                                      {h[i].source : i \in Favouring(h)})
    BY DEF FirstConfidence
  <1> HIDE DEF Is
  <1> QED BY <1>1, <1>6, <1>7

\* The picture leads in words that can be turned, and measures in numbers.
Leading(w) ==
  /\ {"bias", "mtf", "direction", "rsi", "hist", "rates", "adx", "regime"} \subseteq DOMAIN w
  /\ w.bias \in DOMAIN Turn /\ w.mtf \in DOMAIN Turn /\ w.direction \in DOMAIN Turn
  /\ w.rsi \in Int /\ w.hist \in Int

\* What a word says of a thesis its opposite says of the opposite thesis.
LEMMA TurnedWords ==
  ASSUME NEW own \in {"bullish", "bearish"}, NEW is \in DOMAIN Turn
  PROVE  /\ Turn[own] \in {"bullish", "bearish"} /\ Turn[own] # own
         /\ (Turn[is] = Turn[own]) <=> (is = own)
         /\ (Turn[is] \notin {Turn[own], "neutral"}) <=> (is \notin {own, "neutral"})
  BY DEF Turn

\* The one picture is the other turned upside down.
Mirrors(v, w) ==
  /\ v.bias = Turn[w.bias] /\ v.mtf = Turn[w.mtf] /\ v.direction = Turn[w.direction]
  /\ v.rsi = 1000 - w.rsi /\ v.hist = -w.hist /\ v.adx = w.adx /\ v.regime = w.regime
  /\ (v.rates = "EUR stronger") <=> (w.rates = "USD stronger")
  /\ (v.rates = "USD stronger") <=> (w.rates = "EUR stronger")

LEMMA MirroredPicture ==
  ASSUME NEW w, Leading(w), NEW v, v = MirrorWorld(w)
  PROVE  Mirrors(v, w)
  <1> DEFINE rated == CASE w.rates = "EUR stronger" -> "USD stronger"
                       [] w.rates = "USD stronger" -> "EUR stronger" [] OTHER -> w.rates
  <1>1. v = [w EXCEPT !.bias = Turn[@], !.mtf = Turn[@], !.direction = Turn[@], !.rsi = 1000 - @,
                      !.hist = -@, !.rates = rated]
    BY DEF MirrorWorld
  <1>2. rated = "EUR stronger" <=> w.rates = "USD stronger"
    OBVIOUS
  <1>3. rated = "USD stronger" <=> w.rates = "EUR stronger"
    OBVIOUS
  <1> HIDE DEF rated
  <1>4. {"bias", "mtf", "direction", "rsi", "hist", "rates", "adx", "regime"} \subseteq DOMAIN w
    BY DEF Leading
  <1>5. v.rates = rated
    BY <1>1, <1>4
  <1>6. /\ v.bias = Turn[w.bias] /\ v.mtf = Turn[w.mtf] /\ v.direction = Turn[w.direction]
        /\ v.rsi = 1000 - w.rsi /\ v.hist = -w.hist /\ v.adx = w.adx /\ v.regime = w.regime
    BY <1>1, <1>4
  <1> QED BY <1>2, <1>3, <1>5, <1>6 DEF Mirrors

\* So the evidence for a thesis is, piece by piece, the twin of that for its opposite.
LEMMA InitialTwins ==
  ASSUME NEW w, Leading(w), NEW v, v = MirrorWorld(w),
         NEW own \in {"bullish", "bearish"}, NEW anti, anti = Turn[own]
  PROVE  FirstConfidence(InitialEvidence(w, own)) = FirstConfidence(InitialEvidence(v, anti))
  <1> DEFINE none == ""
             words == {own, anti, w.bias, v.bias, w.mtf, v.mtf, none}
             Yes(o, is, y) == Piece(is = o, TRUE, y, "technical", is)
             No(o, is, n) == Piece(is \notin {o, "neutral"}, FALSE, n, "technical", is)
             Rsi(o, x) == \/ o = "bullish" /\ 400 < x.rsi /\ x.rsi < 700
                          \/ o = "bearish" /\ 300 < x.rsi /\ x.rsi < 600
             Macd(o, x) == (o = "bullish" /\ x.hist > 0) \/ (o = "bearish" /\ x.hist < 0)
             Regime_(o, x) == x.regime = "trending" /\ x.direction = o
             Rated(o, x) == \/ o = "bullish" /\ x.rates = "EUR stronger"
                            \/ o = "bearish" /\ x.rates = "USD stronger"
             a(o, x) == Yes(o, x.bias, 12) \o No(o, x.bias, 10)
             Strong(x) == x.adx > 300
             b(o, x) == Piece(Strong(x), TRUE, 13, "technical", none)
             c(o, x) == Piece(Rsi(o, x), TRUE, 8, "technical", none)
             d(o, x) == Piece(Macd(o, x), TRUE, 10, "technical", none)
             e(o, x) == Piece(Regime_(o, x), TRUE, 15, "regime", o)
             f(o, x) == Yes(o, x.mtf, 15) \o No(o, x.mtf, 15)
             g(o, x) == Piece(Rated(o, x), TRUE, 13, "fundamental", o)
  <1>1. \A o, x : InitialEvidence(x, o) = a(o, x) \o b(o, x) \o c(o, x) \o d(o, x) \o e(o, x) \o f(o, x) \o g(o, x)
    BY DEF InitialEvidence
  <1> HIDE DEF none
  <1>2. anti \in {"bullish", "bearish"} /\ anti # own
    BY TurnedWords DEF Turn
  <1>3. Mirrors(v, w)
    BY MirroredPicture
  <1>4. /\ w.bias \in DOMAIN Turn /\ w.mtf \in DOMAIN Turn /\ w.direction \in DOMAIN Turn
        /\ w.rsi \in Int /\ w.hist \in Int
    BY DEF Leading
  <1>5. /\ Rsi(anti, v) <=> Rsi(own, w)
        /\ Macd(anti, v) <=> Macd(own, w)
    <2>1. /\ v.rsi = 1000 - w.rsi /\ v.hist = -w.hist
      BY <1>3 DEF Mirrors
    <2> DEFINE p == v.rsi
               q == w.rsi
               x == v.hist
               y == w.hist
    <2>2. q \in Int /\ y \in Int /\ p = 1000 - q /\ x = -y
      BY <1>4, <2>1
    <2>3. (own = "bullish" /\ anti = "bearish") \/ (own = "bearish" /\ anti = "bullish")
      BY <1>2
    <2> HIDE DEF p, q, x, y
    <2>4. /\ (300 < p /\ p < 600) <=> (400 < q /\ q < 700)
          /\ (400 < p /\ p < 700) <=> (300 < q /\ q < 600)
          /\ (x > 0) <=> (y < 0)
          /\ (x < 0) <=> (y > 0)
      BY <2>2
    <2>5. CASE own = "bullish" /\ anti = "bearish"
      BY <2>4, <2>5 DEF p, q, x, y
    <2>6. CASE own = "bearish" /\ anti = "bullish"
      BY <2>4, <2>6 DEF p, q, x, y
    <2> QED BY <2>3, <2>5, <2>6
  <1>6. Rated(anti, v) <=> Rated(own, w)
    <2>1. /\ (v.rates = "EUR stronger") <=> (w.rates = "USD stronger")
          /\ (v.rates = "USD stronger") <=> (w.rates = "EUR stronger")
      BY <1>3 DEF Mirrors
    <2> QED BY <1>2, <2>1
  <1>7. Regime_(anti, v) <=> Regime_(own, w)
    <2>1. v.regime = w.regime /\ v.direction = Turn[w.direction]
      BY <1>3 DEF Mirrors
    <2>2. (Turn[w.direction] = anti) <=> (w.direction = own)
      BY <1>4, TurnedWords
    <2> QED BY <2>1, <2>2
  <1>8. /\ (v.bias = anti) <=> (w.bias = own)
        /\ (v.bias \notin {anti, "neutral"}) <=> (w.bias \notin {own, "neutral"})
        /\ (v.mtf = anti) <=> (w.mtf = own)
        /\ (v.mtf \notin {anti, "neutral"}) <=> (w.mtf \notin {own, "neutral"})
    <2>1. v.bias = Turn[w.bias] /\ v.mtf = Turn[w.mtf]
      BY <1>3 DEF Mirrors
    <2>2. ASSUME NEW is \in DOMAIN Turn
          PROVE  /\ (Turn[is] = anti) <=> (is = own)
                 /\ (Turn[is] \notin {anti, "neutral"}) <=> (is \notin {own, "neutral"})
      BY TurnedWords
    <2> QED BY <1>4, <2>1, <2>2
  <1>9. ASSUME NEW h, NEW k, h <=> k, NEW for \in BOOLEAN, NEW n \in Nat,
               NEW s \in {"technical", "regime", "fundamental"}, NEW x \in words, NEW y \in words
        PROVE  EvidenceTwins(words, Piece(h, for, n, s, x), Piece(k, for, n, s, y))
    <2>1. Piece(k, for, n, s, y) = Piece(h, for, n, s, y)
      BY <1>9 DEF Piece
    <2> HIDE DEF words
    <2> QED BY <2>1, PieceTwins
  <1>10. own \in words /\ anti \in words /\ none \in words
         /\ w.bias \in words /\ v.bias \in words /\ w.mtf \in words /\ v.mtf \in words
    OBVIOUS
  <1>11. /\ \A n \in {8, 10, 12, 13, 15} : n \in Nat
         /\ TRUE \in BOOLEAN /\ FALSE \in BOOLEAN
    OBVIOUS
  <1> HIDE DEF words
  <1>12. /\ EvidenceTwins(words, Yes(own, w.bias, 12), Yes(anti, v.bias, 12))
         /\ EvidenceTwins(words, No(own, w.bias, 10), No(anti, v.bias, 10))
         /\ EvidenceTwins(words, Yes(own, w.mtf, 15), Yes(anti, v.mtf, 15))
         /\ EvidenceTwins(words, No(own, w.mtf, 15), No(anti, v.mtf, 15))
    <2>1. EvidenceTwins(words, Yes(own, w.bias, 12), Yes(anti, v.bias, 12))
      BY <1>8, <1>9, <1>10, <1>11
    <2>2. EvidenceTwins(words, No(own, w.bias, 10), No(anti, v.bias, 10))
      BY <1>8, <1>9, <1>10, <1>11
    <2>3. EvidenceTwins(words, Yes(own, w.mtf, 15), Yes(anti, v.mtf, 15))
      BY <1>8, <1>9, <1>10, <1>11
    <2>4. EvidenceTwins(words, No(own, w.mtf, 15), No(anti, v.mtf, 15))
      BY <1>8, <1>9, <1>10, <1>11
    <2> QED BY <2>1, <2>2, <2>3, <2>4
  <1>13. EvidenceTwins(words, b(own, w), b(anti, v))
    <2>1. Strong(w) <=> Strong(v)
      BY <1>3 DEF Mirrors
    <2> HIDE DEF Strong
    <2> QED BY <1>9, <1>10, <1>11, <2>1
  <1>14. /\ EvidenceTwins(words, c(own, w), c(anti, v)) /\ EvidenceTwins(words, d(own, w), d(anti, v))
         /\ EvidenceTwins(words, e(own, w), e(anti, v)) /\ EvidenceTwins(words, g(own, w), g(anti, v))
    <2> HIDE DEF Rsi, Macd, Regime_, Rated
    <2> QED BY <1>5, <1>6, <1>7, <1>9, <1>10, <1>11
  <1> HIDE DEF Yes, No
  <1>18. EvidenceTwins(words, a(own, w), a(anti, v)) /\ EvidenceTwins(words, f(own, w), f(anti, v))
    BY <1>12, JoinedTwins
  <1> HIDE DEF a, b, c, d, e, f, g
  <1>15. EvidenceTwins(words, a(own, w) \o b(own, w) \o c(own, w), a(anti, v) \o b(anti, v) \o c(anti, v))
    BY <1>13, <1>14, <1>18, JoinedTwins
  <1>16. EvidenceTwins(words, a(own, w) \o b(own, w) \o c(own, w) \o d(own, w) \o e(own, w),
                      a(anti, v) \o b(anti, v) \o c(anti, v) \o d(anti, v) \o e(anti, v))
    BY <1>14, <1>15, JoinedTwins
  <1>17. EvidenceTwins(words, InitialEvidence(w, own), InitialEvidence(v, anti))
    BY <1>1, <1>14, <1>16, <1>18, JoinedTwins
  <1> QED BY <1>17, FirstAlike

Worded(f) ==
  /\ \A k \in {"rsi", "hist"} \cap DOMAIN f : f[k] \in Int
  /\ \A k \in {"bias", "mtf"} \cap DOMAIN f : f[k] \in Leanings
  /\ "verdict" \in DOMAIN f => f.verdict \in DOMAIN Lowered

LeadingInv == Leading(world) /\ Worded(found)

\* A run of the pipeline replaces words by words and numbers by numbers.
LEMMA SyncedLeads ==
  ASSUME NEW w, Leading(w), NEW f, Worded(f)
  PROVE  Leading(Synced(w, f))
  <1> DEFINE passed == [k \in DOMAIN w |-> IF k \in DOMAIN f THEN f[k] ELSE w[k]]
             side == IF "verdict" \in DOMAIN f THEN Lowered[f.verdict] ELSE SignalWord(f)
  <1>1. Synced(w, f) = [passed EXCEPT !.direction = side]
    BY DEF Synced
  <1>2. passed = [k \in DOMAIN w |-> IF k \in DOMAIN f THEN f[k] ELSE w[k]]
    OBVIOUS
  <1>3. side \in DOMAIN Turn
    <2>1. \A x \in DOMAIN Lowered : Lowered[x] \in DOMAIN Turn
      BY DEF Lowered, Turn
    <2>2. SignalWord(f) \in DOMAIN Turn
      BY DEF SignalWord, Turn
    <2> QED BY <2>1, <2>2 DEF Worded
  <1>4. Leanings \subseteq DOMAIN Turn
    BY DEF Leanings, Turn
  <1> HIDE DEF passed, side
  <1>5. {"bias", "mtf", "direction", "rsi", "hist", "rates", "adx", "regime"} \subseteq DOMAIN w
    BY DEF Leading
  <1>6. /\ passed.bias \in DOMAIN Turn /\ passed.mtf \in DOMAIN Turn
        /\ passed.rsi \in Int /\ passed.hist \in Int
    BY <1>2, <1>4, <1>5 DEF Leading, Worded
  <1> DEFINE g == Synced(w, f)
  <1>7. /\ DOMAIN g = DOMAIN w /\ g.direction = side /\ g.bias = passed.bias /\ g.mtf = passed.mtf
        /\ g.rsi = passed.rsi /\ g.hist = passed.hist
    BY <1>1, <1>2, <1>5
  <1> HIDE DEF g
  <1>8. Leading(g)
    BY <1>3, <1>5, <1>6, <1>7 DEF Leading
  <1> QED BY <1>8 DEF g

LEMMA LeadingStep == LeadingInv /\ [WorldNext]_worldVars => LeadingInv'
  <1> SUFFICES ASSUME LeadingInv, [WorldNext]_worldVars PROVE LeadingInv'
    OBVIOUS
  <1>1. ASSUME NEW r \in Reports, UpdateWorld(r) PROVE LeadingInv'
    <2>1. /\ found' = [k \in DOMAIN r \cup DOMAIN found |-> IF k \in DOMAIN r THEN r[k] ELSE found[k]]
          /\ world' = Synced(world, found')
      BY <1>1 DEF UpdateWorld
    <2>2. Worded(r)
      BY WorldAssumption DEF Worded
    <2>3. Worded(found')
      BY <2>1, <2>2 DEF Worded, LeadingInv
    <2> QED BY <2>1, <2>3, SyncedLeads DEF LeadingInv
  <1>2. ASSUME NEW n \in Listed, ListOpenTrades(n) PROVE LeadingInv'
    <2>1. found' = found /\ world' = IF n = 0 THEN world ELSE [world EXCEPT !.trades = n]
      BY <1>2 DEF ListOpenTrades
    <2>2. Leading([world EXCEPT !.trades = n])
      BY DEF LeadingInv, Leading
    <2> QED BY <2>1, <2>2 DEF LeadingInv
  <1>3. ASSUME NEW t \in WorldTicks, ScanPrice(t) PROVE LeadingInv'
    <2>1. found' = found /\ world' = [world EXCEPT !.price = t.price, !.spread = t.spread]
      BY <1>3 DEF ScanPrice
    <2>2. Leading([world EXCEPT !.price = t.price, !.spread = t.spread])
      BY DEF LeadingInv, Leading
    <2> QED BY <2>1, <2>2 DEF LeadingInv
  <1>4. ASSUME NEW graceful \in BOOLEAN, RestartAgent(graceful) PROVE LeadingInv'
    <2>1. found' = << >> /\ (world' = world \/ world' = BlankWorld)
      BY <1>4 DEF RestartAgent
    <2>2. Leading(BlankWorld)
      BY DEF BlankWorld, Leading, Turn
    <2>3. Worded(<< >>)
      BY DEF Worded
    <2> QED BY <2>1, <2>2, <2>3 DEF LeadingInv
  <1>5. CASE TellWorld \/ NothingToReview \/ ThesisEnds \/ Review \/ UNCHANGED worldVars
    <2>1. world' = world /\ found' = found
      BY <1>5 DEF TellWorld, NothingToReview, ThesisEnds, Review, worldVars
    <2> QED BY <2>1 DEF LeadingInv
  <1> QED BY <1>1, <1>2, <1>3, <1>4, <1>5 DEF WorldNext

LEMMA ThesesAlike == LeadingInv => ThesesMirrored
  <1> SUFFICES ASSUME LeadingInv, NEW own \in {"bullish", "bearish"}
               PROVE  FirstConfidence(InitialEvidence(world, own))
                        = FirstConfidence(InitialEvidence(MirrorWorld(world), Turn[own]))
    BY DEF ThesesMirrored
  <1> QED BY InitialTwins DEF LeadingInv

(* What is signalled in a market turned upside down. *)

Sides == {"BUY", "SELL", "WAIT"}

LEMMA SwapSides ==
  \A d \in Sides : /\ Swap(d) \in Sides
                   /\ (Swap(d) = "WAIT") <=> (d = "WAIT")
                   /\ (Swap(d) = "BUY") <=> (d = "SELL")
                   /\ (Swap(d) = "SELL") <=> (d = "BUY")
  BY DEF Swap, Sides

\* The opposite signal of the same strategy, believed as much.
Reversal(t, s) ==
  \E d \in Sides : \E by, c : s = Signal(d, by, c) /\ t = Signal(Swap(d), by, c)

LEMMA Reversed ==
  ASSUME NEW d \in Sides, NEW by, NEW c, NEW e, e = Swap(d)
  PROVE  Reversal(Signal(e, by, c), Signal(d, by, c))
  BY DEF Reversal

LEMMA ReversalIs ==
  ASSUME NEW s, NEW t, Reversal(t, s)
  PROVE  t = [s EXCEPT !.direction = Swap(@)]
  <1>0. PICK d \in Sides : \E by, c : s = Signal(d, by, c) /\ t = Signal(Swap(d), by, c)
    BY DEF Reversal
  <1>1. PICK by, c : s = Signal(d, by, c) /\ t = Signal(Swap(d), by, c)
    BY <1>0
  <1> DEFINE e == Swap(d)
  <1>2. t = Signal(e, by, c) /\ Swap(s.direction) = e
    BY <1>1 DEF Signal
  <1> HIDE DEF e
  <1>3. [s EXCEPT !.direction = e] = Signal(e, by, c)
    BY <1>1 DEF Signal
  <1> QED BY <1>2, <1>3

LEMMA Reweighed ==
  ASSUME NEW d, NEW by, NEW c, NEW n
  PROVE  /\ [Signal(d, by, c) EXCEPT !.confidence = n] = Signal(d, by, n)
         /\ Signal(d, by, c).direction = d /\ Signal(d, by, c).strategy = by /\ Signal(d, by, c).confidence = c
  BY DEF Signal

\* A market with all its numbers, and the one turned upside down.
Numbers(m) ==
  /\ m.adx \in Int /\ m.rsi \in Int /\ m.z \in Int /\ m.hist \in Int /\ m.atr \in Int /\ m.width \in Int
  /\ m.near \in {"support", "resistance", "none"} /\ m.bias \in {"bullish", "bearish", "neutral"}

Upside(v, m) ==
  /\ v.adx = m.adx /\ v.atr = m.atr /\ v.width = m.width
  /\ v.rsi = 100 - m.rsi /\ v.z = -m.z /\ v.hist = -m.hist
  /\ v.near = Swap(m.near) /\ v.bias = Swap(m.bias)

Surrounded(a) ==
  /\ a.mtf \in {"Bullish", "Bearish", "Neutral"}
  /\ a.oversold \in Int /\ a.overbought \in Int /\ a.oversold <= a.overbought

Exchanged(b, a) ==
  /\ b.oversold = 100 - a.overbought /\ b.overbought = 100 - a.oversold
  /\ b.session = a.session /\ b.adjust = a.adjust /\ b.high = a.high /\ b.mtf = a.mtf
  /\ b.memory = a.memory /\ b.emergency = a.emergency /\ b.trend = a.trend
  /\ b.taught["bullish"] = a.taught["bearish"] /\ b.taught["bearish"] = a.taught["bullish"]

LEMMA UpsideNumbers ==
  ASSUME NEW m, Numbers(m), NEW v, Upside(v, m)
  PROVE  Numbers(v)
  <1>1. v.rsi \in Int /\ v.z \in Int /\ v.hist \in Int /\ v.adx \in Int /\ v.atr \in Int /\ v.width \in Int
    <2>1. \A x, y \in Int : y = -x \/ y = 100 - x => y \in Int
      OBVIOUS
    <2> QED BY DEF Numbers, Upside
  <1>2. v.near \in {"support", "resistance", "none"} /\ v.bias \in {"bullish", "bearish", "neutral"}
    BY DEF Numbers, Upside, Swap
  <1> QED BY <1>1, <1>2 DEF Numbers

LEMMA SizesAlike ==
  /\ \A x, y \in Int : x = -y => Abs(x) = Abs(y)
  /\ \A x, y \in Int : x = 100 - y => Abs(x - 50) = Abs(y - 50)
  BY DEF Abs

\* The regime has no side.
LEMMA RegimeAlike ==
  ASSUME NEW m, Numbers(m), NEW v, Upside(v, m)
  PROVE  Regime(v) = Regime(m) /\ (Ambiguous(v) <=> Ambiguous(m))
  <1>0. Numbers(v)
    BY UpsideNumbers
  <1>1. Abs(v.z) = Abs(m.z) /\ Abs(v.rsi - 50) = Abs(m.rsi - 50)
    <2>1. v.z \in Int /\ m.z \in Int /\ v.rsi \in Int /\ m.rsi \in Int /\ v.z = -m.z /\ v.rsi = 100 - m.rsi
      BY <1>0 DEF Upside, Numbers
    <2> QED BY <2>1, SizesAlike
  <1>2. Outside(v) <=> Outside(m)
    BY <1>1 DEF Outside
  <1>3. Extreme(v) <=> Extreme(m)
    BY DEF Extreme, Upside, Numbers
  <1>4. v.atr = m.atr /\ v.adx = m.adx /\ v.width = m.width
    BY DEF Upside
  <1>5. BaseRegime(v) = BaseRegime(m)
    BY <1>4 DEF BaseRegime
  <1>6. Regime(v) = Regime(m)
    BY <1>2, <1>3, <1>4, <1>5 DEF Regime
  <1> QED BY <1>1, <1>6 DEF Ambiguous

\* Along the other trend; ahead of the opposite sign; from the other band.
LEMMA TrendReversed ==
  ASSUME NEW m, Numbers(m), NEW v, Upside(v, m), NEW a, NEW b, Exchanged(b, a)
  PROVE  Reversal(TrendFollowing(v, b), TrendFollowing(m, a))
  <1> DEFINE d == Along(m.bias)
             e == Along(v.bias)
  <1>1. d \in Sides /\ e = Swap(d)
    BY DEF Along, Swap, Sides, Upside, Numbers
  <1> HIDE DEF d, e
  <1>2. /\ m.rsi \in Int /\ m.z \in Int /\ m.hist \in Int /\ v.rsi = 100 - m.rsi /\ v.z = -m.z /\ v.hist = -m.hist
        /\ v.adx = m.adx /\ v.atr = m.atr /\ b.trend = a.trend
    BY DEF Numbers, Upside, Exchanged
  <1>3. (e # "WAIT") <=> (d # "WAIT")
    BY <1>1, SwapSides
  <1>4. Towards(d) \in -1 .. 1 /\ Towards(e) = -Towards(d)
    BY <1>1 DEF Towards, Swap, Sides
  <1>5. (v.hist = Towards(e)) <=> (m.hist = Towards(d))
    BY <1>2, <1>4
  <1>6. v.z * Towards(e) = m.z * Towards(d)
    <2> DEFINE x == Towards(d)
               y == Towards(e)
               p == m.z
               q == v.z
    <2>1. x \in -1 .. 1 /\ y = -x /\ p \in Int /\ q = -p
      BY <1>2, <1>4
    <2> HIDE DEF x, y, p, q
    <2>2. x = -1 \/ x = 0 \/ x = 1
      BY <2>1
    <2>3. q * y = p * x
      BY <2>1, <2>2
    <2> QED BY <2>3 DEF x, y, p, q
  <1>7. (35 < v.rsi /\ v.rsi < 65) <=> (35 < m.rsi /\ m.rsi < 65)
    BY <1>2
  <1>8. TrendPoints(v, b, e) = TrendPoints(m, a, d)
    <2> DEFINE room(x) == 35 < x.rsi /\ x.rsi < 65
               macd(x, s) == s # "WAIT" /\ x.hist = Towards(s)
               ahead(x, s) == x.z * Towards(s)
               waits(s) == s # "WAIT"
               Is(atr, adx, trend, r, w, h, z) ==
                 When(w, 1500)
                 + When(atr > 125, 1000) - When(atr < 75, 500)
                 + When(adx > trend + 5, 1500) + When(adx > trend /\ adx <= trend + 5, 800)
                 + When(h, 1000)
                 + When(r, 500)
                 + When(w /\ z \in -5 .. 15, 1000)
                 - When(w /\ z > 20, 2000)
    <2>1. \A x, y, s : TrendPoints(x, y, s) = Is(x.atr, x.adx, y.trend, room(x), waits(s), macd(x, s), ahead(x, s))
      BY DEF TrendPoints
    <2>2. room(v) = room(m) /\ macd(v, e) = macd(m, d) /\ ahead(v, e) = ahead(m, d) /\ waits(e) = waits(d)
      BY <1>3, <1>5, <1>6, <1>7
    <2> HIDE DEF Is, room, macd, ahead, waits
    <2> QED BY <1>2, <2>1, <2>2
  <1>9. /\ TrendFollowing(m, a) = Signal(d, "trend_following", AtMost(9500, 4000 + TrendPoints(m, a, d)))
        /\ TrendFollowing(v, b) = Signal(e, "trend_following", AtMost(9500, 4000 + TrendPoints(v, b, e)))
    BY DEF TrendFollowing, d, e
  <1> QED BY <1>1, <1>8, <1>9, Reversed

\* A signal that gets another confidence stays the opposite of the other.
LEMMA ReversalKept ==
  ASSUME NEW s, NEW t, Reversal(t, s), NEW n
  PROVE  /\ Reversal([t EXCEPT !.confidence = n], [s EXCEPT !.confidence = n])
         /\ t.confidence = s.confidence /\ t.strategy = s.strategy
         /\ t.direction = Swap(s.direction) /\ s.direction \in Sides
  <1>0. PICK d \in Sides : \E by, c : s = Signal(d, by, c) /\ t = Signal(Swap(d), by, c)
    BY DEF Reversal
  <1>1. PICK by, c : s = Signal(d, by, c) /\ t = Signal(Swap(d), by, c)
    BY <1>0
  <1>2. /\ [t EXCEPT !.confidence = n] = Signal(Swap(d), by, n)
        /\ [s EXCEPT !.confidence = n] = Signal(d, by, n)
    BY <1>1, Reweighed
  <1>3. Reversal([t EXCEPT !.confidence = n], [s EXCEPT !.confidence = n])
    BY <1>2 DEF Reversal
  <1>4. t.confidence = s.confidence /\ t.strategy = s.strategy /\ t.direction = Swap(s.direction)
        /\ s.direction \in Sides
    BY <1>1, Reweighed
  <1> QED BY <1>3, <1>4

LEMMA Waiting == ASSUME NEW by, NEW c PROVE Reversal(Signal("WAIT", by, c), Signal("WAIT", by, c))
  <1>1. "WAIT" \in Sides /\ Swap("WAIT") = "WAIT"
    BY DEF Sides, Swap
  <1> QED BY <1>1, Reversed

LEMMA VolatileReversed ==
  ASSUME NEW m, Numbers(m), NEW v, Upside(v, m), NEW a, NEW b, Exchanged(b, a)
  PROVE  Reversal(VolatileDefensive(v, b), VolatileDefensive(m, a))
  <1>1. v.adx = m.adx
    BY DEF Upside
  <1> DEFINE s == TrendFollowing(m, a)
             t == TrendFollowing(v, b)
  <1>2. Reversal(t, s)
    BY TrendReversed
  <1>3. CASE m.adx >= 30
    <2> DEFINE Is(x) == [x EXCEPT !.confidence = AtMost(6000, (x.confidence * 7) \div 10)]
    <2>1. VolatileDefensive(v, b) = Is(t) /\ VolatileDefensive(m, a) = Is(s)
      BY <1>1, <1>3 DEF VolatileDefensive
    <2> HIDE DEF s, t
    <2>2. t.confidence = s.confidence
      BY <1>2, ReversalKept
    <2> DEFINE n == AtMost(6000, (s.confidence * 7) \div 10)
    <2>3. Is(t) = [t EXCEPT !.confidence = n] /\ Is(s) = [s EXCEPT !.confidence = n]
      BY <2>2
    <2> HIDE DEF n, Is
    <2> QED BY <1>2, <2>1, <2>3, ReversalKept
  <1>4. CASE ~(m.adx >= 30)
    <2>1. /\ VolatileDefensive(v, b) = Signal("WAIT", "volatile_defensive", 1500)
          /\ VolatileDefensive(m, a) = Signal("WAIT", "volatile_defensive", 1500)
      BY <1>1, <1>4 DEF VolatileDefensive
    <2> QED BY <2>1, Waiting
  <1> QED BY <1>3, <1>4

LEMMA FadeReversed ==
  ASSUME NEW m, Numbers(m), NEW v, Upside(v, m), NEW a, Surrounded(a), NEW b, Exchanged(b, a), ~Torn(m, a)
  PROVE  Reversal(MeanReversion(v, b), MeanReversion(m, a))
  <1> DEFINE d == Fade(m, a)
             e == Fade(v, b)
             low == m.rsi < a.oversold
             high == m.rsi > a.overbought
             under == m.z <= -13
             over == m.z >= 13
  <1>1. /\ m.rsi \in Int /\ m.z \in Int /\ m.width \in Int /\ v.rsi = 100 - m.rsi /\ v.z = -m.z
        /\ a.oversold \in Int /\ a.overbought \in Int /\ a.oversold <= a.overbought
        /\ b.oversold = 100 - a.overbought /\ b.overbought = 100 - a.oversold
        /\ v.adx = m.adx /\ v.width = m.width
    BY DEF Numbers, Upside, Surrounded, Exchanged
  <1>2. /\ (v.rsi < b.oversold) <=> high
        /\ (v.rsi > b.overbought) <=> low
        /\ (v.z <= -13) <=> over
        /\ (v.z >= 13) <=> under
        /\ ~(low /\ high) /\ ~(under /\ over)
    BY <1>1
  <1>3. ~(low /\ over) /\ ~(high /\ under)
    BY DEF Torn
  <1>4. /\ d = IF low \/ under THEN "BUY" ELSE IF high \/ over THEN "SELL" ELSE "WAIT"
        /\ e = IF high \/ over THEN "BUY" ELSE IF low \/ under THEN "SELL" ELSE "WAIT"
    BY <1>2 DEF Fade
  <1>5. d \in Sides /\ e = Swap(d)
    <2> HIDE DEF low, high, under, over
    <2> QED BY <1>2, <1>3, <1>4 DEF Sides, Swap
  <1>6. /\ (e # "WAIT") <=> (d # "WAIT")
        /\ (e = "BUY") <=> (d = "SELL")
        /\ (e = "SELL") <=> (d = "BUY")
    BY <1>5, SwapSides
  <1>7. Abs(v.z) = Abs(m.z)
    BY <1>1, UpsideNumbers, SizesAlike DEF Numbers
  <1>8. /\ AtLower(v) <=> AtUpper(m)
        /\ AtUpper(v) <=> AtLower(m)
    <2>1. v.z + 20 = 20 - m.z /\ 20 - v.z = m.z + 20
      BY <1>1
    <2> QED BY <1>1, <2>1 DEF AtLower, AtUpper
  <1>9. /\ (v.near = "support") <=> (m.near = "resistance")
        /\ (v.near = "resistance") <=> (m.near = "support")
    BY DEF Upside, Numbers, Swap
  <1>10. FadePoints(v, b, e) = FadePoints(m, a, d)
    <2> DEFINE Is(w, bought, sold, far, near, lowest, highest, lower, upper, narrow) ==
                 When(w, 1500)
                 + When(bought, 800)
                 + When(sold, 800)
                 + When(w /\ far, 1000) + When(w /\ near, 500)
                 + When(lowest, 1500) + When(highest, 1500)
                 + When(lower, 1000) + When(upper, 1000)
                 - When(narrow, 800)
               w(s) == s # "WAIT"
               bought(x, y, s) == s = "BUY" /\ x.rsi < y.oversold /\ x.z <= -13
               sold(x, y, s) == s = "SELL" /\ x.rsi > y.overbought /\ x.z >= 13
               far(x) == Abs(x.z) >= 20
               near(x) == Abs(x.z) \in 15 .. 19
               lowest(x, s) == s = "BUY" /\ x.near = "support"
               highest(x, s) == s = "SELL" /\ x.near = "resistance"
               lower(x, s) == s = "BUY" /\ AtLower(x)
               upper(x, s) == s = "SELL" /\ AtUpper(x)
               narrow(x) == x.width < 12
    <2>1. \A x, y, s : FadePoints(x, y, s)
            = Is(w(s), bought(x, y, s), sold(x, y, s), far(x), near(x), lowest(x, s), highest(x, s),
                 lower(x, s), upper(x, s), narrow(x))
      BY DEF FadePoints
    <2>2. w(e) = w(d) /\ bought(v, b, e) = sold(m, a, d) /\ sold(v, b, e) = bought(m, a, d)
      BY <1>2, <1>6
    <2>3. far(v) = far(m) /\ near(v) = near(m) /\ narrow(v) = narrow(m)
      BY <1>1, <1>7
    <2>4. lowest(v, e) = highest(m, d) /\ highest(v, e) = lowest(m, d)
      BY <1>6, <1>9
    <2>5. lower(v, e) = upper(m, d) /\ upper(v, e) = lower(m, d)
      BY <1>6, <1>8
    <2>6. \A p, q, r, s, t, x, y, z, k, l :
            Is(p, q, r, s, t, x, y, z, k, l) = Is(p, r, q, s, t, y, x, k, z, l)
      BY DEF When
    <2> HIDE DEF Is, w, bought, sold, far, near, lowest, highest, lower, upper, narrow
    <2> QED BY <2>1, <2>2, <2>3, <2>4, <2>5, <2>6
  <1> HIDE DEF d, e
  <1>11. CASE m.adx >= 25
    <2>1. /\ MeanReversion(m, a) = Signal("WAIT", "mean_reversion", 2000)
          /\ MeanReversion(v, b) = Signal("WAIT", "mean_reversion", 2000)
      BY <1>1, <1>11 DEF MeanReversion
    <2> QED BY <2>1, Waiting
  <1>12. CASE ~(m.adx >= 25)
    <2>1. /\ MeanReversion(m, a) = Signal(d, "mean_reversion", AtMost(9000, 3500 + FadePoints(m, a, d)))
          /\ MeanReversion(v, b) = Signal(e, "mean_reversion", AtMost(9000, 3500 + FadePoints(v, b, e)))
      BY <1>1, <1>12 DEF MeanReversion, d, e
    <2> QED BY <1>5, <1>10, <2>1, Reversed
  <1> QED BY <1>11, <1>12

LEMMA ChosenReversed ==
  ASSUME NEW m, Numbers(m), NEW v, Upside(v, m), NEW a, Surrounded(a), NEW b, Exchanged(b, a), ~Torn(m, a)
  PROVE  Reversal(Chosen(v, b), Chosen(m, a))
  <1> DEFINE Plan(x, y) == CASE Regime(x) = "trending" -> TrendFollowing(x, y)
                             [] Regime(x) = "breakout" -> Breakout
                             [] Regime(x) = "volatile" -> VolatileDefensive(x, y)
                             [] OTHER                  -> MeanReversion(x, y)
             s == Plan(m, a)
             t == Plan(v, b)
             n == (s.confidence * 85) \div 100
  <1>1. Regime(v) = Regime(m) /\ (Ambiguous(v) <=> Ambiguous(m))
    BY RegimeAlike
  <1>2. /\ Reversal(TrendFollowing(v, b), TrendFollowing(m, a)) /\ Reversal(Breakout, Breakout)
        /\ Reversal(VolatileDefensive(v, b), VolatileDefensive(m, a))
        /\ Reversal(MeanReversion(v, b), MeanReversion(m, a))
    BY TrendReversed, VolatileReversed, FadeReversed, Waiting DEF Breakout
  <1>3. Reversal(t, s)
    BY <1>1, <1>2
  <1>4. /\ Chosen(m, a) = IF Ambiguous(m) THEN [s EXCEPT !.confidence = (s.confidence * 85) \div 100] ELSE s
        /\ Chosen(v, b) = IF Ambiguous(v) THEN [t EXCEPT !.confidence = (t.confidence * 85) \div 100] ELSE t
    BY DEF Chosen
  <1> HIDE DEF s, t
  <1>5. t.confidence = s.confidence
    BY <1>3, ReversalKept
  <1>6. /\ Chosen(m, a) = IF Ambiguous(m) THEN [s EXCEPT !.confidence = n] ELSE s
        /\ Chosen(v, b) = IF Ambiguous(m) THEN [t EXCEPT !.confidence = n] ELSE t
    BY <1>1, <1>4, <1>5
  <1> HIDE DEF n
  <1>7. Reversal([t EXCEPT !.confidence = n], [s EXCEPT !.confidence = n])
    BY <1>3, ReversalKept
  <1> QED BY <1>3, <1>6, <1>7

LEMMA GatedReversed ==
  ASSUME NEW s, NEW t, Reversal(t, s), NEW a, NEW b, Exchanged(b, a)
  PROVE  Reversal(Gated(t, b), Gated(s, a))
  <1> DEFINE n == AtMost(9500, (s.confidence * Multiplier(a.session)) \div 100)
  <1>1. b.session = a.session
    BY DEF Exchanged
  <1>2. t.confidence = s.confidence /\ t.strategy = s.strategy
        /\ t.direction = Swap(s.direction) /\ s.direction \in Sides
    BY ReversalKept
  <1>3. (t.direction = "WAIT") <=> (s.direction = "WAIT")
    BY <1>2, SwapSides
  <1>4. /\ Gated(s, a) = IF a.session = "closing" THEN Signal("WAIT", s.strategy, 0)
                         ELSE IF s.direction = "WAIT" \/ a.session = "unset" THEN s
                         ELSE [s EXCEPT !.confidence = n]
        /\ Gated(t, b) = IF a.session = "closing" THEN Signal("WAIT", s.strategy, 0)
                         ELSE IF s.direction = "WAIT" \/ a.session = "unset" THEN t
                         ELSE [t EXCEPT !.confidence = n]
    BY <1>1, <1>2, <1>3 DEF Gated
  <1> HIDE DEF n
  <1>5. Reversal([t EXCEPT !.confidence = n], [s EXCEPT !.confidence = n])
    BY ReversalKept
  <1>6. Reversal(Signal("WAIT", s.strategy, 0), Signal("WAIT", s.strategy, 0))
    BY Waiting
  <1> QED BY <1>4, <1>5, <1>6

LEMMA DoubtedReversed ==
  ASSUME NEW s, NEW t, Reversal(t, s), NEW a, NEW b, Exchanged(b, a)
  PROVE  Reversal(Doubted(t, b), Doubted(s, a))
  <1> DEFINE n == AtMost(9500, (s.confidence * a.adjust) \div 100)
  <1>1. b.high = a.high /\ b.adjust = a.adjust
    BY DEF Exchanged
  <1>2. t.confidence = s.confidence /\ t.direction = Swap(s.direction) /\ s.direction \in Sides
    BY ReversalKept
  <1>3. (t.direction # "WAIT") <=> (s.direction # "WAIT")
    BY <1>2, SwapSides
  <1>4. /\ Doubted(s, a) = IF a.high /\ s.direction # "WAIT" THEN Signal("WAIT", "uncertain", 0)
                           ELSE [s EXCEPT !.confidence = n]
        /\ Doubted(t, b) = IF a.high /\ s.direction # "WAIT" THEN Signal("WAIT", "uncertain", 0)
                           ELSE [t EXCEPT !.confidence = n]
    BY <1>1, <1>2, <1>3 DEF Doubted
  <1> HIDE DEF n
  <1>5. Reversal([t EXCEPT !.confidence = n], [s EXCEPT !.confidence = n])
    BY ReversalKept
  <1>6. Reversal(Signal("WAIT", "uncertain", 0), Signal("WAIT", "uncertain", 0))
    BY Waiting
  <1> QED BY <1>4, <1>5, <1>6

\* The higher timeframe opposes nothing: its words begin with a capital letter.
LEMMA ConfirmedReversed ==
  ASSUME NEW s, NEW t, Reversal(t, s), NEW a, Surrounded(a), NEW b, Exchanged(b, a)
  PROVE  Reversal(Confirmed(t, b), Confirmed(s, a))
  <1>1. a.mtf \in {"Bullish", "Bearish", "Neutral"} /\ b.mtf = a.mtf
    BY DEF Surrounded, Exchanged
  <1>2. ~Opposed(s, a) /\ ~Opposed(t, b)
    BY <1>1 DEF Opposed
  <1> QED BY <1>2 DEF Confirmed

LEMMA RememberedReversed ==
  ASSUME NEW s, NEW t, Reversal(t, s), NEW a, NEW b, Exchanged(b, a)
  PROVE  Reversal(Remembered(t, b), Remembered(s, a))
  <1> DEFINE n == (s.confidence * 6) \div 10
             l == AtMost(9500, (s.confidence * 12) \div 10)
  <1>1. b.memory = a.memory
    BY DEF Exchanged
  <1>2. t.confidence = s.confidence /\ t.direction = Swap(s.direction) /\ s.direction \in Sides
    BY ReversalKept
  <1>3. (t.direction = "WAIT") <=> (s.direction = "WAIT")
    BY <1>2, SwapSides
  <1>4. /\ Remembered(s, a) = IF s.direction = "WAIT" \/ a.memory = "none" THEN s
                              ELSE IF a.memory = "poor" THEN [s EXCEPT !.confidence = n]
                              ELSE [s EXCEPT !.confidence = l]
        /\ Remembered(t, b) = IF s.direction = "WAIT" \/ a.memory = "none" THEN t
                              ELSE IF a.memory = "poor" THEN [t EXCEPT !.confidence = n]
                              ELSE [t EXCEPT !.confidence = l]
    BY <1>1, <1>2, <1>3 DEF Remembered
  <1> HIDE DEF n, l
  <1>5. /\ Reversal([t EXCEPT !.confidence = n], [s EXCEPT !.confidence = n])
        /\ Reversal([t EXCEPT !.confidence = l], [s EXCEPT !.confidence = l])
    BY ReversalKept
  <1> QED BY <1>4, <1>5

\* What was learned of the bullish patterns is, upside down, what was learned
\* of the bearish ones.
LEMMA TaughtReversed ==
  ASSUME NEW s, NEW t, Reversal(t, s), NEW a, NEW b, Exchanged(b, a)
  PROVE  Reversal(Taught(t, b), Taught(s, a))
  <1> DEFINE by == TaughtBy(s.direction, a)
             n == AtMost(9500, (s.confidence * by) \div 100)
  <1>1. b.taught["bullish"] = a.taught["bearish"] /\ b.taught["bearish"] = a.taught["bullish"]
    BY DEF Exchanged
  <1>2. t.confidence = s.confidence /\ t.direction = Swap(s.direction) /\ s.direction \in Sides
    BY ReversalKept
  <1>3. (t.direction \notin {"BUY", "SELL"}) <=> (s.direction \notin {"BUY", "SELL"})
    BY <1>2 DEF Sides, Swap
  <1>4. s.direction \in {"BUY", "SELL"} => TaughtBy(t.direction, b) = by
    BY <1>1, <1>2 DEF Swap, TaughtBy
  <1>5. CASE s.direction \notin {"BUY", "SELL"}
    <2>1. Taught(s, a) = s /\ Taught(t, b) = t
      BY <1>3, <1>5 DEF Taught
    <2> QED BY <2>1
  <1>6. CASE s.direction \in {"BUY", "SELL"}
    <2>1. Taught(s, a) = [s EXCEPT !.confidence = n]
      BY <1>6 DEF Taught
    <2>2. Taught(t, b) = [t EXCEPT !.confidence = AtMost(9500, (t.confidence * TaughtBy(t.direction, b)) \div 100)]
      BY <1>3, <1>6 DEF Taught
    <2> HIDE DEF by
    <2>3. Taught(t, b) = [t EXCEPT !.confidence = n]
      BY <1>2, <1>4, <1>6, <2>2
    <2> HIDE DEF n
    <2>4. Reversal([t EXCEPT !.confidence = n], [s EXCEPT !.confidence = n])
      BY ReversalKept
    <2> QED BY <2>1, <2>3, <2>4
  <1> QED BY <1>5, <1>6

LEMMA FallbackReversed ==
  ASSUME NEW m, Numbers(m), NEW v, Upside(v, m)
  PROVE  Reversal(Fallback(v), Fallback(m))
  <1> DEFINE side(x) == IF x.rsi >= 55 /\ x.hist > 0 THEN "BUY"
                        ELSE IF x.rsi <= 45 /\ x.hist < 0 THEN "SELL" ELSE "WAIT"
             d == side(m)
             e == side(v)
  <1>1. /\ m.rsi \in Int /\ m.hist \in Int /\ v.rsi = 100 - m.rsi /\ v.hist = -m.hist /\ v.adx = m.adx
    BY DEF Numbers, Upside
  <1>2. /\ (v.rsi >= 55) <=> (m.rsi <= 45)
        /\ (v.rsi <= 45) <=> (m.rsi >= 55)
        /\ (v.hist > 0) <=> (m.hist < 0)
        /\ (v.hist < 0) <=> (m.hist > 0)
        /\ ~(m.hist < 0 /\ m.hist > 0)
    BY <1>1
  <1>3. d \in Sides /\ e = Swap(d)
    BY <1>2 DEF Sides, Swap
  <1>4. /\ Fallback(m) = IF m.adx > 25 /\ d # "WAIT" THEN Signal(d, "STRONG_SIGNAL", 8000)
                         ELSE IF m.adx < 20 THEN Signal("WAIT", "NEUTRAL", 0)
                         ELSE Signal(d, "WEAK_SIGNAL", 5000)
        /\ Fallback(v) = IF v.adx > 25 /\ e # "WAIT" THEN Signal(e, "STRONG_SIGNAL", 8000)
                         ELSE IF v.adx < 20 THEN Signal("WAIT", "NEUTRAL", 0)
                         ELSE Signal(e, "WEAK_SIGNAL", 5000)
    BY DEF Fallback
  <1> HIDE DEF d, e, side
  <1>5. (e # "WAIT") <=> (d # "WAIT")
    BY <1>3, SwapSides
  <1>6. /\ Reversal(Signal(e, "STRONG_SIGNAL", 8000), Signal(d, "STRONG_SIGNAL", 8000))
        /\ Reversal(Signal(e, "WEAK_SIGNAL", 5000), Signal(d, "WEAK_SIGNAL", 5000))
        /\ Reversal(Signal("WAIT", "NEUTRAL", 0), Signal("WAIT", "NEUTRAL", 0))
    BY <1>3, Reversed, Waiting
  <1> QED BY <1>1, <1>4, <1>5, <1>6

LEMMA DetectedReversed ==
  ASSUME NEW m, Numbers(m), NEW v, Upside(v, m), NEW a, Surrounded(a), NEW b, Exchanged(b, a), ~Torn(m, a)
  PROVE  Reversal(Detected(v, b), Detected(m, a))
  <1>1. b.emergency = a.emergency
    BY DEF Exchanged
  <1>2. CASE a.emergency
    BY <1>1, <1>2, FallbackReversed DEF Detected
  <1>3. CASE ~a.emergency
    <2>1. Reversal(Chosen(v, b), Chosen(m, a))
      BY ChosenReversed
    <2>2. Reversal(Gated(Chosen(v, b), b), Gated(Chosen(m, a), a))
      BY <2>1, GatedReversed
    <2>3. Reversal(Doubted(Gated(Chosen(v, b), b), b), Doubted(Gated(Chosen(m, a), a), a))
      BY <2>2, DoubtedReversed
    <2>4. Reversal(Confirmed(Doubted(Gated(Chosen(v, b), b), b), b),
                   Confirmed(Doubted(Gated(Chosen(m, a), a), a), a))
      BY <2>3, ConfirmedReversed
    <2> DEFINE p == Confirmed(Doubted(Gated(Chosen(m, a), a), a), a)
               q == Confirmed(Doubted(Gated(Chosen(v, b), b), b), b)
    <2>5. Detected(m, a) = Taught(Remembered(p, a), a) /\ Detected(v, b) = Taught(Remembered(q, b), b)
      BY <1>1, <1>3 DEF Detected
    <2> HIDE DEF p, q
    <2>6. Reversal(Remembered(q, b), Remembered(p, a))
      BY <2>4, RememberedReversed DEF p, q
    <2> QED BY <2>5, <2>6, TaughtReversed
  <1> QED BY <1>2, <1>3

LEMMA MirroredScene ==
  ASSUME NEW s \in Scenes
  PROVE  /\ Numbers(s.market) /\ Surrounded(s.ambient)
         /\ Upside(MirrorMarket(s.market), s.market) /\ Exchanged(MirrorAmbient(s.ambient), s.ambient)
  <1> DEFINE m == s.market
             a == s.ambient
  <1>1. /\ m \in [adx : Int, rsi : Int, z : Int, hist : Int, atr : Int, width : Int,
                  near : {"support", "resistance", "none"}, bias : {"bullish", "bearish", "neutral"}]
        /\ {"session", "adjust", "high", "mtf", "memory", "emergency", "oversold", "overbought", "trend",
            "taught"} \subseteq DOMAIN a
        /\ a.mtf \in {"Bullish", "Bearish", "Neutral"}
        /\ a.oversold \in Int /\ a.overbought \in Int
        /\ a.oversold <= a.overbought
    BY ChoiceAssumption
  <1> HIDE DEF m, a
  <1>2. Numbers(m)
    BY <1>1 DEF Numbers
  <1>3. Surrounded(a)
    BY <1>1 DEF Surrounded
  <1>4. Upside(MirrorMarket(m), m)
    BY <1>1 DEF MirrorMarket, Upside
  <1>5. Exchanged(MirrorAmbient(a), a)
    <2> DEFINE f == [bias \in {"bullish", "bearish"} |-> a.taught[Swap(bias)]]
               b == MirrorAmbient(a)
    <2>1. f["bullish"] = a.taught["bearish"] /\ f["bearish"] = a.taught["bullish"]
      BY DEF Swap
    <2>2. b = [a EXCEPT !.oversold = 100 - a.overbought, !.overbought = 100 - a.oversold, !.taught = f]
      BY DEF MirrorAmbient
    <2> HIDE DEF f, b
    <2>3. /\ b.oversold = 100 - a.overbought /\ b.overbought = 100 - a.oversold /\ b.taught = f
          /\ b.session = a.session /\ b.adjust = a.adjust /\ b.high = a.high /\ b.mtf = a.mtf
          /\ b.memory = a.memory /\ b.emergency = a.emergency /\ b.trend = a.trend
      BY <1>1, <2>2
    <2>4. Exchanged(b, a)
      BY <2>1, <2>3 DEF Exchanged
    <2> QED BY <2>4 DEF b
  <1> QED BY <1>2, <1>3, <1>4, <1>5 DEF m, a

\* A tool weighs what it weighed when its vote is exchanged.
LEMMA WeightIs ==
  ASSUME NEW b \in Ballot, NEW t \in Tools
  PROVE  Weight(b, t) \in Int
  <1>1. b.session \in {"asian", "overlap", "other"} /\ b.regime \in {"trending", "ranging", "volatile"}
    BY DEF Ballot
  <1>2. Base[t] \in Int /\ SessionFactor(t, b.session) \in Int
    BY DEF Base, SessionFactor, Tools
  <1>3. RegimeFactor(t, b.regime) \in Int
    <2> DEFINE x == CASE t = "technical" -> Momentum[b.regime] [] t = "pattern" -> Oscillators[b.regime]
                      [] OTHER -> 100
               y == IF b.regime = "volatile" /\ t # "liquidity" THEN 8 ELSE 10
    <2>1. Momentum[b.regime] \in Int /\ Oscillators[b.regime] \in Int
      BY <1>1 DEF Momentum, Oscillators
    <2>2. x \in Int /\ y \in Int
      BY <2>1
    <2>3. RegimeFactor(t, b.regime) = x * y
      BY DEF RegimeFactor
    <2> HIDE DEF x, y
    <2> QED BY <2>2, <2>3, Products
  <1>4. Base[t] * SessionFactor(t, b.session) * RegimeFactor(t, b.regime) \in Int
    <2>1. Base[t] * SessionFactor(t, b.session) \in Int
      BY <1>2, Products
    <2> QED BY <1>3, <2>1, Products
  <1> QED BY <1>4 DEF Weight

LEMMA VotesAre ==
  ASSUME NEW b \in Ballot, NEW d
  PROVE  Votes(b, d) \in Int
  <1> DEFINE of == [t \in Tools |-> IF b.says[t] = d THEN Weight(b, t) ELSE 0]
  <1>1. \A t \in Tools : of[t] \in Int
    BY WeightIs
  <1>2. Votes(b, d) = Total(of)
    BY DEF Votes
  <1> HIDE DEF of
  <1>3. /\ of.liquidity \in Int /\ of.technical \in Int /\ of.pattern \in Int
        /\ of.fundamental \in Int /\ of.strategy \in Int
    BY <1>1 DEF Tools
  <1> QED BY <1>2, <1>3 DEF Total

LEMMA SwapVotes ==
  \A x \in {"BUY", "SELL", "NEUTRAL", "silent"} :
     /\ Swap(x) \in {"BUY", "SELL", "NEUTRAL", "silent"}
     /\ (Swap(x) = "BUY") <=> (x = "SELL")
     /\ (Swap(x) = "SELL") <=> (x = "BUY")
     /\ (Swap(x) = "NEUTRAL") <=> (x = "NEUTRAL")
     /\ (Swap(x) = "silent") <=> (x = "silent")
  BY DEF Swap

\* Two ballots of which each says the opposite of the other.
Against(c, b) ==
  /\ c.session = b.session /\ c.regime = b.regime
  /\ \A t \in Tools : /\ (c.says[t] = "BUY") <=> (b.says[t] = "SELL")
                      /\ (c.says[t] = "SELL") <=> (b.says[t] = "BUY")
                      /\ (c.says[t] = "NEUTRAL") <=> (b.says[t] = "NEUTRAL")
                      /\ (c.says[t] = "silent") <=> (b.says[t] = "silent")

LEMMA VotesExchanged ==
  ASSUME NEW b, NEW c, Against(c, b)
  PROVE  /\ \A t \in Tools : Weight(c, t) = Weight(b, t)
         /\ Votes(c, "BUY") = Votes(b, "SELL") /\ Votes(c, "SELL") = Votes(b, "BUY")
         /\ Votes(c, "NEUTRAL") = Votes(b, "NEUTRAL")
  <1>1. \A t \in Tools : Weight(c, t) = Weight(b, t)
    <2>1. c.session = b.session /\ c.regime = b.regime
          /\ \A t \in Tools : (c.says[t] = "silent") <=> (b.says[t] = "silent")
      BY DEF Against
    <2> QED BY <2>1 DEF Weight
  <1>2. /\ \A t \in Tools : (c.says[t] = "BUY") <=> (b.says[t] = "SELL")
        /\ \A t \in Tools : (c.says[t] = "SELL") <=> (b.says[t] = "BUY")
        /\ \A t \in Tools : (c.says[t] = "NEUTRAL") <=> (b.says[t] = "NEUTRAL")
    BY DEF Against
  <1> DEFINE of(x, d) == [t \in Tools |-> IF x.says[t] = d THEN Weight(x, t) ELSE 0]
  <1>3. of(c, "BUY") = of(b, "SELL") /\ of(c, "SELL") = of(b, "BUY") /\ of(c, "NEUTRAL") = of(b, "NEUTRAL")
    BY <1>1, <1>2
  <1>4. \A x, d : Votes(x, d) = Total(of(x, d))
    BY DEF Votes
  <1> HIDE DEF of
  <1> QED BY <1>1, <1>3, <1>4

LEMMA VerdictExchanged ==
  ASSUME NEW b \in Ballot, NEW c, Against(c, b), Votes(b, "BUY") # Votes(b, "SELL")
  PROVE  Verdict(c) = Swap(Verdict(b))
  <1> DEFINE x == Votes(b, "BUY")
             y == Votes(b, "SELL")
             z == Votes(b, "NEUTRAL")
             w == Winner(b)
             u == Winner(c)
  <1>1. /\ Votes(c, "BUY") = y /\ Votes(c, "SELL") = x /\ Votes(c, "NEUTRAL") = z
        /\ \A t \in Tools : Weight(c, t) = Weight(b, t)
    BY VotesExchanged
  <1>2. x \in Int /\ y \in Int /\ z \in Int /\ x # y
    BY VotesAre
  <1>3. /\ w = IF x >= y /\ x >= z THEN "BUY" ELSE IF y >= z THEN "SELL" ELSE "NEUTRAL"
        /\ u = IF y >= x /\ y >= z THEN "BUY" ELSE IF x >= z THEN "SELL" ELSE "NEUTRAL"
    BY <1>1 DEF Winner
  <1>4. \/ w = "BUY" /\ u = "SELL"
        \/ w = "SELL" /\ u = "BUY"
        \/ w = "NEUTRAL" /\ u = "NEUTRAL"
    <2> HIDE DEF x, y, z, w, u
    <2> QED BY <1>2, <1>3
  <1>5. Votes(c, u) = Votes(b, w)
    BY <1>1, <1>4
  <1>6. {t \in Tools : c.says[t] = u} = {t \in Tools : b.says[t] = w}
    BY <1>4 DEF Against
  <1> HIDE DEF w, u
  <1>7. (u = "NEUTRAL") <=> (w = "NEUTRAL")
    BY <1>4
  <1>8. Diversity(c, u) = Diversity(b, w)
    <2> DEFINE Is(for, none) ==
                 LET priced == Cardinality(for \cap {"technical", "pattern", "strategy"})
                     free == Cardinality(for \cap {"liquidity", "fundamental"}) IN
                 CASE none \/ Cardinality(for) <= 1 -> 100
                   [] ~none /\ free = 0 /\ priced >= 2 -> 100 - 25 * (priced - 1)
                   [] ~none /\ priced = 0 /\ free >= 2 -> 100
                   [] OTHER -> 90
    <2>1. \A h, s : Diversity(h, s) = Is({t \in Tools : h.says[t] = s}, s = "NEUTRAL")
      BY DEF Diversity
    <2>2. (u = "NEUTRAL") = (w = "NEUTRAL")
      BY <1>7
    <2> HIDE DEF Is
    <2> QED BY <1>6, <2>1, <2>2
  <1>9. Confidence(c) = Confidence(b)
    <2> DEFINE of(h) == [t \in Tools |-> Weight(h, t)]
               Is(votes, all, div) ==
                 LET share == (100 * votes) \div all
                 IN  IF div < 50 /\ share > 50 THEN (share * (70 + (30 * div) \div 100)) \div 100 ELSE share
    <2>1. of(c) = of(b)
      BY <1>1
    <2>2. \A h : Confidence(h) = Is(Votes(h, Winner(h)), Total(of(h)), Diversity(h, Winner(h)))
      BY DEF Confidence
    <2> HIDE DEF Is, of
    <2> QED BY <1>5, <1>8, <2>1, <2>2 DEF w, u
  <1>10. Neutral(c) = Neutral(b)
    BY DEF Neutral, Against
  <1>11. (\A t \in Tools : c.says[t] = "silent") <=> (\A t \in Tools : b.says[t] = "silent")
    BY DEF Against
  <1>12. u = Swap(w) /\ Swap("NEUTRAL") = "NEUTRAL"
    BY <1>4 DEF Swap
  <1>13. /\ Verdict(b) = IF \A t \in Tools : b.says[t] = "silent" THEN "NEUTRAL"
                         ELSE IF Confidence(b) < Neutral(b) THEN "NEUTRAL" ELSE w
         /\ Verdict(c) = IF \A t \in Tools : c.says[t] = "silent" THEN "NEUTRAL"
                         ELSE IF Confidence(c) < Neutral(c) THEN "NEUTRAL" ELSE u
    BY DEF Verdict, w, u
  <1> QED BY <1>9, <1>10, <1>11, <1>12, <1>13

\* A signal given is what was detected in the scene, or the verdict of the vote.
ChoiceInv ==
  /\ scene \in Scenes \cup Ballots
  /\ \/ signals.direction = "none"
     \/ "market" \in DOMAIN scene /\ signals = Detected(scene.market, scene.ambient)
     \/ "says" \in DOMAIN scene /\ signals = Signal(Verdict(scene), "verdict", 0)

LEMMA ChoiceStarts == ChoiceInit => ChoiceInv
  BY DEF ChoiceInit, ChoiceStart, ChoiceInv, Signal

LEMMA ChoiceStep == ChoiceInv /\ [ChoiceNext]_choiceVars => ChoiceInv'
  BY DEF ChoiceInv, ChoiceNext, DetectSignal, Vote, choiceVars

\* A scene is either a market or a ballot.
LEMMA ScenesApart ==
  /\ \A s \in Scenes : DOMAIN s = {"market", "ambient"}
  /\ \A s \in Ballots : s \in Ballot /\ DOMAIN s = {"says", "session", "regime"}
  BY ChoiceAssumption DEF Ballot

LEMMA NobodyFavoured == ChoiceInv => Impartial
  <1> SUFFICES ASSUME ChoiceInv PROVE Impartial
    OBVIOUS
  <1>1. ASSUME "market" \in DOMAIN scene, signals.direction # "none", ~Torn(scene.market, scene.ambient)
        PROVE  Detected(MirrorMarket(scene.market), MirrorAmbient(scene.ambient))
                 = [signals EXCEPT !.direction = Swap(@)]
    <2>1. scene \in Scenes /\ signals = Detected(scene.market, scene.ambient)
      BY <1>1, ScenesApart DEF ChoiceInv
    <2> DEFINE m == scene.market
               a == scene.ambient
               v == MirrorMarket(m)
               b == MirrorAmbient(a)
    <2>2. Numbers(m) /\ Surrounded(a) /\ Upside(v, m) /\ Exchanged(b, a) /\ ~Torn(m, a)
      BY <1>1, <2>1, MirroredScene
    <2> HIDE DEF m, a, v, b
    <2>3. Reversal(Detected(v, b), Detected(m, a))
      BY <2>2, DetectedReversed
    <2>4. Detected(v, b) = [Detected(m, a) EXCEPT !.direction = Swap(@)]
      BY <2>3, ReversalIs
    <2> QED BY <2>1, <2>4 DEF m, a, v, b
  <1>2. ASSUME "says" \in DOMAIN scene, signals.direction # "none", Votes(scene, "BUY") # Votes(scene, "SELL")
        PROVE  Verdict([scene EXCEPT !.says = [t \in Tools |-> Swap(scene.says[t])]]) = Swap(signals.direction)
    <2>1. scene \in Ballot /\ signals = Signal(Verdict(scene), "verdict", 0)
      BY <1>2, ScenesApart DEF ChoiceInv
    <2>2. signals.direction = Verdict(scene)
      BY <2>1 DEF Signal
    <2> DEFINE b == scene
               says == [t \in Tools |-> Swap(b.says[t])]
               c == [b EXCEPT !.says = says]
    <2>3. b.says \in [Tools -> {"BUY", "SELL", "NEUTRAL", "silent"}] /\ b \in Ballot
      BY <2>1 DEF Ballot
    <2> HIDE DEF b
    <2>4. \A t \in Tools : b.says[t] \in {"BUY", "SELL", "NEUTRAL", "silent"} /\ says[t] = Swap(b.says[t])
      BY <2>3
    <2> HIDE DEF says
    <2>5. c.says = says /\ c.session = b.session /\ c.regime = b.regime
      BY <2>3 DEF Ballot
    <2> HIDE DEF c
    <2>6. Against(c, b)
      BY <2>4, <2>5, SwapVotes DEF Against
    <2>7. Votes(b, "BUY") # Votes(b, "SELL")
      BY <1>2 DEF b
    <2>8. Verdict(c) = Swap(Verdict(b))
      BY <2>3, <2>6, <2>7, VerdictExchanged
    <2> QED BY <2>2, <2>8 DEF b, c, says
  <1> QED BY <1>1, <1>2 DEF Impartial

(* How things are put in order. *)

StrictOrder(R, S) ==
  /\ \A x \in S : <<x, x>> \notin R
  /\ \A x, y \in S : x = y \/ <<x, y>> \in R \/ <<y, x>> \in R
  /\ \A x, y, z \in S : <<x, y>> \in R /\ <<y, z>> \in R => <<x, z>> \in R

\* Every element has its place, and every place its element: what is further
\* back has more before it, and as many places as elements are there.
LEMMA SortedIs ==
  ASSUME NEW S, IsFiniteSet(S), NEW R, StrictOrder(R, S), NEW n, n = Cardinality(S), NEW o, o = Sorted(S, R)
  PROVE  /\ n \in Nat /\ o \in [1 .. n -> S]
         /\ \E r \in [S -> 1 .. n] : /\ \A x \in S : o[r[x]] = x
                                     /\ \A k \in 1 .. n : r[o[k]] = k
  <1> DEFINE Before_(x) == {y \in S : <<y, x>> \in R}
             rank == [x \in S |-> Cardinality(Before_(x)) + 1]
  <1>1. n \in Nat
    BY FS_CardinalityType
  <1>2. ASSUME NEW x \in S
        PROVE  IsFiniteSet(Before_(x)) /\ Cardinality(Before_(x)) \in Nat /\ Cardinality(Before_(x)) <= n - 1
    <2>1. Before_(x) \in SUBSET (S \ {x})
      BY DEF StrictOrder
    <2>2. IsFiniteSet(S \ {x}) /\ Cardinality(S \ {x}) = n - 1
      BY FS_RemoveElement
    <2> HIDE DEF Before_
    <2>3. IsFiniteSet(Before_(x)) /\ Cardinality(Before_(x)) <= Cardinality(S \ {x})
      BY <2>1, <2>2, FS_Subset
    <2> QED BY <2>2, <2>3, FS_CardinalityType
  <1>3. ASSUME NEW x \in S, NEW y \in S, <<x, y>> \in R
        PROVE  Cardinality(Before_(x)) < Cardinality(Before_(y))
    <2>1. x \in Before_(y) /\ Before_(x) \in SUBSET (Before_(y) \ {x})
      BY <1>3 DEF StrictOrder
    <2> HIDE DEF Before_
    <2>2. IsFiniteSet(Before_(y) \ {x}) /\ Cardinality(Before_(y) \ {x}) = Cardinality(Before_(y)) - 1
      BY <1>2, <2>1, FS_RemoveElement
    <2>3. Cardinality(Before_(x)) <= Cardinality(Before_(y) \ {x})
      BY <2>1, <2>2, FS_Subset
    <2> QED BY <1>2, <2>2, <2>3
  <1>4. \A x \in S : rank[x] = Cardinality(Before_(x)) + 1
    OBVIOUS
  <1>5. rank \in [S -> 1 .. n]
    <2>1. \A x \in S : Cardinality(Before_(x)) + 1 \in 1 .. n
      <3> HIDE DEF Before_
      <3> QED BY <1>1, <1>2
    <2> QED BY <2>1
  <1> HIDE DEF rank
  <1>6. \A x, y \in S : rank[x] = rank[y] => x = y
    <2> SUFFICES ASSUME NEW x \in S, NEW y \in S, rank[x] = rank[y], x # y PROVE FALSE
      OBVIOUS
    <2>1. <<x, y>> \in R \/ <<y, x>> \in R
      BY DEF StrictOrder
    <2>2. Cardinality(Before_(x)) = Cardinality(Before_(y))
      <3> HIDE DEF Before_
      <3> QED BY <1>2, <1>4
    <2> HIDE DEF Before_
    <2> QED BY <1>2, <1>3, <2>1, <2>2
  <1>7. \A k \in 1 .. n : \E x \in S : rank[x] = k
    <2>1. rank \in Injection(S, 1 .. n)
      BY <1>5, <1>6 DEF Injection, IsInjective
    <2>2. IsFiniteSet(1 .. n) /\ Cardinality(1 .. n) = n
      BY <1>1, FS_Interval
    <2>3. rank \in Surjection(S, 1 .. n)
      BY <2>1, <2>2, FS_Injection
    <2> QED BY <2>3 DEF Surjection
  <1>8. \A k \in 1 .. n : o[k] = CHOOSE x \in S : Cardinality(Before_(x)) = k - 1
    BY DEF Sorted
  <1>9. \A k \in 1 .. n : o[k] \in S /\ rank[o[k]] = k
    <2> TAKE k \in 1 .. n
    <2>1. PICK x \in S : rank[x] = k
      BY <1>7
    <2>2. Cardinality(Before_(x)) = k - 1
      <3> HIDE DEF Before_
      <3> QED BY <1>2, <1>4, <2>1
    <2>3. o[k] \in S /\ Cardinality(Before_(o[k])) = k - 1
      <3> HIDE DEF Before_
      <3> QED BY <1>8, <2>2
    <2> HIDE DEF Before_
    <2> QED BY <1>4, <2>3
  <1>10. o \in [1 .. n -> S]
    <2> DEFINE place(k) == CHOOSE x \in S : Cardinality({y \in S : <<y, x>> \in R}) = k - 1
    <2>1. o = [k \in 1 .. n |-> place(k)]
      BY DEF Sorted
    <2> HIDE DEF place
    <2>2. \A k \in 1 .. n : o[k] = place(k)
      BY <2>1
    <2> QED BY <1>9, <2>1, <2>2
  <1>11. \A x \in S : o[rank[x]] = x
    BY <1>5, <1>6, <1>9
  <1> QED BY <1>1, <1>5, <1>9, <1>10, <1>11

\* Numbers in their order.
LEMMA AscendingIs ==
  ASSUME NEW S, IsFiniteSet(S), S \subseteq Int, NEW n, n = Cardinality(S), NEW o, o = Ascending(S)
  PROVE  /\ n \in Nat /\ o \in [1 .. n -> S]
         /\ \E r \in [S -> 1 .. n] : /\ \A x \in S : o[r[x]] = x
                                     /\ \A k \in 1 .. n : r[o[k]] = k
  <1> DEFINE R == {p \in S \X S : p[1] < p[2]}
  <1>1. \A x, y \in S : <<x, y>> \in R <=> x < y
    OBVIOUS
  <1>2. o = Sorted(S, R)
    BY DEF Ascending
  <1> HIDE DEF R
  <1>3. StrictOrder(R, S)
    BY <1>1 DEF StrictOrder
  <1> QED BY <1>2, <1>3, SortedIs

(* The greatest and the least of some numbers. *)

\* Of numbers in a row one is the greatest: by induction on their number.
LEMMA Highest ==
  ASSUME NEW n \in Nat \ {0}, NEW f, \A k \in 1 .. n : f[k] \in Int
  PROVE  \E m \in 1 .. n : \A k \in 1 .. n : f[k] <= f[m]
  <1> DEFINE S == {k \in Nat : k = 0 \/ k > n \/ \E m \in 1 .. k : \A i \in 1 .. k : f[i] <= f[m]}
  <1>1. 0 \in S
    OBVIOUS
  <1>2. ASSUME NEW k \in Nat, k \in S PROVE k + 1 \in S
    <2> SUFFICES ASSUME k + 1 <= n
                 PROVE  \E m \in 1 .. k + 1 : \A i \in 1 .. k + 1 : f[i] <= f[m]
      OBVIOUS
    <2>1. CASE k = 0
      BY <2>1
    <2>2. CASE k # 0
      <3>1. PICK m \in 1 .. k : \A i \in 1 .. k : f[i] <= f[m]
        BY <1>2, <2>2
      <3>2. f[m] \in Int /\ f[k + 1] \in Int /\ \A i \in 1 .. k : f[i] \in Int
        OBVIOUS
      <3>3. CASE f[m] >= f[k + 1]
        BY <3>1, <3>2, <3>3
      <3>4. CASE f[k + 1] > f[m]
        <4>1. \A i \in 1 .. k + 1 : f[i] <= f[k + 1]
          BY <3>1, <3>2, <3>4
        <4> QED BY <4>1
      <3> QED BY <3>2, <3>3, <3>4
    <2> QED BY <2>1, <2>2
  <1> HIDE DEF S
  <1>3. n \in S
    BY <1>1, <1>2, EveryNumber
  <1> QED BY <1>3 DEF S

LEMMA MaxIs ==
  ASSUME NEW S \in SUBSET Int, IsFiniteSet(S), S # {}
  PROVE  Max(S) \in S /\ Max(S) \in Int /\ \A x \in S : x <= Max(S)
  <1> DEFINE n == Cardinality(S)
  <1>1. n \in Nat \ {0}
    BY FS_CardinalityType, FS_EmptySet
  <1>2. PICK f : f \in Bijection(1 .. n, S)
    BY FS_CardinalityType DEF ExistsBijection
  <1>3. /\ \A k \in 1 .. n : f[k] \in S
        /\ \A x \in S : \E k \in 1 .. n : f[k] = x
    BY <1>2 DEF Bijection, Injection, Surjection
  <1> HIDE DEF n
  <1>4. PICK m \in 1 .. n : \A k \in 1 .. n : f[k] <= f[m]
    BY <1>1, <1>3, Highest
  <1>5. \E x \in S : \A y \in S : x >= y
    <2>1. f[m] \in S /\ \A y \in S : f[m] >= y
      BY <1>3, <1>4
    <2> QED BY <2>1
  <1>6. Max(S) \in S /\ \A y \in S : Max(S) >= y
    BY <1>5 DEF Max
  <1> QED BY <1>6

LEMMA MaxBy ==
  ASSUME NEW S \in SUBSET Int, NEW m \in S, \A x \in S : x <= m
  PROVE  Max(S) = m
  <1>1. Max(S) \in S /\ \A y \in S : Max(S) >= y
    BY DEF Max
  <1>2. m \in Int /\ Max(S) \in Int
    BY <1>1
  <1>3. Max(S) >= m /\ m >= Max(S)
    BY <1>1
  <1> QED BY <1>2, <1>3

LEMMA MinBy ==
  ASSUME NEW S \in SUBSET Int, NEW m \in S, \A x \in S : m <= x
  PROVE  Min(S) = m
  <1>1. Min(S) \in S /\ \A y \in S : Min(S) <= y
    BY DEF Min
  <1>2. m \in Int /\ Min(S) \in Int
    BY <1>1
  <1>3. Min(S) <= m /\ m <= Min(S)
    BY <1>1
  <1> QED BY <1>2, <1>3

\* Turned about an axis, the greatest is the least.
LEMMA MinTurned ==
  ASSUME NEW S \in SUBSET Int, IsFiniteSet(S), S # {}, NEW a \in Int
  PROVE  /\ Min({a - x : x \in S}) = a - Max(S)
         /\ Max(S) \in S /\ Max(S) \in Int /\ \A x \in S : x <= Max(S)
  <1> DEFINE T == {a - x : x \in S}
             m == Max(S)
  <1>1. m \in S /\ m \in Int /\ \A x \in S : x <= m
    BY MaxIs
  <1> HIDE DEF m
  <1>2. T \in SUBSET Int /\ a - m \in T /\ \A x \in T : a - m <= x
    BY <1>1
  <1> HIDE DEF T
  <1>3. Min(T) = a - m
    BY <1>2, MinBy
  <1> QED BY <1>1, <1>3 DEF T, m

LEMMA MinIs ==
  ASSUME NEW S \in SUBSET Int, IsFiniteSet(S), S # {}
  PROVE  Min(S) \in S /\ Min(S) \in Int /\ \A x \in S : Min(S) <= x
  <1> DEFINE T == {0 - x : x \in S}
             f == [x \in S |-> 0 - x]
  <1>1. IsFiniteSet(T)
    <2>1. f \in Surjection(S, T)
      BY DEF Surjection
    <2> HIDE DEF f, T
    <2> QED BY <2>1, FS_Surjection
  <1>2. T \in SUBSET Int /\ T # {}
    <2>1. PICK x : x \in S
      OBVIOUS
    <2>2. 0 - x \in T
      BY <2>1
    <2>3. T \in SUBSET Int
      OBVIOUS
    <2> QED BY <2>2, <2>3
  <1>3. \A x \in S : x \in Int /\ 0 - x \in T
    OBVIOUS
  <1>4. \A y \in T : \E x \in S : y = 0 - x
    OBVIOUS
  <1> HIDE DEF T
  <1>5. Max(T) \in T /\ \A y \in T : y <= Max(T)
    BY <1>1, <1>2, MaxIs
  <1>6. PICK m \in S : Max(T) = 0 - m
    BY <1>4, <1>5
  <1>7. \A x \in S : m <= x
    BY <1>3, <1>5, <1>6
  <1>8. Min(S) = m
    BY <1>7, MinBy
  <1> QED BY <1>7, <1>8

LEMMA MaxTurned ==
  ASSUME NEW S \in SUBSET Int, IsFiniteSet(S), S # {}, NEW a \in Int
  PROVE  /\ Max({a - x : x \in S}) = a - Min(S)
         /\ Min(S) \in S /\ Min(S) \in Int /\ \A x \in S : Min(S) <= x
  <1> DEFINE T == {a - x : x \in S}
             m == Min(S)
  <1>1. m \in S /\ m \in Int /\ \A x \in S : m <= x
    BY MinIs
  <1> HIDE DEF m
  <1>2. T \in SUBSET Int /\ a - m \in T /\ \A x \in T : x <= a - m
    BY <1>1
  <1> HIDE DEF T
  <1>3. Max(T) = a - m
    BY <1>2, MaxBy
  <1> QED BY <1>1, <1>3 DEF T, m

(* The chart turned upside down. *)

\* The same prices seen from below: about an axis of A.
Upended(s, t, A) ==
  /\ A \in Int /\ s \in Seq(Nat) /\ t \in Seq(Nat)
  /\ Len(s) \in Nat /\ Len(t) = Len(s) /\ DOMAIN s = 1 .. Len(s) /\ DOMAIN t = 1 .. Len(s)
  /\ \A k \in 1 .. Len(s) : s[k] \in Nat /\ t[k] \in Nat /\ t[k] = A - s[k]

LEMMA UpendedBack == ASSUME NEW s, NEW t, NEW A, Upended(s, t, A) PROVE Upended(t, s, A)
  <1>1. \A k \in 1 .. Len(s) : s[k] = A - t[k]
    BY DEF Upended
  <1> QED BY <1>1 DEF Upended

LEMMA UpendedIs ==
  ASSUME NEW s, NEW n \in Nat, s \in [1 .. n -> Nat], NEW t, t \in [1 .. n -> Nat], NEW A \in Int,
         \A k \in 1 .. n : t[k] = A - s[k]
  PROVE  Upended(s, t, A) /\ Len(s) = n
  <1>1. s \in Seq(Nat) /\ t \in Seq(Nat) /\ Len(s) = n /\ Len(t) = n
    OBVIOUS
  <1> QED BY <1>1 DEF Upended

Swinging(s, at) == at \in [1 .. Len(at) -> 1 .. Len(s)] /\ Len(at) \in Nat /\ at \in Seq(1 .. Len(s))

LEMMA AscendingSwings ==
  ASSUME NEW s \in Seq(Nat), NEW S, S \subseteq 1 .. Len(s), NEW at, at = Ascending(S)
  PROVE  Swinging(s, at)
  <1>1. Len(s) \in Nat
    OBVIOUS
  <1>2. IsFiniteSet(S) /\ S \subseteq Int
    <2>1. IsFiniteSet(1 .. Len(s))
      BY <1>1, FS_Interval
    <2>2. S \in SUBSET (1 .. Len(s))
      OBVIOUS
    <2>3. IsFiniteSet(S)
      BY <2>1, <2>2, FS_Subset
    <2> QED BY <1>1, <2>3
  <1> DEFINE n == Cardinality(S)
  <1>3. n \in Nat /\ at \in [1 .. n -> S]
    BY <1>2, AscendingIs
  <1> HIDE DEF n
  <1>4. at \in [1 .. n -> 1 .. Len(s)]
    BY <1>3
  <1>5. Len(at) = n /\ at \in Seq(1 .. Len(s))
    BY <1>3, <1>4
  <1> QED BY <1>3, <1>4, <1>5 DEF Swinging

LEMMA SwingsAre ==
  ASSUME NEW s \in Seq(Nat)
  PROVE  Swinging(s, SwingHighs(s)) /\ Swinging(s, SwingLows(s))
  <1>1. SwingWindow \in Nat /\ Len(s) \in Nat
    BY ChartAssumption
  <1>2. Inner(s) \subseteq 1 .. Len(s)
    BY <1>1 DEF Inner
  <1> DEFINE H == {i \in Inner(s) : \A p \in Around(s, i) : s[i] >= p}
             L == {i \in Inner(s) : \A p \in Around(s, i) : s[i] <= p}
  <1>3. H \subseteq 1 .. Len(s) /\ L \subseteq 1 .. Len(s)
    BY <1>2
  <1>4. SwingHighs(s) = Ascending(H) /\ SwingLows(s) = Ascending(L)
    BY DEF SwingHighs, SwingLows
  <1> HIDE DEF H, L
  <1> QED BY <1>3, <1>4, AscendingSwings

\* The highs are the lows of the other chart.
LEMMA HighsAreLows ==
  ASSUME NEW s, NEW t, NEW A, Upended(s, t, A)
  PROVE  SwingHighs(t) = SwingLows(s)
  <1>1. SwingWindow \in Nat /\ Len(s) \in Nat /\ A \in Int
    BY ChartAssumption DEF Upended
  <1>2. Inner(t) = Inner(s)
    BY DEF Inner, Upended
  <1>3. ASSUME NEW i \in Inner(s)
        PROVE  (\A p \in Around(t, i) : t[i] >= p) <=> (\A p \in Around(s, i) : s[i] <= p)
    <2> DEFINE near == (i - SwingWindow) .. (i + SwingWindow)
    <2>1. i \in 1 .. Len(s) /\ near \subseteq 1 .. Len(s)
      BY <1>1 DEF Inner
    <2>2. Around(t, i) = {t[j] : j \in near} /\ Around(s, i) = {s[j] : j \in near}
      BY DEF Around
    <2> HIDE DEF near
    <2>3. \A j \in near : t[i] >= t[j] <=> s[i] <= s[j]
      BY <1>1, <2>1 DEF Upended
    <2> QED BY <2>2, <2>3
  <1>4. {i \in Inner(t) : \A p \in Around(t, i) : t[i] >= p} = {i \in Inner(s) : \A p \in Around(s, i) : s[i] <= p}
    BY <1>2, <1>3
  <1> QED BY <1>4 DEF SwingHighs, SwingLows

LEMMA PricesUpended ==
  ASSUME NEW s, NEW t, NEW A, Upended(s, t, A), NEW at, Swinging(s, at)
  PROVE  Upended(SwingPrices(s, at), SwingPrices(t, at), A) /\ Len(SwingPrices(s, at)) = Len(at)
  <1> DEFINE p == SwingPrices(s, at)
             q == SwingPrices(t, at)
             n == Len(at)
  <1>1. n \in Nat /\ DOMAIN at = 1 .. n /\ \A k \in 1 .. n : at[k] \in 1 .. Len(s)
    BY DEF Swinging
  <1>2. p = [k \in 1 .. n |-> s[at[k]]] /\ q = [k \in 1 .. n |-> t[at[k]]]
    BY <1>1 DEF SwingPrices
  <1> HIDE DEF p, q, n
  <1>3. p \in [1 .. n -> Nat] /\ q \in [1 .. n -> Nat] /\ \A k \in 1 .. n : q[k] = A - p[k]
    BY <1>1, <1>2 DEF Upended
  <1>4. A \in Int
    BY DEF Upended
  <1> QED BY <1>1, <1>3, <1>4, UpendedIs DEF p, q, n

\* Both kinds of swings, exchanged.
LEMMA SwingsUpended ==
  ASSUME NEW s, NEW t, NEW A, Upended(s, t, A)
  PROVE  /\ Swinging(s, SwingHighs(s)) /\ Swinging(s, SwingLows(s))
         /\ SwingHighs(t) = SwingLows(s) /\ SwingLows(t) = SwingHighs(s)
         /\ Upended(SwingPrices(s, SwingHighs(s)), SwingPrices(t, SwingLows(t)), A)
         /\ Upended(SwingPrices(s, SwingLows(s)), SwingPrices(t, SwingHighs(t)), A)
  <1>1. Swinging(s, SwingHighs(s)) /\ Swinging(s, SwingLows(s))
    BY SwingsAre DEF Upended
  <1>2. SwingHighs(t) = SwingLows(s)
    BY HighsAreLows
  <1>3. Upended(t, s, A)
    BY UpendedBack
  <1>4. SwingHighs(s) = SwingLows(t)
    BY <1>3, HighsAreLows
  <1> QED BY <1>1, <1>2, <1>4, PricesUpended

LEMMA FinalUpended ==
  ASSUME NEW s, NEW t, NEW A, Upended(s, t, A)
  PROVE  /\ Upended(Final(s, 4), Final(t, 4), A)
         /\ Len(s) >= 1 => Len(Final(s, 4)) >= 1
  <1> DEFINE m == IF Len(s) > 4 THEN Len(s) - 4 + 1 ELSE 1
             n == Len(s) - m + 1
             p == Final(s, 4)
             q == Final(t, 4)
  <1>1. Len(s) \in Nat /\ m \in 1 .. Len(s) + 1 /\ n \in Nat /\ (Len(s) >= 1 => n >= 1)
    BY DEF Upended
  <1>2. p = SubSeq(s, m, Len(s)) /\ q = SubSeq(t, m, Len(s))
    BY DEF Upended, Final
  <1>3. s \in Seq(Nat) /\ t \in Seq(Nat) /\ Len(t) = Len(s) /\ A \in Int
    BY DEF Upended
  <1> HIDE DEF m, p, q
  <1>4. /\ p \in [1 .. n -> Nat] /\ q \in [1 .. n -> Nat]
        /\ \A k \in 1 .. n : p[k] = s[m + k - 1] /\ q[k] = t[m + k - 1] /\ m + k - 1 \in 1 .. Len(s)
    <2>1. p = [k \in 1 .. n |-> s[m + k - 1]]
      BY <1>1, <1>2, <1>3
    <2>2. q = [k \in 1 .. n |-> t[m + k - 1]]
      BY <1>1, <1>2, <1>3
    <2>3. \A k \in 1 .. n : m + k - 1 \in 1 .. Len(s)
      BY <1>1
    <2>4. \A k \in 1 .. Len(s) : s[k] \in Nat /\ t[k] \in Nat
      BY DEF Upended
    <2> HIDE DEF n
    <2> QED BY <2>1, <2>2, <2>3, <2>4
  <1>5. \A k \in 1 .. n : q[k] = A - p[k]
    BY <1>4 DEF Upended
  <1> HIDE DEF n
  <1>6. Upended(p, q, A) /\ Len(p) = n
    <2>1. n \in Nat /\ A \in Int
      BY <1>1, <1>3
    <2>2. p \in [1 .. n -> Nat] /\ q \in [1 .. n -> Nat]
      BY <1>4
    <2> QED BY <1>5, <2>1, <2>2, UpendedIs
  <1> QED BY <1>1, <1>6 DEF p, q

LEMMA RisingFalls ==
  ASSUME NEW s, NEW t, NEW A, Upended(s, t, A)
  PROVE  (Rising(t) <=> Falling(s)) /\ (Falling(t) <=> Rising(s))
  <1>1. /\ Len(s) \in Nat /\ Len(t) = Len(s) /\ A \in Int
        /\ \A k \in 1 .. Len(s) : s[k] \in Nat /\ t[k] = A - s[k]
    BY DEF Upended
  <1>2. \A k \in 1 .. Len(s) - 1 : k \in 1 .. Len(s) /\ k + 1 \in 1 .. Len(s)
    BY <1>1
  <1>3. \A k \in 1 .. Len(s) - 1 : /\ (t[k] <= t[k + 1]) <=> (s[k] >= s[k + 1])
                                   /\ (t[k] >= t[k + 1]) <=> (s[k] <= s[k + 1])
    BY <1>1, <1>2
  <1> QED BY <1>1, <1>3 DEF Rising, Falling

PatternRecord ==
  [name : {"double top", "double bottom", "head & shoulders", "ascending channel", "descending channel",
           "ascending triangle", "descending triangle", "symmetrical triangle"},
   type : {"bullish", "bearish", "neutral"}, level : Int, confidence : Int]

\* Which pattern is which, seen from below.
Pairs(n, t, m, u) ==
  \/ n = "double top" /\ t = "bearish" /\ m = "double bottom" /\ u = "bullish"
  \/ n = "double bottom" /\ t = "bullish" /\ m = "double top" /\ u = "bearish"
  \/ n = "ascending channel" /\ t = "bullish" /\ m = "descending channel" /\ u = "bearish"
  \/ n = "descending channel" /\ t = "bearish" /\ m = "ascending channel" /\ u = "bullish"
  \/ n = "ascending triangle" /\ t = "bullish" /\ m = "descending triangle" /\ u = "bearish"
  \/ n = "descending triangle" /\ t = "bearish" /\ m = "ascending triangle" /\ u = "bullish"
  \/ n = "symmetrical triangle" /\ t = "neutral" /\ m = "symmetrical triangle" /\ u = "neutral"

IsChannel(n) == n \in {"ascending channel", "descending channel"}

\* The level, if there is one, is where the mirror puts it, but for a channel's.
Facing(k, l, A) ==
  \/ l = NoLevel /\ k = NoLevel
  \/ l \in Nat /\ k \in Nat /\ k = 2 * A - l

Answers(q, p, A) ==
  /\ p \in PatternRecord /\ q \in PatternRecord
  /\ Pairs(p.name, p.type, q.name, q.type)
  /\ q.confidence = p.confidence
  /\ IsChannel(p.name) \/ Facing(q.level, p.level, A)

LEMMA AnswersBack ==
  ASSUME NEW q, NEW p, NEW A \in Int, Answers(q, p, A)
  PROVE  Answers(p, q, A)
  <1>1. Pairs(q.name, q.type, p.name, p.type) /\ (IsChannel(p.name) => IsChannel(q.name))
    BY DEF Answers, Pairs, IsChannel
  <1>2. Facing(q.level, p.level, A) => Facing(p.level, q.level, A)
    BY DEF Facing
  <1> QED BY <1>1, <1>2 DEF Answers

LEMMA AnswersIs ==
  ASSUME NEW n, NEW t, NEW m, NEW u, Pairs(n, t, m, u),
         NEW k \in Int, NEW l \in Int, NEW A \in Int, IsChannel(n) \/ Facing(k, l, A), NEW c \in Int
  PROVE  Answers(Pattern(m, u, k, c), Pattern(n, t, l, c), A)
  <1> DEFINE p == Pattern(n, t, l, c)
             q == Pattern(m, u, k, c)
  <1>1. /\ p.name = n /\ p.type = t /\ p.level = l /\ p.confidence = c
        /\ q.name = m /\ q.type = u /\ q.level = k /\ q.confidence = c
    BY DEF Pattern
  <1>2. p \in PatternRecord /\ q \in PatternRecord
    BY DEF Pattern, PatternRecord, Pairs
  <1> HIDE DEF p, q
  <1>3. Answers(q, p, A)
    BY <1>1, <1>2 DEF Answers
  <1> QED BY <1>3 DEF p, q

\* At most one pattern, and the one that answers it.
Answered(u, v, A) ==
  /\ u \in Seq(PatternRecord) /\ v \in Seq(PatternRecord)
  /\ \/ u = <<>> /\ v = <<>>
     \/ \E p, q : v = <<p>> /\ u = <<q>> /\ Answers(q, p, A)

LEMMA AnsweredIs ==
  ASSUME NEW p, NEW q, NEW A, Answers(q, p, A)
  PROVE  Answered(<<q>>, <<p>>, A)
  BY DEF Answered, Answers

LEMMA NobodyAnswers == ASSUME NEW A PROVE Answered(<<>>, <<>>, A)
  BY DEF Answered

LEMMA ToSetJoined ==
  ASSUME NEW S, NEW a \in Seq(S), NEW b \in Seq(S)
  PROVE  ToSet(a \o b) = ToSet(a) \cup ToSet(b)
  <1> DEFINE c == a \o b
             m == Len(a)
             n == Len(b)
  <1>1. c \in Seq(S) /\ Len(c) = m + n /\ m \in Nat /\ n \in Nat
        /\ \A i \in 1 .. m + n : c[i] = IF i <= m THEN a[i] ELSE b[i - m]
    BY ConcatProperties
  <1>2. DOMAIN a = 1 .. m /\ DOMAIN b = 1 .. n /\ DOMAIN c = 1 .. m + n
    BY <1>1
  <1> HIDE DEF c, m, n
  <1>3. \A i \in 1 .. m : i \in 1 .. m + n /\ c[i] = a[i]
    BY <1>1
  <1>4. \A i \in 1 .. n : i + m \in 1 .. m + n /\ c[i + m] = b[i]
    <2> TAKE i \in 1 .. n
    <2>1. i + m \in 1 .. m + n /\ ~(i + m <= m) /\ (i + m) - m = i
      BY <1>1
    <2> QED BY <1>1, <2>1
  <1>5. \A i \in 1 .. m + n : (i \in 1 .. m /\ c[i] = a[i]) \/ (i - m \in 1 .. n /\ c[i] = b[i - m])
    BY <1>1
  <1>6. ToSet(c) = ToSet(a) \cup ToSet(b)
    BY <1>2, <1>3, <1>4, <1>5 DEF ToSet
  <1> QED BY <1>6 DEF c

LEMMA TwinsUpended ==
  ASSUME NEW s, NEW t, NEW A, Upended(s, t, A), NEW at, Swinging(s, at)
  PROVE  /\ Twins(t, at) = Twins(s, at)
         /\ \A k \in Twins(s, at) :
              /\ s[at[k]] \in Nat /\ t[at[k]] \in Nat /\ t[at[k]] = A - s[at[k]]
              /\ s[at[k + 1]] \in Nat /\ t[at[k + 1]] \in Nat /\ t[at[k + 1]] = A - s[at[k + 1]]
         /\ \/ Twins(s, at) = {}
            \/ \E k \in Twins(s, at) : \A j \in Twins(s, at) : j <= k
  <1>1. A \in Int /\ Len(at) \in Nat /\ \A k \in 1 .. Len(at) : at[k] \in 1 .. Len(s)
    BY DEF Upended, Swinging
  <1>2. \A k \in 1 .. Len(at) - 1 : k \in 1 .. Len(at) /\ k + 1 \in 1 .. Len(at)
    BY <1>1
  <1>3. \A k \in 1 .. Len(at) - 1 :
              /\ s[at[k]] \in Nat /\ t[at[k]] \in Nat /\ t[at[k]] = A - s[at[k]]
              /\ s[at[k + 1]] \in Nat /\ t[at[k + 1]] \in Nat /\ t[at[k + 1]] = A - s[at[k + 1]]
    BY <1>1, <1>2 DEF Upended
  <1>4. \A k \in 1 .. Len(at) - 1 : Apart(t[at[k]], t[at[k + 1]]) = Apart(s[at[k]], s[at[k + 1]])
    BY <1>1, <1>3 DEF Apart
  <1>5. Twins(t, at) = Twins(s, at)
    BY <1>4 DEF Twins
  <1>6. Twins(s, at) \subseteq 1 .. Len(at) - 1
    BY DEF Twins
  <1>7. ASSUME Twins(s, at) # {} PROVE \E k \in Twins(s, at) : \A j \in Twins(s, at) : j <= k
    <2> DEFINE T == Twins(s, at)
    <2> HIDE DEF T
    <2>1. T \in SUBSET (1 .. Len(at) - 1) /\ T # {}
      BY <1>6, <1>7 DEF T
    <2>2. IsFiniteSet(1 .. Len(at) - 1)
      BY <1>1, FS_Interval
    <2>3. IsFiniteSet(T)
      BY <2>1, <2>2, FS_Subset
    <2>4. T \in SUBSET Int
      BY <1>1, <2>1
    <2>5. Max(T) \in T /\ \A j \in T : j <= Max(T)
      BY <2>1, <2>3, <2>4, MaxIs
    <2> QED BY <2>5 DEF T
  <1> QED BY <1>3, <1>5, <1>6, <1>7

\* The last double top is the last double bottom of the other chart.
LEMMA DoublesAnswered ==
  ASSUME NEW s, NEW t, NEW A, Upended(s, t, A)
  PROVE  Answered(DoubleTop(t), DoubleBottom(s), A)
  <1> DEFINE at == SwingLows(s)
             where == Twins(s, at)
             k == CHOOSE i \in where : \A j \in where : j <= i
             a == s[at[k]]
             b == s[at[k + 1]]
             c == t[at[k]]
             d == t[at[k + 1]]
  <1>1. Swinging(s, at) /\ SwingHighs(t) = at
    BY SwingsUpended
  <1>2. DoubleBottom(s) = IF where = {} THEN <<>> ELSE <<Twin("double bottom", "bullish", a, b)>>
    BY DEF DoubleBottom, LastOf
  <1>3. DoubleTop(t) = IF Twins(t, at) = {} THEN <<>>
                       ELSE <<Twin("double top", "bearish",
                                   t[at[CHOOSE i \in Twins(t, at) : \A j \in Twins(t, at) : j <= i]],
                                   t[at[(CHOOSE i \in Twins(t, at) : \A j \in Twins(t, at) : j <= i) + 1]])>>
    BY <1>1 DEF DoubleTop, LastOf
  <1> HIDE DEF at
  <1>4. Twins(t, at) = where
    BY <1>1, TwinsUpended
  <1>5. DoubleTop(t) = IF where = {} THEN <<>> ELSE <<Twin("double top", "bearish", c, d)>>
    BY <1>3, <1>4
  <1>6. CASE where = {}
    BY <1>2, <1>5, <1>6, NobodyAnswers
  <1>7. CASE where # {}
    <2>1. k \in where
      <3>1. \E i \in where : \A j \in where : j <= i
        BY <1>1, <1>7, TwinsUpended
      <3> HIDE DEF where
      <3> QED BY <3>1
    <2> HIDE DEF k
    <2>2. a \in Nat /\ b \in Nat /\ c \in Nat /\ d \in Nat /\ c = A - a /\ d = A - b /\ A \in Int
      <3>1. A \in Int
        BY DEF Upended
      <3> QED BY <1>1, <2>1, <3>1, TwinsUpended
    <2> HIDE DEF where, a, b, c, d
    <2> DEFINE sure == IF a = b THEN 95 ELSE 90
               p == Pattern("double bottom", "bullish", a + b, sure)
               q == Pattern("double top", "bearish", c + d, sure)
    <2>3. Answers(q, p, A)
      <3>1. Facing(c + d, a + b, A) /\ a + b \in Int /\ c + d \in Int /\ sure \in Int
        BY <2>2 DEF Facing
      <3>2. Pairs("double bottom", "bullish", "double top", "bearish")
        BY DEF Pairs
      <3>3. A \in Int
        BY <2>2
      <3> HIDE DEF sure
      <3> QED BY <3>1, <3>2, <3>3, AnswersIs
    <2>4. Twin("double bottom", "bullish", a, b) = p /\ Twin("double top", "bearish", c, d) = q
      <3>1. c = d <=> a = b
        BY <2>2
      <3>2. (IF c = d THEN 95 ELSE 90) = sure
        BY <3>1
      <3> HIDE DEF sure
      <3>3. Twin("double top", "bearish", c, d) = Pattern("double top", "bearish", c + d, IF c = d THEN 95 ELSE 90)
        BY DEF Twin
      <3>4. Twin("double bottom", "bullish", a, b) = Pattern("double bottom", "bullish", a + b, sure)
        BY DEF Twin, sure
      <3> QED BY <3>2, <3>3, <3>4
    <2> HIDE DEF p, q
    <2>5. DoubleTop(t) = <<q>> /\ DoubleBottom(s) = <<p>>
      BY <1>2, <1>5, <1>7, <2>4
    <2> QED BY <2>3, <2>5, AnsweredIs
  <1> QED BY <1>6, <1>7

LEMMA LastUpended ==
  ASSUME NEW s, NEW t, NEW A, Upended(s, t, A), Len(s) >= 1
  PROVE  Last(s) \in Nat /\ Last(t) \in Nat /\ Last(t) = A - Last(s)
  <1>1. Len(s) \in 1 .. Len(s) /\ Len(t) = Len(s)
    BY DEF Upended
  <1> QED BY <1>1 DEF Upended, Last

\* The last but one.
LEMMA FrontUpended ==
  ASSUME NEW s, NEW t, NEW A, Upended(s, t, A), Len(s) >= 2
  PROVE  /\ Last(Front(s)) \in Nat /\ Last(Front(t)) \in Nat /\ Last(Front(t)) = A - Last(Front(s))
         /\ Last(Front(s)) = s[Len(s) - 1]
  <1> DEFINE n == Len(s)
  <1>1. s \in Seq(Nat) /\ t \in Seq(Nat) /\ Len(t) = n /\ n \in Nat /\ n >= 2 /\ n - 1 \in 1 .. n
    BY DEF Upended
  <1> HIDE DEF n
  <1>2. Len(SubSeq(s, 1, n - 1)) = n - 1 /\ SubSeq(s, 1, n - 1)[n - 1] = s[n - 1]
    BY <1>1
  <1>3. Len(SubSeq(t, 1, n - 1)) = n - 1 /\ SubSeq(t, 1, n - 1)[n - 1] = t[n - 1]
    BY <1>1
  <1>4. Front(s) = SubSeq(s, 1, n - 1) /\ Front(t) = SubSeq(t, 1, n - 1)
    BY <1>1 DEF Front, n
  <1>5. Last(Front(s)) = s[n - 1] /\ Last(Front(t)) = t[n - 1]
    BY <1>2, <1>3, <1>4 DEF Last
  <1>6. s[n - 1] \in Nat /\ t[n - 1] \in Nat /\ t[n - 1] = A - s[n - 1]
    BY <1>1 DEF Upended, n
  <1> QED BY <1>5, <1>6 DEF n

\* A channel that is rising from below is falling from above.
LEMMA ChannelsAnswered ==
  ASSUME NEW H, NEW L, NEW K, NEW M, NEW A, Upended(H, M, A), Upended(L, K, A), Len(H) >= 1, Len(L) >= 1,
         ~ /\ Rising(Final(H, 4)) /\ Falling(Final(H, 4))
           /\ Rising(Final(L, 4)) /\ Falling(Final(L, 4))
  PROVE  Answered(Channel(K, M), Channel(H, L), A)
  <1> DEFINE h == Final(H, 4)
             l == Final(L, 4)
             k == Final(K, 4)
             m == Final(M, 4)
             rise == Pattern("ascending channel", "bullish", 2 * Last(h), 65)
             fall == Pattern("descending channel", "bearish", 2 * Last(h), 65)
             Rise == Pattern("ascending channel", "bullish", 2 * Last(k), 65)
             Fall == Pattern("descending channel", "bearish", 2 * Last(k), 65)
  <1>1. Upended(h, m, A) /\ Upended(l, k, A) /\ Len(h) >= 1 /\ Len(l) >= 1
    BY FinalUpended
  <1>2. 2 * Last(h) \in Int /\ 2 * Last(k) \in Int /\ A \in Int
    <2>1. Last(h) \in Nat /\ Last(k) \in Nat
      BY <1>1, LastUpended
    <2>2. A \in Int
      BY <1>1 DEF Upended
    <2> HIDE DEF h, k
    <2> QED BY <2>1, <2>2
  <1> HIDE DEF h, l, k, m
  <1>3. /\ Rising(m) <=> Falling(h)
        /\ Falling(m) <=> Rising(h)
        /\ Rising(k) <=> Falling(l)
        /\ Falling(k) <=> Rising(l)
    BY <1>1, RisingFalls
  <1>4. Channel(H, L) = IF Rising(h) /\ Rising(l) THEN <<rise>> ELSE IF Falling(h) /\ Falling(l) THEN <<fall>> ELSE <<>>
    BY DEF Channel, h, l
  <1>5. Channel(K, M) = IF Rising(k) /\ Rising(m) THEN <<Rise>> ELSE IF Falling(k) /\ Falling(m) THEN <<Fall>> ELSE <<>>
    BY DEF Channel, k, m
  <1>6. Answers(Fall, rise, A)
    <2>1. /\ Pairs("ascending channel", "bullish", "descending channel", "bearish")
          /\ 65 \in Int
          /\ IsChannel("ascending channel")
      BY DEF Pairs, IsChannel
    <2> DEFINE x == 2 * Last(h)
               y == 2 * Last(k)
    <2>2. x \in Int /\ y \in Int /\ A \in Int
      BY <1>2
    <2> HIDE DEF x, y
    <2>3. Answers(Pattern("descending channel", "bearish", y, 65), Pattern("ascending channel", "bullish", x, 65), A)
      BY <2>1, <2>2, AnswersIs
    <2> QED BY <2>3 DEF x, y
  <1>7. Answers(Rise, fall, A)
    <2>1. /\ Pairs("descending channel", "bearish", "ascending channel", "bullish")
          /\ 65 \in Int
          /\ IsChannel("descending channel")
      BY DEF Pairs, IsChannel
    <2> DEFINE x == 2 * Last(h)
               y == 2 * Last(k)
    <2>2. x \in Int /\ y \in Int /\ A \in Int
      BY <1>2
    <2> HIDE DEF x, y
    <2>3. Answers(Pattern("ascending channel", "bullish", y, 65), Pattern("descending channel", "bearish", x, 65), A)
      BY <2>1, <2>2, AnswersIs
    <2> QED BY <2>3 DEF x, y
  <1> HIDE DEF rise, fall, Rise, Fall
  <1>8. ~(Rising(h) /\ Falling(h) /\ Rising(l) /\ Falling(l))
    BY DEF h, l
  <1>9. CASE Rising(h) /\ Rising(l)
    <2>1. Channel(H, L) = <<rise>> /\ Channel(K, M) = <<Fall>>
      BY <1>3, <1>4, <1>5, <1>8, <1>9
    <2> QED BY <1>6, <2>1, AnsweredIs
  <1>10. CASE Falling(h) /\ Falling(l)
    <2>1. Channel(H, L) = <<fall>> /\ Channel(K, M) = <<Rise>>
      BY <1>3, <1>4, <1>5, <1>8, <1>10
    <2> QED BY <1>7, <2>1, AnsweredIs
  <1>11. CASE ~(Rising(h) /\ Rising(l)) /\ ~(Falling(h) /\ Falling(l))
    <2>1. Channel(H, L) = <<>> /\ Channel(K, M) = <<>>
      BY <1>3, <1>4, <1>5, <1>11
    <2> QED BY <2>1, NobodyAnswers
  <1> QED BY <1>9, <1>10, <1>11

LEMMA TrianglesAnswered ==
  ASSUME NEW H, NEW L, NEW K, NEW M, NEW A, Upended(H, M, A), Upended(L, K, A), Len(H) >= 2, Len(L) >= 2
  PROVE  Answered(Triangle(K, M), Triangle(H, L), A)
  <1> DEFINE lower(h) == Last(h) < Last(Front(h))
             higher(l) == Last(l) > Last(Front(l))
             sym == Pattern("symmetrical triangle", "neutral", NoLevel, 60)
             fall == Pattern("descending triangle", "bearish", NoLevel, 65)
             rise == Pattern("ascending triangle", "bullish", NoLevel, 65)
  <1>1. A \in Int /\ Len(H) \in Nat /\ Len(L) \in Nat
    BY DEF Upended
  <1>2. /\ lower(K) <=> higher(L)
        /\ higher(M) <=> lower(H)
    <2>1. Last(H) \in Nat /\ Last(M) = A - Last(H) /\ Last(L) \in Nat /\ Last(K) = A - Last(L)
      BY <1>1, LastUpended
    <2>2. Last(Front(H)) \in Nat /\ Last(Front(M)) = A - Last(Front(H))
      BY FrontUpended
    <2>3. Last(Front(L)) \in Nat /\ Last(Front(K)) = A - Last(Front(L))
      BY FrontUpended
    <2> QED BY <1>1, <2>1, <2>2, <2>3
  <1>3. \A h, l : Triangle(h, l) = IF lower(h) /\ higher(l) THEN <<sym>> ELSE IF lower(h) THEN <<fall>>
                                   ELSE IF higher(l) THEN <<rise>> ELSE <<>>
    BY DEF Triangle
  <1>4. Answers(sym, sym, A) /\ Answers(rise, fall, A) /\ Answers(fall, rise, A)
    <2>1. /\ Pairs("symmetrical triangle", "neutral", "symmetrical triangle", "neutral")
          /\ Pairs("ascending triangle", "bullish", "descending triangle", "bearish")
          /\ Pairs("descending triangle", "bearish", "ascending triangle", "bullish")
          /\ Facing(NoLevel, NoLevel, A) /\ NoLevel \in Int /\ 60 \in Int /\ 65 \in Int
      BY DEF Pairs, Facing, NoLevel
    <2>2. Answers(sym, sym, A)
      BY <1>1, <2>1, AnswersIs
    <2>3. Answers(rise, fall, A)
      BY <1>1, <2>1, AnswersIs
    <2>4. Answers(fall, rise, A)
      BY <1>1, <2>1, AnswersIs
    <2> QED BY <2>2, <2>3, <2>4
  <1> HIDE DEF lower, higher, sym, fall, rise
  <1>5. CASE lower(H) /\ higher(L)
    <2>1. Triangle(H, L) = <<sym>> /\ Triangle(K, M) = <<sym>>
      BY <1>2, <1>3, <1>5
    <2> QED BY <1>4, <2>1, AnsweredIs
  <1>6. CASE lower(H) /\ ~higher(L)
    <2>1. Triangle(H, L) = <<fall>> /\ Triangle(K, M) = <<rise>>
      BY <1>2, <1>3, <1>6
    <2> QED BY <1>4, <2>1, AnsweredIs
  <1>7. CASE ~lower(H) /\ higher(L)
    <2>1. Triangle(H, L) = <<rise>> /\ Triangle(K, M) = <<fall>>
      BY <1>2, <1>3, <1>7
    <2> QED BY <1>4, <2>1, AnsweredIs
  <1>8. CASE ~lower(H) /\ ~higher(L)
    <2>1. Triangle(H, L) = <<>> /\ Triangle(K, M) = <<>>
      BY <1>2, <1>3, <1>8
    <2> QED BY <2>1, NobodyAnswers
  <1> QED BY <1>5, <1>6, <1>7, <1>8

LEMMA ToSetOfOne == ASSUME NEW x PROVE ToSet(<<x>>) = {x}
  <1>1. DOMAIN <<x>> = {1} /\ <<x>>[1] = x
    OBVIOUS
  <1> QED BY <1>1 DEF ToSet

LEMMA SeqOfOne == ASSUME NEW S, NEW x \in S PROVE <<x>> \in Seq(S)
  OBVIOUS

\* The pattern nobody answers.
LEMMA HeadsAre ==
  ASSUME NEW s, NEW t, NEW A, Upended(s, t, A)
  PROVE  /\ HeadShoulders(s) \in Seq(PatternRecord)
         /\ \A p \in ToSet(HeadShoulders(s)) : p.name = "head & shoulders"
  <1> DEFINE p == SwingPrices(s, SwingHighs(s))
             n == Len(p) - 2
             heads == {k \in 1 .. n : /\ p[k + 1] > p[k] /\ p[k + 1] > p[k + 2]
                                      /\ Apart(p[k], p[k + 2]) <= 2}
             k == CHOOSE i \in heads : \A j \in heads : j <= i
             head == Pattern("head & shoulders", "bearish", 2 * p[k + 1],
                             60 + (2 * p[k + 1] - p[k] - p[k + 2]) \div 2)
  <1>1. Len(p) \in Nat /\ \A i \in 1 .. Len(p) : p[i] \in Nat
    <2>1. Upended(p, SwingPrices(t, SwingLows(t)), A)
      BY SwingsUpended
    <2> QED BY <2>1 DEF Upended
  <1>2. HeadShoulders(s) = IF heads = {} THEN <<>> ELSE <<head>>
    BY DEF HeadShoulders, LastOf
  <1> HIDE DEF p
  <1>3. CASE heads = {}
    <2> HIDE DEF heads
    <2>1. HeadShoulders(s) = <<>>
      BY <1>2, <1>3
    <2> QED BY <2>1 DEF ToSet
  <1>4. CASE heads # {}
    <2>1. heads \in SUBSET (1 .. n) /\ n \in Int
      BY <1>1
    <2> HIDE DEF heads
    <2>2. IsFiniteSet(1 .. n)
      BY <2>1, FS_Interval
    <2>3. IsFiniteSet(heads)
      BY <2>1, <2>2, FS_Subset
    <2>4. heads \in SUBSET Int
      BY <2>1
    <2>5. Max(heads) \in heads /\ \A j \in heads : j <= Max(heads)
      BY <1>4, <2>3, <2>4, MaxIs
    <2>6. k \in heads
      BY <2>5
    <2> HIDE DEF k
    <2>7. k \in 1 .. n
      BY <2>1, <2>6
    <2> DEFINE a == p[k]
               b == p[k + 1]
               c == p[k + 2]
    <2>8. a \in Nat /\ b \in Nat /\ c \in Nat
      <3>1. k \in 1 .. Len(p) /\ k + 1 \in 1 .. Len(p) /\ k + 2 \in 1 .. Len(p)
        BY <1>1, <2>7
      <3> QED BY <1>1, <3>1
    <2> HIDE DEF a, b, c
    <2>9. head = Pattern("head & shoulders", "bearish", 2 * b, 60 + (2 * b - a - c) \div 2)
      BY DEF a, b, c
    <2> DEFINE l == 2 * b
               d == 60 + (2 * b - a - c) \div 2
    <2>10. head \in PatternRecord /\ head.name = "head & shoulders"
      <3>1. l \in Int /\ d \in Int
        BY <2>8
      <3> HIDE DEF l, d, head
      <3>2. head = Pattern("head & shoulders", "bearish", l, d)
        BY <2>9 DEF l, d
      <3> QED BY <3>1, <3>2 DEF Pattern, PatternRecord
    <2> HIDE DEF head
    <2>11. HeadShoulders(s) = <<head>>
      BY <1>2, <1>4
    <2>12. ToSet(<<head>>) = {head}
      BY ToSetOfOne
    <2>13. <<head>> \in Seq(PatternRecord)
      BY <2>10, SeqOfOne
    <2> QED BY <2>10, <2>11, <2>12, <2>13
  <1> QED BY <1>3, <1>4

\* The parts of what is found, all of them sequences of patterns.
LEMMA FoundIs ==
  ASSUME NEW s, NEW t, NEW A, Upended(s, t, A), ~Motionless(s), NEW H, NEW L,
         H = SwingPrices(s, SwingHighs(s)), L = SwingPrices(s, SwingLows(s))
  PROVE  ToSet(DetectAll(s)) = ToSet(DoubleTop(s)) \cup ToSet(DoubleBottom(s)) \cup ToSet(HeadShoulders(s))
           \cup (IF Len(H) < 2 \/ Len(L) < 2 THEN {} ELSE ToSet(Channel(H, L)) \cup ToSet(Triangle(H, L)))
  <1> DEFINE S == Seq(PatternRecord)
             few == Len(H) < 2 \/ Len(L) < 2
             a == DoubleTop(s)
             b == DoubleBottom(s)
             c == HeadShoulders(s)
             d == Channel(H, L)
             e == Triangle(H, L)
             f == IF few THEN <<>> ELSE d \o e
  <1>1. Upended(t, s, A)
    BY UpendedBack
  <1>2. a \in S /\ b \in S
    <2>1. Answered(a, DoubleBottom(t), A) /\ Answered(DoubleTop(t), b, A)
      BY <1>1, DoublesAnswered
    <2> QED BY <2>1 DEF Answered
  <1>3. c \in S
    BY HeadsAre
  <1>4. DetectAll(s) = a \o b \o c \o f
    BY DEF DetectAll
  <1>5. f \in S /\ ToSet(f) = IF few THEN {} ELSE ToSet(d) \cup ToSet(e)
    <2>1. CASE few
      <3>1. f = <<>> /\ ToSet(<<>>) = {} /\ <<>> \in S
        BY <2>1 DEF ToSet
      <3> QED BY <2>1, <3>1
    <2>2. CASE ~few
      <3> DEFINE K == SwingPrices(t, SwingHighs(t))
                 M == SwingPrices(t, SwingLows(t))
      <3>1. Upended(H, M, A) /\ Upended(L, K, A)
        BY SwingsUpended
      <3> HIDE DEF K, M
      <3>2. Len(H) \in Nat /\ Len(L) \in Nat
        BY <3>1 DEF Upended
      <3>3. Len(H) >= 2 /\ Len(L) >= 2 /\ Len(H) >= 1 /\ Len(L) >= 1
        BY <2>2, <3>2
      <3>4. ~ /\ Rising(Final(H, 4)) /\ Falling(Final(H, 4))
              /\ Rising(Final(L, 4)) /\ Falling(Final(L, 4))
        BY DEF Motionless
      <3>5. Answered(Channel(K, M), d, A)
        BY <3>1, <3>3, <3>4, ChannelsAnswered
      <3>6. Answered(Triangle(K, M), e, A)
        BY <3>1, <3>3, TrianglesAnswered
      <3>7. d \in S /\ e \in S
        BY <3>5, <3>6 DEF Answered
      <3> HIDE DEF d, e, few
      <3>8. d \o e \in S /\ ToSet(d \o e) = ToSet(d) \cup ToSet(e)
        BY <3>7, Joined, ToSetJoined
      <3> QED BY <2>2, <3>8
    <2> QED BY <2>1, <2>2
  <1> HIDE DEF a, b, c, d, e, f, few
  <1>6. a \o b \in S /\ ToSet(a \o b) = ToSet(a) \cup ToSet(b)
    BY <1>2, Joined, ToSetJoined
  <1> DEFINE ab == a \o b
             abc == ab \o c
  <1>7. abc \in S /\ ToSet(abc) = ToSet(ab) \cup ToSet(c)
    <2>1. ab \in S
      BY <1>6
    <2> HIDE DEF ab
    <2> QED BY <1>3, <2>1, Joined, ToSetJoined
  <1>8. ToSet(abc \o f) = ToSet(abc) \cup ToSet(f)
    <2> HIDE DEF abc
    <2> QED BY <1>5, <1>7, ToSetJoined
  <1>9. ToSet(DetectAll(s)) = ToSet(a) \cup ToSet(b) \cup ToSet(c) \cup IF few THEN {} ELSE ToSet(d) \cup ToSet(e)
    BY <1>4, <1>5, <1>6, <1>7, <1>8
  <1> QED BY <1>9 DEF a, b, c, d, e, few

LEMMA AnsweredEach ==
  ASSUME NEW u, NEW v, NEW A, Answered(u, v, A)
  PROVE  \A p \in ToSet(v) : \E q \in ToSet(u) : Answers(q, p, A)
  <1>1. CASE v = <<>>
    BY <1>1 DEF ToSet
  <1>2. CASE \E p, q : v = <<p>> /\ u = <<q>> /\ Answers(q, p, A)
    <2>1. PICK p, q : v = <<p>> /\ u = <<q>> /\ Answers(q, p, A)
      BY <1>2
    <2>2. ToSet(v) = {p} /\ ToSet(u) = {q}
      BY <2>1, ToSetOfOne
    <2> QED BY <2>1, <2>2
  <1> QED BY <1>1, <1>2 DEF Answered

LEMMA StillMotionless ==
  ASSUME NEW s, NEW t, NEW A, Upended(s, t, A), ~Motionless(s)
  PROVE  ~Motionless(t)
  <1> DEFINE H == SwingPrices(s, SwingHighs(s))
             L == SwingPrices(s, SwingLows(s))
             K == SwingPrices(t, SwingHighs(t))
             M == SwingPrices(t, SwingLows(t))
  <1>1. Upended(H, M, A) /\ Upended(L, K, A)
    BY SwingsUpended
  <1>2. ~(Rising(Final(H, 4)) /\ Falling(Final(H, 4)) /\ Rising(Final(L, 4)) /\ Falling(Final(L, 4)))
    BY DEF Motionless
  <1>3. Motionless(t) <=> (Rising(Final(K, 4)) /\ Falling(Final(K, 4)) /\ Rising(Final(M, 4)) /\ Falling(Final(M, 4)))
    BY DEF Motionless
  <1> HIDE DEF H, L, K, M
  <1>4. Upended(Final(H, 4), Final(M, 4), A) /\ Upended(Final(L, 4), Final(K, 4), A)
    BY <1>1, FinalUpended
  <1>5. (Rising(Final(M, 4)) <=> Falling(Final(H, 4))) /\ (Falling(Final(M, 4)) <=> Rising(Final(H, 4)))
    BY <1>4, RisingFalls
  <1>6. (Rising(Final(K, 4)) <=> Falling(Final(L, 4))) /\ (Falling(Final(K, 4)) <=> Rising(Final(L, 4)))
    BY <1>4, RisingFalls
  <1> QED BY <1>2, <1>3, <1>5, <1>6

\* Every pattern but the head and shoulders is answered in the other chart.
LEMMA EveryOneAnswered ==
  ASSUME NEW s, NEW t, NEW A, Upended(s, t, A), ~Motionless(s)
  PROVE  \A p \in ToSet(DetectAll(s)) : \/ p.name = "head & shoulders" /\ p \in PatternRecord
                                        \/ \E q \in ToSet(DetectAll(t)) : Answers(q, p, A)
  <1> DEFINE H == SwingPrices(s, SwingHighs(s))
             L == SwingPrices(s, SwingLows(s))
             K == SwingPrices(t, SwingHighs(t))
             M == SwingPrices(t, SwingLows(t))
             few == Len(H) < 2 \/ Len(L) < 2
  <1>1. Upended(H, M, A) /\ Upended(L, K, A)
    BY SwingsUpended
  <1>2. Upended(t, s, A) /\ ~Motionless(t) /\ A \in Int
    <2>1. Upended(t, s, A)
      BY UpendedBack
    <2>2. ~Motionless(t)
      BY StillMotionless
    <2> QED BY <2>1, <2>2 DEF Upended
  <1>3. ToSet(DetectAll(s)) = ToSet(DoubleTop(s)) \cup ToSet(DoubleBottom(s)) \cup ToSet(HeadShoulders(s))
           \cup (IF few THEN {} ELSE ToSet(Channel(H, L)) \cup ToSet(Triangle(H, L)))
    BY FoundIs
  <1>4. ToSet(DetectAll(t)) = ToSet(DoubleTop(t)) \cup ToSet(DoubleBottom(t)) \cup ToSet(HeadShoulders(t))
           \cup (IF Len(K) < 2 \/ Len(M) < 2 THEN {} ELSE ToSet(Channel(K, M)) \cup ToSet(Triangle(K, M)))
    BY <1>2, FoundIs
  <1>5. (Len(K) < 2 \/ Len(M) < 2) <=> few
    BY <1>1 DEF Upended
  <1>6. \A p \in ToSet(DoubleBottom(s)) : \E q \in ToSet(DoubleTop(t)) : Answers(q, p, A)
    BY DoublesAnswered, AnsweredEach
  <1>7. \A p \in ToSet(DoubleTop(s)) : \E q \in ToSet(DoubleBottom(t)) : Answers(q, p, A)
    <2>1. Answered(DoubleTop(s), DoubleBottom(t), A)
      BY <1>2, DoublesAnswered
    <2>2. CASE DoubleTop(s) = <<>>
      BY <2>2 DEF ToSet
    <2>3. CASE \E p, q : DoubleBottom(t) = <<p>> /\ DoubleTop(s) = <<q>> /\ Answers(q, p, A)
      <3>1. PICK p, q : DoubleBottom(t) = <<p>> /\ DoubleTop(s) = <<q>> /\ Answers(q, p, A)
        BY <2>3
      <3>2. ToSet(DoubleBottom(t)) = {p} /\ ToSet(DoubleTop(s)) = {q}
        BY <3>1, ToSetOfOne
      <3>3. Answers(p, q, A)
        BY <1>2, <3>1, AnswersBack
      <3> QED BY <3>2, <3>3
    <2> QED BY <2>1, <2>2, <2>3 DEF Answered
  <1>8. \A p \in ToSet(HeadShoulders(s)) : p.name = "head & shoulders" /\ p \in PatternRecord
    <2>1. HeadShoulders(s) \in Seq(PatternRecord) /\ \A p \in ToSet(HeadShoulders(s)) : p.name = "head & shoulders"
      BY HeadsAre
    <2>2. \A p \in ToSet(HeadShoulders(s)) : p \in PatternRecord
      <3> DEFINE h == HeadShoulders(s)
      <3>1. h \in Seq(PatternRecord)
        BY <2>1
      <3> HIDE DEF h
      <3>2. \A i \in DOMAIN h : h[i] \in PatternRecord
        BY <3>1, ElementOfSeq
      <3>3. \A p \in ToSet(h) : p \in PatternRecord
        BY <3>2 DEF ToSet
      <3> QED BY <3>3 DEF h
    <2> QED BY <2>1, <2>2
  <1>9. ~few => /\ \A p \in ToSet(Channel(H, L)) : \E q \in ToSet(Channel(K, M)) : Answers(q, p, A)
                /\ \A p \in ToSet(Triangle(H, L)) : \E q \in ToSet(Triangle(K, M)) : Answers(q, p, A)
    <2> SUFFICES ASSUME ~few
                 PROVE  /\ \A p \in ToSet(Channel(H, L)) : \E q \in ToSet(Channel(K, M)) : Answers(q, p, A)
                        /\ \A p \in ToSet(Triangle(H, L)) : \E q \in ToSet(Triangle(K, M)) : Answers(q, p, A)
      OBVIOUS
    <2>1. ~ /\ Rising(Final(H, 4)) /\ Falling(Final(H, 4))
            /\ Rising(Final(L, 4)) /\ Falling(Final(L, 4))
      BY DEF Motionless
    <2>0. ~(Len(H) < 2 \/ Len(L) < 2)
      OBVIOUS
    <2> HIDE DEF H, L, K, M, few
    <2>2. Len(H) >= 2 /\ Len(L) >= 2 /\ Len(H) >= 1 /\ Len(L) >= 1
      <3>1. Len(H) \in Nat /\ Len(L) \in Nat
        BY <1>1 DEF Upended
      <3> QED BY <2>0, <3>1
    <2>3. Answered(Channel(K, M), Channel(H, L), A)
      BY <1>1, <2>1, <2>2, ChannelsAnswered
    <2>4. Answered(Triangle(K, M), Triangle(H, L), A)
      BY <1>1, <2>2, TrianglesAnswered
    <2> QED BY <2>3, <2>4, AnsweredEach
  <1> HIDE DEF H, L, K, M, few
  <1> QED BY <1>3, <1>4, <1>5, <1>6, <1>7, <1>8, <1>9

(* What surrounds a chart, turned with it. *)

ZonesAre(Z) == \A z \in Z : z = [price |-> z.price, kind |-> z.kind, strong |-> z.strong] /\ z.price \in Int

TurnedZone(z, A) == [z EXCEPT !.price = A - @, !.kind = Turned(@)]

\* The surroundings b are a's turned upside down.
Overturned(a, b, A) ==
  /\ ZonesAre(a.zones) /\ b.zones = {TurnedZone(z, A) : z \in a.zones}
  /\ b.move = Turned(a.move) /\ b.session = a.session /\ b.sweep = a.sweep /\ b.spike = a.spike

LEMMA ChartWords ==
  /\ \A n, t, m, u : Pairs(n, t, m, u) => m = Turned(n) /\ u = Turned(t)
  /\ \A x : (Turned(x) = "up" <=> x = "down") /\ (Turned(x) = "down" <=> x = "up")
  /\ \A x : (Turned(x) = "session_high" <=> x = "session_low") /\ (Turned(x) = "session_low" <=> x = "session_high")
  <1>1. ASSUME NEW n, NEW t, NEW m, NEW u, Pairs(n, t, m, u) PROVE m = Turned(n) /\ u = Turned(t)
    BY <1>1 DEF Pairs, Turned
  <1>2. ASSUME NEW x PROVE (Turned(x) = "up" <=> x = "down") /\ (Turned(x) = "down" <=> x = "up")
    BY DEF Turned
  <1>3. ASSUME NEW x
        PROVE  (Turned(x) = "session_high" <=> x = "session_low") /\ (Turned(x) = "session_low" <=> x = "session_high")
    BY DEF Turned
  <1> QED BY <1>1, <1>2, <1>3

LEMMA ZoneTurned ==
  ASSUME NEW z, z = [price |-> z.price, kind |-> z.kind, strong |-> z.strong], NEW A, NEW w, w = TurnedZone(z, A)
  PROVE  w.price = A - z.price /\ w.kind = Turned(z.kind) /\ w.strong = z.strong
  <1>1. w = [z EXCEPT !.price = A - z.price, !.kind = Turned(z.kind)]
    BY DEF TurnedZone
  <1> QED BY <1>1

LEMMA NearTurned ==
  ASSUME NEW l, NEW k, NEW A \in Int, Facing(k, l, A), NEW z, z.price \in Int, NEW w, w.price = A - z.price
  PROVE  Near(k, w) <=> Near(l, z)
  <1>1. CASE l = NoLevel /\ k = NoLevel
    BY <1>1 DEF Near
  <1>2. CASE l \in Nat /\ k \in Nat /\ k = 2 * A - l
    <2> DEFINE p == z.price
    <2>1. p \in Int /\ w.price = A - p
      OBVIOUS
    <2> HIDE DEF p
    <2>2. Apart(k, 2 * (A - p)) = Apart(l, 2 * p)
      BY <1>2, <2>1 DEF Apart
    <2>3. k # NoLevel /\ l # NoLevel
      BY <1>2 DEF NoLevel
    <2> QED BY <2>1, <2>2, <2>3 DEF Near, p
  <1> QED BY <1>1, <1>2 DEF Facing

LEMMA BeyondTurned ==
  ASSUME NEW n, NEW t, NEW m, NEW u, Pairs(n, t, m, u), NEW s, NEW v, NEW A, Upended(s, v, A), Len(s) >= 1,
         NEW z, z.price \in Int, NEW w, w.price = A - z.price, w.strong = z.strong
  PROVE  Beyond(u, v, w) <=> Beyond(t, s, z)
  <1> DEFINE p == z.price
             x == Last(s)
             y == Last(v)
  <1>1. x \in Nat /\ y = A - x /\ A \in Int /\ p \in Int /\ w.price = A - p
    BY LastUpended DEF Upended
  <1>2. (u = "bullish" <=> t = "bearish") /\ (u = "bearish" <=> t = "bullish")
    BY DEF Pairs
  <1>3. Beyond(t, s, z) <=> (z.strong /\ ((t = "bullish" /\ 2 * x > 2 * p + 3) \/ (t = "bearish" /\ 2 * x < 2 * p - 3)))
    BY DEF Beyond
  <1>4. Beyond(u, v, w) <=> (z.strong /\ ((u = "bullish" /\ 2 * y > 2 * (A - p) + 3) \/ (u = "bearish" /\ 2 * y < 2 * (A - p) - 3)))
    BY <1>1 DEF Beyond
  <1> HIDE DEF x, y, p
  <1>5. (2 * y > 2 * (A - p) + 3 <=> 2 * x < 2 * p - 3) /\ (2 * y < 2 * (A - p) - 3 <=> 2 * x > 2 * p + 3)
    BY <1>1
  <1> QED BY <1>2, <1>3, <1>4, <1>5

LEMMA PenaltyAlike ==
  ASSUME NEW q, NEW p, NEW A \in Int, Answers(q, p, A), ~IsChannel(p.name),
         NEW s, NEW v, Upended(s, v, A), Len(s) >= 1, NEW a, NEW b, Overturned(a, b, A)
  PROVE  Penalty(q, v, b) = Penalty(p, s, a) /\ Penalty(p, s, a) \in Int
  <1> DEFINE nearP == \E z \in a.zones : Near(p.level, z)
             nearQ == \E z \in b.zones : Near(q.level, z)
             beyondP == \E z \in a.zones : Beyond(p.type, s, z)
             beyondQ == \E z \in b.zones : Beyond(q.type, v, z)
             highP == \E z \in a.zones : Near(p.level, z) /\ z.kind = "session_high"
             highQ == \E z \in b.zones : Near(q.level, z) /\ z.kind = "session_high"
             lowP == \E z \in a.zones : Near(p.level, z) /\ z.kind = "session_low"
             lowQ == \E z \in b.zones : Near(q.level, z) /\ z.kind = "session_low"
             midP == MidRange(p.level, s)
             midQ == MidRange(q.level, v)
  <1>1. Pairs(p.name, p.type, q.name, q.type) /\ Facing(q.level, p.level, A)
    BY DEF Answers
  <1>2. ASSUME NEW z \in a.zones
        PROVE  /\ Near(q.level, TurnedZone(z, A)) <=> Near(p.level, z)
               /\ Beyond(q.type, v, TurnedZone(z, A)) <=> Beyond(p.type, s, z)
               /\ TurnedZone(z, A).kind = "session_high" <=> z.kind = "session_low"
               /\ TurnedZone(z, A).kind = "session_low" <=> z.kind = "session_high"
    <2> DEFINE w == TurnedZone(z, A)
    <2>1. z = [price |-> z.price, kind |-> z.kind, strong |-> z.strong] /\ z.price \in Int
      BY DEF Overturned, ZonesAre
    <2> HIDE DEF w
    <2>2. w.price = A - z.price /\ w.kind = Turned(z.kind) /\ w.strong = z.strong
      BY <2>1, ZoneTurned DEF w
    <2>3. Near(q.level, w) <=> Near(p.level, z)
      BY <1>1, <2>1, <2>2, NearTurned
    <2>4. Beyond(q.type, v, w) <=> Beyond(p.type, s, z)
      BY <1>1, <2>1, <2>2, BeyondTurned
    <2>5. (w.kind = "session_high" <=> z.kind = "session_low") /\ (w.kind = "session_low" <=> z.kind = "session_high")
      BY <2>2, ChartWords
    <2> QED BY <2>3, <2>4, <2>5 DEF w
  <1>3. b.zones = {TurnedZone(z, A) : z \in a.zones}
    BY DEF Overturned
  <1>4. nearQ <=> nearP
    BY <1>2, <1>3
  <1>5. beyondQ <=> beyondP
    BY <1>2, <1>3
  <1>6. (highQ <=> lowP) /\ (lowQ <=> highP)
    BY <1>2, <1>3
  <1>7. Penalty(p, s, a) =
          LET reversal == p.name \in {"double top", "double bottom", "head & shoulders"}
              head == p.name = "head & shoulders"
              twin == p.name \in {"double top", "double bottom"}
          IN  If(a.session = "weekend", -30) + If(a.session = "asian" /\ reversal, -20)
              + If(reversal /\ p.type = "bearish" /\ a.move = "up", -25)
              + If(reversal /\ p.type = "bullish" /\ a.move = "down", -25)
              + If(a.sweep /\ nearP, -20) + If(beyondP, 15)
              + If(head /\ a.bias = "bullish", -20) + If(head /\ a.news, -25)
              + If(head /\ midP, -15)
              + If(p.name = "double top" /\ highP, 10) + If(p.name = "double bottom" /\ lowP, 10)
              + If(twin /\ a.spike, 15)
    BY Zenon DEF Penalty
  <1>8. Penalty(q, v, b) =
          LET reversal == q.name \in {"double top", "double bottom", "head & shoulders"}
              head == q.name = "head & shoulders"
              twin == q.name \in {"double top", "double bottom"}
          IN  If(b.session = "weekend", -30) + If(b.session = "asian" /\ reversal, -20)
              + If(reversal /\ q.type = "bearish" /\ b.move = "up", -25)
              + If(reversal /\ q.type = "bullish" /\ b.move = "down", -25)
              + If(b.sweep /\ nearQ, -20) + If(beyondQ, 15)
              + If(head /\ b.bias = "bullish", -20) + If(head /\ b.news, -25)
              + If(head /\ midQ, -15)
              + If(q.name = "double top" /\ highQ, 10) + If(q.name = "double bottom" /\ lowQ, 10)
              + If(twin /\ b.spike, 15)
    BY Zenon DEF Penalty
  <1>9. /\ b.session = a.session /\ b.sweep = a.sweep /\ b.spike = a.spike
        /\ b.move = "up" <=> a.move = "down"
        /\ b.move = "down" <=> a.move = "up"
    BY ChartWords DEF Overturned
  <1> HIDE DEF nearP, nearQ, beyondP, beyondQ, highP, highQ, lowP, lowQ, midP, midQ
  <1> DEFINE weekend == If(a.session = "weekend", -30)
             asian == If(a.session = "asian", -20)
             up == If(a.move = "up", -25)
             fell == If(a.move = "down", -25)
             sweep == If(a.sweep /\ nearP, -20)
             beyond == If(beyondP, 15)
             high == If(highP, 10)
             low == If(lowP, 10)
             spike == If(a.spike, 15)
             weekendQ == If(b.session = "weekend", -30)
             asianQ == If(b.session = "asian", -20)
             upQ == If(b.move = "up", -25)
             fellQ == If(b.move = "down", -25)
             sweepQ == If(b.sweep /\ nearQ, -20)
             besideQ == If(beyondQ, 15)
             topQ == If(highQ, 10)
             bottomQ == If(lowQ, 10)
             spikeQ == If(b.spike, 15)
  <1>13. /\ weekend \in Int /\ asian \in Int /\ up \in Int /\ fell \in Int /\ sweep \in Int
         /\ beyond \in Int /\ high \in Int /\ low \in Int /\ spike \in Int
    BY DEF If
  <1>14. /\ weekendQ = weekend
         /\ asianQ = asian
         /\ sweepQ = sweep
         /\ besideQ = beyond
         /\ spikeQ = spike
    BY <1>4, <1>5, <1>9 DEF If
  <1>15. /\ upQ = fell
         /\ fellQ = up
         /\ topQ = low
         /\ bottomQ = high
    BY <1>6, <1>9 DEF If
  <1>10. CASE p.name = "double top" /\ p.type = "bearish" /\ q.name = "double bottom" /\ q.type = "bullish"
    <2>1. Penalty(p, s, a) = weekend + asian + up + 0 + sweep + beyond + 0 + 0 + 0 + high + 0 + spike
      BY <1>7, <1>10 DEF If
    <2>2. Penalty(q, v, b) = weekendQ + asianQ + 0 + fellQ
                               + sweepQ + besideQ + 0 + 0 + 0 + 0 + bottomQ + spikeQ
      BY <1>8, <1>10 DEF If
    <2> HIDE DEF weekend, asian, up, fell, sweep, beyond, high, low, spike,
                 weekendQ, asianQ, upQ, fellQ, sweepQ, besideQ, topQ, bottomQ, spikeQ
    <2> QED BY <1>13, <1>14, <1>15, <2>1, <2>2
  <1>11. CASE q.name = "double top" /\ q.type = "bearish" /\ p.name = "double bottom" /\ p.type = "bullish"
    <2>1. Penalty(p, s, a) = weekend + asian + 0 + fell + sweep + beyond + 0 + 0 + 0 + 0 + low + spike
      BY <1>7, <1>11 DEF If
    <2>2. Penalty(q, v, b) = weekendQ + asianQ + upQ + 0
                               + sweepQ + besideQ + 0 + 0 + 0 + topQ + 0 + spikeQ
      BY <1>8, <1>11 DEF If
    <2> HIDE DEF weekend, asian, up, fell, sweep, beyond, high, low, spike,
                 weekendQ, asianQ, upQ, fellQ, sweepQ, besideQ, topQ, bottomQ, spikeQ
    <2> QED BY <1>13, <1>14, <1>15, <2>1, <2>2
  <1>12. CASE p.name \in {"ascending triangle", "descending triangle", "symmetrical triangle"} /\ q.name \in {"ascending triangle", "descending triangle", "symmetrical triangle"}
    <2>1. Penalty(p, s, a) = weekend + 0 + 0 + 0 + sweep + beyond + 0 + 0 + 0 + 0 + 0 + 0
      BY <1>7, <1>12 DEF If
    <2>2. Penalty(q, v, b) = weekendQ + 0 + 0 + 0 + sweepQ + besideQ + 0 + 0 + 0 + 0 + 0 + 0
      BY <1>8, <1>12 DEF If
    <2> HIDE DEF weekend, asian, up, fell, sweep, beyond, high, low, spike,
                 weekendQ, asianQ, upQ, fellQ, sweepQ, besideQ, topQ, bottomQ, spikeQ
    <2> QED BY <1>13, <1>14, <1>15, <2>1, <2>2
  <1> QED BY <1>1, <1>10, <1>11, <1>12 DEF Pairs, IsChannel

\* A pattern as Paired compares it.
Comparable(p) == [p EXCEPT !.confidence = IF p.name \in {"ascending channel", "descending channel"} THEN 0 ELSE @]
TurnedPattern(p) == [p EXCEPT !.name = Turned(@), !.type = Turned(@)]

LEMMA ComparableIs ==
  ASSUME NEW n, NEW t, NEW l, NEW c
  PROVE  /\ Comparable(Pattern(n, t, l, c)) = Pattern(n, t, l, IF IsChannel(n) THEN 0 ELSE c)
         /\ TurnedPattern(Pattern(n, t, l, c)) = Pattern(Turned(n), Turned(t), l, c)
  <1> DEFINE P == Pattern(n, t, l, c)
             x == IF IsChannel(n) THEN 0 ELSE c
             m == Turned(n)
             u == Turned(t)
  <1>1. P = [name |-> n, type |-> t, level |-> l, confidence |-> c] /\ P.name = n /\ P.type = t /\ P.confidence = c
    BY DEF Pattern
  <1>2. Comparable(P) = [P EXCEPT !.confidence = x]
    <2>1. (IF P.name \in {"ascending channel", "descending channel"} THEN 0 ELSE P.confidence) = x
      BY <1>1 DEF IsChannel
    <2> HIDE DEF P, x
    <2> QED BY <2>1 DEF Comparable
  <1>3. TurnedPattern(P) = [P EXCEPT !.name = m, !.type = u]
    BY <1>1 DEF TurnedPattern
  <1> HIDE DEF P, x, m, u
  <1>4. Comparable(P) = [name |-> n, type |-> t, level |-> l, confidence |-> x]
    BY <1>1, <1>2
  <1>5. TurnedPattern(P) = [name |-> m, type |-> u, level |-> l, confidence |-> c]
    BY <1>1, <1>3
  <1>6. Comparable(P) = Pattern(n, t, l, x) /\ TurnedPattern(P) = Pattern(m, u, l, c)
    BY <1>4, <1>5 DEF Pattern
  <1> QED BY <1>6 DEF P, x, m, u

\* What is left of two patterns in their surroundings is one the other turned.
SameReading(q, v, b, p, s, a) ==
  /\ Comparable(Adjusted(q, v, b)) = TurnedPattern(Comparable(Adjusted(p, s, a)))
  /\ Adjusted(p, s, a).name = p.name /\ p.name # "head & shoulders"
  /\ Adjusted(q, v, b).name = q.name /\ q.name # "head & shoulders"

LEMMA AdjustedAlike ==
  ASSUME NEW q, NEW p, NEW A \in Int, Answers(q, p, A),
         NEW s, NEW v, Upended(s, v, A), Len(s) >= 1, NEW a, NEW b, Overturned(a, b, A)
  PROVE  SameReading(q, v, b, p, s, a)
  <1> DEFINE x == Max({0, Min({100, p.confidence + Penalty(p, s, a)})})
             y == Max({0, Min({100, q.confidence + Penalty(q, v, b)})})
             P == Pattern(p.name, p.type, NoLevel, x)
             Q == Pattern(q.name, q.type, NoLevel, y)
  <1>1. /\ p = [name |-> p.name, type |-> p.type, level |-> p.level, confidence |-> p.confidence]
        /\ q = [name |-> q.name, type |-> q.type, level |-> q.level, confidence |-> q.confidence]
    BY DEF Answers, PatternRecord
  <1>2. Pairs(p.name, p.type, q.name, q.type) /\ q.confidence = p.confidence
    BY DEF Answers
  <1>3. q.name = Turned(p.name) /\ q.type = Turned(p.type)
    BY <1>2, ChartWords
  <1>4. ~IsChannel(p.name) => x = y
    <2> SUFFICES ASSUME ~IsChannel(p.name) PROVE x = y
      OBVIOUS
    <2>1. Penalty(q, v, b) = Penalty(p, s, a)
      BY PenaltyAlike
    <2> QED BY <1>2, <2>1
  <1>5. Adjusted(p, s, a) = [p EXCEPT !.confidence = x, !.level = NoLevel]
    BY DEF Adjusted
  <1>6. Adjusted(q, v, b) = [q EXCEPT !.confidence = y, !.level = NoLevel]
    BY DEF Adjusted
  <1> HIDE DEF x, y
  <1>7. Adjusted(p, s, a) = P /\ Adjusted(q, v, b) = Q
    BY <1>1, <1>5, <1>6 DEF Pattern
  <1>8. (IsChannel(q.name) <=> IsChannel(p.name)) /\ p.name # "head & shoulders" /\ q.name # "head & shoulders"
    BY <1>2 DEF Pairs, IsChannel
  <1>9. Comparable(P) = Pattern(p.name, p.type, NoLevel, IF IsChannel(p.name) THEN 0 ELSE x)
    BY ComparableIs
  <1>10. Comparable(Q) = Pattern(q.name, q.type, NoLevel, IF IsChannel(q.name) THEN 0 ELSE y)
    BY ComparableIs
  <1>11. TurnedPattern(Comparable(P)) = Pattern(Turned(p.name), Turned(p.type), NoLevel, IF IsChannel(p.name) THEN 0 ELSE x)
    BY <1>9, ComparableIs
  <1>12. (IF IsChannel(q.name) THEN 0 ELSE y) = IF IsChannel(p.name) THEN 0 ELSE x
    BY <1>4, <1>8
  <1>13. Comparable(Q) = TurnedPattern(Comparable(P))
    BY <1>3, <1>10, <1>11, <1>12
  <1>14. P.name = p.name /\ Q.name = q.name
    BY DEF Pattern
  <1> HIDE DEF P, Q
  <1> QED BY <1>7, <1>8, <1>13, <1>14 DEF SameReading

LEMMA NameKept ==
  ASSUME NEW p \in PatternRecord, NEW s, NEW a
  PROVE  Adjusted(p, s, a).name = p.name
  BY DEF Adjusted, PatternRecord

\* The patterns of a chart, each with the confidence its surroundings leave it.
AllAdjusted(s, a) == {Adjusted(p, s, a) : p \in ToSet(DetectAll(s))}

\* Every pattern found is found turned in the chart turned upside down.
LEMMA PatternsMirrored ==
  ASSUME NEW s, NEW v, NEW A, Upended(s, v, A), Len(s) >= 1, ~Motionless(s), NEW a, NEW b, Overturned(a, b, A),
         NEW R, R = AllAdjusted(s, a), NEW M, M = AllAdjusted(v, b)
  PROVE  Paired(M) = {TurnedPattern(p) : p \in Paired(R)}
  <1>1. A \in Int /\ Upended(v, s, A) /\ ~Motionless(v)
    <2>1. Upended(v, s, A)
      BY UpendedBack
    <2>2. ~Motionless(v)
      BY StillMotionless
    <2> QED BY <2>1, <2>2 DEF Upended
  <1>2. Paired(M) = {Comparable(x) : x \in {x \in M : x.name # "head & shoulders"}}
    BY DEF Paired, Comparable
  <1>3. Paired(R) = {Comparable(x) : x \in {x \in R : x.name # "head & shoulders"}}
    BY DEF Paired, Comparable
  <1>4. ASSUME NEW x \in Paired(M) PROVE \E y \in Paired(R) : x = TurnedPattern(y)
    <2>1. PICK m \in M : m.name # "head & shoulders" /\ x = Comparable(m)
      BY <1>2
    <2>2. PICK q \in ToSet(DetectAll(v)) : m = Adjusted(q, v, b)
      BY DEF AllAdjusted
    <2>3. PICK p \in ToSet(DetectAll(s)) : Answers(p, q, A)
      <3>1. \/ q.name = "head & shoulders" /\ q \in PatternRecord
            \/ \E p \in ToSet(DetectAll(s)) : Answers(p, q, A)
        BY <1>1, EveryOneAnswered
      <3> QED BY <2>1, <2>2, <3>1, NameKept
    <2>4. Answers(q, p, A)
      BY <1>1, <2>3, AnswersBack
    <2> DEFINE n == Adjusted(p, s, a)
    <2>5. x = TurnedPattern(Comparable(n)) /\ n.name # "head & shoulders"
      <3>1. Comparable(Adjusted(q, v, b)) = TurnedPattern(Comparable(n)) /\ n.name = p.name /\ p.name # "head & shoulders"
        <4>1. A \in Int
          BY <1>1
        <4>2. SameReading(q, v, b, p, s, a)
          BY <2>4, <4>1, AdjustedAlike
        <4> QED BY <4>2 DEF SameReading
      <3> QED BY <2>1, <2>2, <3>1
    <2>6. n \in R
      BY DEF AllAdjusted
    <2> HIDE DEF n
    <2> QED BY <1>3, <2>5, <2>6
  <1>5. ASSUME NEW y \in Paired(R) PROVE TurnedPattern(y) \in Paired(M)
    <2>1. PICK n \in R : n.name # "head & shoulders" /\ y = Comparable(n)
      BY <1>3
    <2>2. PICK p \in ToSet(DetectAll(s)) : n = Adjusted(p, s, a)
      BY DEF AllAdjusted
    <2>3. PICK q \in ToSet(DetectAll(v)) : Answers(q, p, A)
      <3>1. \/ p.name = "head & shoulders" /\ p \in PatternRecord
            \/ \E q \in ToSet(DetectAll(v)) : Answers(q, p, A)
        BY EveryOneAnswered
      <3> QED BY <2>1, <2>2, <3>1, NameKept
    <2> DEFINE m == Adjusted(q, v, b)
    <2>4. Comparable(m) = TurnedPattern(y) /\ m.name # "head & shoulders"
      <3>1. Comparable(m) = TurnedPattern(Comparable(Adjusted(p, s, a))) /\ m.name = q.name /\ q.name # "head & shoulders"
        <4>1. A \in Int
          BY <1>1
        <4>2. SameReading(q, v, b, p, s, a)
          BY <2>3, <4>1, AdjustedAlike
        <4> QED BY <4>2 DEF SameReading
      <3> QED BY <2>1, <2>2, <3>1
    <2>5. m \in M
      BY DEF AllAdjusted
    <2> HIDE DEF m
    <2> QED BY <1>2, <2>4, <2>5
  <1> QED BY <1>4, <1>5

(* Levels: the means of the swings that lie together. *)

Tally(r) == r = [sum |-> r.sum, of |-> r.of] /\ r.sum \in Int /\ r.of \in Int

Added(r, x, C) == IF x \in C THEN [sum |-> r.sum + x, of |-> r.of + 1] ELSE r

\* The tallies of the first swings, one by one.
Tallies(f, w, C) ==
  /\ f[0] = [sum |-> 0, of |-> 0]
  /\ \A k \in 1 .. Len(w) : f[k] = Added(f[k - 1], w[k], C)

LEMMA AddedIs ==
  ASSUME NEW r, Tally(r), NEW x \in Int, NEW C
  PROVE  Tally(Added(r, x, C))
  <1>1. CASE x \in C
    <2> DEFINE s == r.sum + x
               o == r.of + 1
    <2>1. s \in Int /\ o \in Int
      BY DEF Tally
    <2>2. Added(r, x, C) = [sum |-> s, of |-> o]
      BY <1>1 DEF Added
    <2> HIDE DEF s, o
    <2> QED BY <2>1, <2>2 DEF Tally
  <1>2. CASE x \notin C
    BY <1>2 DEF Added
  <1> QED BY <1>1, <1>2

TalliedUpTo(f, n, w, C) ==
  /\ f[0] = [sum |-> 0, of |-> 0]
  /\ \A k \in 1 .. n : f[k] = Added(f[k - 1], w[k], C)
  /\ \A k \in 0 .. n : Tally(f[k])

LEMMA TalliesExist ==
  ASSUME NEW n \in Nat, NEW w, \A k \in 1 .. n : w[k] \in Int, NEW C
  PROVE  \E f : TalliedUpTo(f, n, w, C)
  <1> DEFINE Is(f, m) == /\ f[0] = [sum |-> 0, of |-> 0]
                         /\ \A k \in 1 .. m : f[k] = Added(f[k - 1], w[k], C)
                         /\ \A k \in 0 .. m : Tally(f[k])
             S == {m \in Nat : m <= n => \E f : Is(f, m)}
  <1>1. 0 \in S
    <2> DEFINE f == [k \in 0 .. 0 |-> [sum |-> 0, of |-> 0]]
    <2>1. f[0] = [sum |-> 0, of |-> 0] /\ Tally([sum |-> 0, of |-> 0])
      BY DEF Tally
    <2>2. Is(f, 0)
      <3> HIDE DEF f
      <3> QED BY <2>1
    <2> HIDE DEF Is
    <2> QED BY <2>2
  <1>2. ASSUME NEW m \in Nat, m \in S PROVE m + 1 \in S
    <2> SUFFICES ASSUME m + 1 <= n PROVE \E g : Is(g, m + 1)
      OBVIOUS
    <2>1. PICK f : Is(f, m)
      BY <1>2
    <2> DEFINE r == Added(f[m], w[m + 1], C)
               g == [k \in 0 .. m + 1 |-> IF k = m + 1 THEN r ELSE f[k]]
    <2>2. Tally(r)
      <3>1. Tally(f[m]) /\ w[m + 1] \in Int
        BY <2>1
      <3> QED BY <3>1, AddedIs
    <2> HIDE DEF r
    <2>3. g[0] = f[0] /\ g[m + 1] = r /\ \A k \in 0 .. m : g[k] = f[k]
      OBVIOUS
    <2> HIDE DEF g
    <2>4. \A k \in 1 .. m + 1 : g[k] = Added(g[k - 1], w[k], C)
      <3> TAKE k \in 1 .. m + 1
      <3>1. CASE k = m + 1
        <4>1. k - 1 = m /\ g[k - 1] = f[m]
          BY <2>3, <3>1
        <4> QED BY <2>3, <3>1, <4>1 DEF r
      <3>2. CASE k # m + 1
        <4>1. k \in 1 .. m /\ k - 1 \in 0 .. m
          BY <3>2
        <4> QED BY <2>1, <2>3, <4>1
      <3> QED BY <3>1, <3>2
    <2>5. \A k \in 0 .. m + 1 : Tally(g[k])
      BY <2>1, <2>2, <2>3
    <2>6. Is(g, m + 1)
      BY <2>1, <2>3, <2>4, <2>5
    <2> HIDE DEF Is
    <2> QED BY <2>6
  <1> HIDE DEF Is, S
  <1>3. n \in S
    BY <1>1, <1>2, EveryNumber
  <1>4. \E f : Is(f, n)
    BY <1>3 DEF S
  <1> QED BY <1>4 DEF Is, TalliedUpTo

\* Whatever tallies there are, the centre is the last of them.
LEMMA CentreBy ==
  ASSUME NEW w \in Seq(Nat), NEW C, NEW f, Tallies(f, w, C)
  PROVE  Centre(w, C) = f[Len(w)]
  <1> DEFINE n == Len(w)
             Is(g) == g = [k \in 0 .. Len(w) |->
                             IF k = 0 THEN [sum |-> 0, of |-> 0]
                             ELSE IF w[k] \in C
                               THEN [sum |-> g[k - 1].sum + w[k], of |-> g[k - 1].of + 1]
                               ELSE g[k - 1]]
             h == [k \in 0 .. n |-> f[k]]
             g == CHOOSE g : Is(g)
  <1>1. n \in Nat
    OBVIOUS
  <1>2. Is(h)
    <2>1. \A k \in 0 .. n : h[k] = IF k = 0 THEN [sum |-> 0, of |-> 0]
                                   ELSE IF w[k] \in C
                                     THEN [sum |-> h[k - 1].sum + w[k], of |-> h[k - 1].of + 1]
                                     ELSE h[k - 1]
      <3> TAKE k \in 0 .. n
      <3>1. CASE k = 0
        BY <3>1 DEF Tallies
      <3>2. CASE k # 0
        <4>1. k \in 1 .. n /\ k - 1 \in 0 .. n
          BY <1>1, <3>2
        <4>2. h[k] = f[k] /\ h[k - 1] = f[k - 1]
          BY <4>1
        <4>3. f[k] = Added(f[k - 1], w[k], C)
          BY <4>1 DEF Tallies
        <4> HIDE DEF h
        <4> QED BY <3>2, <4>2, <4>3 DEF Added
      <3> QED BY <3>1, <3>2
    <2>2. h = [k \in 0 .. n |-> h[k]]
      OBVIOUS
    <2> HIDE DEF h
    <2> QED BY <2>1, <2>2
  <1>3. Is(g)
    <2> HIDE DEF Is, h
    <2> QED BY <1>2
  <1>4. Centre(w, C) = g[n]
    BY DEF Centre
  <1> HIDE DEF g
  <1>5. /\ g[0] = [sum |-> 0, of |-> 0]
        /\ \A k \in 1 .. n : g[k] = Added(g[k - 1], w[k], C)
    <2>1. \A k \in 0 .. n : g[k] = IF k = 0 THEN [sum |-> 0, of |-> 0]
                                   ELSE IF w[k] \in C
                                     THEN [sum |-> g[k - 1].sum + w[k], of |-> g[k - 1].of + 1]
                                     ELSE g[k - 1]
      BY <1>3
    <2>2. 0 \in 0 .. n /\ \A k \in 1 .. n : k \in 0 .. n /\ k # 0
      BY <1>1
    <2> QED BY <2>1, <2>2 DEF Added
  <1> DEFINE S == {k \in Nat : k <= n => g[k] = f[k]}
  <1>6. 0 \in S
    BY <1>5 DEF Tallies
  <1>7. ASSUME NEW k \in Nat, k \in S PROVE k + 1 \in S
    <2> SUFFICES ASSUME k + 1 <= n PROVE g[k + 1] = f[k + 1]
      OBVIOUS
    <2>1. k + 1 \in 1 .. n /\ (k + 1) - 1 = k /\ g[k] = f[k]
      BY <1>1, <1>7
    <2> QED BY <1>5, <2>1 DEF Tallies
  <1> HIDE DEF S
  <1>8. n \in S
    BY <1>1, <1>6, <1>7, EveryNumber
  <1> QED BY <1>1, <1>4, <1>8 DEF S

LEMMA CentreIs ==
  ASSUME NEW w \in Seq(Nat), NEW C
  PROVE  /\ Tally(Centre(w, C))
         /\ \E f : Tallies(f, w, C) /\ f[Len(w)] = Centre(w, C) /\ \A k \in 0 .. Len(w) : Tally(f[k])
  <1> DEFINE n == Len(w)
  <1>1. n \in Nat /\ \A k \in 1 .. n : w[k] \in Int
    OBVIOUS
  <1> HIDE DEF n
  <1>2. PICK f : TalliedUpTo(f, n, w, C)
    BY <1>1, TalliesExist
  <1>3. /\ f[0] = [sum |-> 0, of |-> 0]
        /\ \A k \in 1 .. n : f[k] = Added(f[k - 1], w[k], C)
        /\ \A k \in 0 .. n : Tally(f[k])
    BY <1>2 DEF TalliedUpTo
  <1>4. Tallies(f, w, C)
    BY <1>3 DEF Tallies, n
  <1>5. Centre(w, C) = f[Len(w)]
    BY <1>4, CentreBy
  <1>6. Tally(f[n])
    BY <1>1, <1>3
  <1> QED BY <1>3, <1>4, <1>5, <1>6 DEF n

LEMMA TallyIs ==
  ASSUME NEW a \in Int, NEW b \in Int
  PROVE  Tally([sum |-> a, of |-> b])
  BY DEF Tally

SumOf(p, q) == [sum |-> p.sum + q.sum, of |-> p.of + q.of]

\* Two sequences one after the other.
LEMMA CentreJoined ==
  ASSUME NEW a \in Seq(Nat), NEW b \in Seq(Nat), NEW C
  PROVE  a \o b \in Seq(Nat) /\ Centre(a \o b, C) = SumOf(Centre(a, C), Centre(b, C))
  <1> DEFINE m == Len(a)
             n == Len(b)
             c == a \o b
             p == Centre(a, C)
  <1>1. /\ c \in Seq(Nat) /\ Len(c) = m + n /\ m \in Nat /\ n \in Nat
        /\ \A i \in 1 .. m + n : c[i] = IF i <= m THEN a[i] ELSE b[i - m]
        /\ \A i \in 1 .. n : b[i] \in Int
    BY ConcatProperties
  <1>2. PICK f : Tallies(f, a, C) /\ f[m] = p /\ \A k \in 0 .. m : Tally(f[k])
    BY CentreIs
  <1>3. PICK g : Tallies(g, b, C) /\ g[n] = Centre(b, C) /\ \A k \in 0 .. n : Tally(g[k])
    BY CentreIs
  <1>4. Tally(p)
    BY CentreIs
  <1> DEFINE h == [k \in 0 .. m + n |-> IF k <= m THEN f[k] ELSE SumOf(p, g[k - m])]
  <1> HIDE DEF c, p
  <1>5. \A k \in 0 .. m : h[k] = f[k]
    BY <1>1
  <1>6. \A k \in 0 .. n : h[m + k] = SumOf(p, g[k])
    <2> TAKE k \in 0 .. n
    <2>1. CASE k = 0
      <3>1. g[0] = [sum |-> 0, of |-> 0] /\ m + k = m /\ h[m] = p /\ m + k \in 0 .. m + n
        BY <1>1, <1>2, <1>3, <2>1 DEF Tallies
      <3>2. SumOf(p, g[0]) = p
        BY <1>4, <3>1 DEF SumOf, Tally
      <3> HIDE DEF h
      <3> QED BY <2>1, <3>1, <3>2
    <2>2. CASE k # 0
      <3>1. m + k \in 0 .. m + n /\ ~(m + k <= m) /\ (m + k) - m = k
        BY <1>1, <2>2
      <3> QED BY <3>1
    <2> QED BY <2>1, <2>2
  <1> HIDE DEF h
  <1>7. Tallies(h, c, C)
    <2>1. h[0] = [sum |-> 0, of |-> 0]
      BY <1>1, <1>2, <1>5 DEF Tallies
    <2>2. ASSUME NEW k \in 1 .. m + n PROVE h[k] = Added(h[k - 1], c[k], C)
      <3>1. CASE k <= m
        <4>1. k \in 1 .. m /\ k \in 0 .. m /\ k - 1 \in 0 .. m /\ c[k] = a[k]
          BY <1>1, <3>1
        <4> QED BY <1>2, <1>5, <4>1 DEF Tallies
      <3>2. CASE k > m
        <4> DEFINE j == k - m
                   x == b[j]
                   r == g[j - 1]
        <4>1. /\ j \in 1 .. n /\ j \in 0 .. n /\ j - 1 \in 0 .. n /\ c[k] = x
              /\ k = m + j /\ k - 1 = m + (j - 1)
          BY <1>1, <3>2
        <4>2. h[k] = SumOf(p, g[j]) /\ h[k - 1] = SumOf(p, r) /\ g[j] = Added(r, x, C) /\ Tally(r) /\ x \in Int
          <5> HIDE DEF j
          <5> QED BY <1>1, <1>3, <1>6, <4>1 DEF Tallies
        <4> HIDE DEF j, x, r
        <4>3. SumOf(p, Added(r, x, C)) = Added(SumOf(p, r), x, C)
          <5>1. CASE x \in C
            <6>1. Added(r, x, C) = [sum |-> r.sum + x, of |-> r.of + 1]
              BY <5>1 DEF Added
            <6>2. SumOf(p, Added(r, x, C)) = [sum |-> p.sum + (r.sum + x), of |-> p.of + (r.of + 1)]
              BY <6>1 DEF SumOf
            <6>3. Added(SumOf(p, r), x, C) = [sum |-> (p.sum + r.sum) + x, of |-> (p.of + r.of) + 1]
              BY <5>1 DEF Added, SumOf
            <6>4. p.sum + (r.sum + x) = (p.sum + r.sum) + x /\ p.of + (r.of + 1) = (p.of + r.of) + 1
              BY <1>4, <4>2 DEF Tally
            <6> QED BY <6>2, <6>3, <6>4
          <5>2. CASE x \notin C
            BY <5>2 DEF Added
          <5> QED BY <5>1, <5>2
        <4> QED BY <4>1, <4>2, <4>3
      <3> QED BY <1>1, <3>1, <3>2
    <2> QED BY <1>1, <2>1, <2>2 DEF Tallies
  <1>8. h[m + n] = SumOf(p, Centre(b, C))
    <2>1. n \in 0 .. n
      BY <1>1
    <2> QED BY <1>3, <1>6, <2>1
  <1>9. Centre(c, C) = h[m + n]
    BY <1>1, <1>7, CentreBy
  <1> QED BY <1>1, <1>8, <1>9 DEF c, p

TurnedLevel(l, A) == [l EXCEPT !.sum = A * l.of - @]

LEMMA Distributed ==
  ASSUME NEW A \in Int, NEW m \in Int, NEW n \in Int
  PROVE  A * (m + n) = A * m + A * n /\ A * m \in Int /\ A * (m + 1) = A * m + A /\ (A - m) * n = A * n - m * n /\ m * n \in Int
         /\ A * n \in Int
  OBVIOUS

LEMMA TurnedLevelIs ==
  ASSUME NEW r, Tally(r), NEW A \in Int
  PROVE  TurnedLevel(r, A) = [sum |-> A * r.of - r.sum, of |-> r.of] /\ Tally(TurnedLevel(r, A))
  <1> DEFINE s == A * r.of - r.sum
  <1>1. TurnedLevel(r, A) = [r EXCEPT !.sum = s]
    BY DEF TurnedLevel
  <1>2. s \in Int
    <2>1. r.of \in Int /\ r.sum \in Int
      BY DEF Tally
    <2>2. A * r.of \in Int
      BY <2>1, Distributed
    <2> QED BY <2>1, <2>2
  <1> HIDE DEF s
  <1>3. TurnedLevel(r, A) = [sum |-> s, of |-> r.of]
    BY <1>1 DEF Tally
  <1>4. Tally([sum |-> s, of |-> r.of])
    BY <1>2, TallyIs DEF Tally
  <1> QED BY <1>3, <1>4 DEF s

\* The mean of the prices turned is the mean turned.
LEMMA CentreTurned ==
  ASSUME NEW a, NEW b, NEW A, Upended(a, b, A), NEW C \in SUBSET Int, NEW D, D = {A - x : x \in C}
  PROVE  Centre(b, D) = TurnedLevel(Centre(a, C), A)
  <1> DEFINE n == Len(a)
  <1>1. /\ n \in Nat /\ Len(b) = n /\ A \in Int /\ a \in Seq(Nat) /\ b \in Seq(Nat)
        /\ \A k \in 1 .. n : a[k] \in Int /\ b[k] = A - a[k]
    BY DEF Upended
  <1>2. PICK f : Tallies(f, a, C) /\ f[n] = Centre(a, C) /\ \A k \in 0 .. n : Tally(f[k])
    BY <1>1, CentreIs
  <1> HIDE DEF n
  <1> DEFINE h == [k \in 0 .. n |-> TurnedLevel(f[k], A)]
  <1>3. \A k \in 0 .. n : h[k] = TurnedLevel(f[k], A)
    OBVIOUS
  <1> HIDE DEF h
  <1>4. Tallies(h, b, D)
    <2>1. h[0] = [sum |-> 0, of |-> 0]
      <3>1. f[0] = [sum |-> 0, of |-> 0] /\ h[0] = TurnedLevel(f[0], A) /\ Tally(f[0])
        BY <1>1, <1>2, <1>3 DEF Tallies
      <3>2. TurnedLevel(f[0], A) = [sum |-> A * f[0].of - f[0].sum, of |-> f[0].of]
        BY <1>1, <3>1, TurnedLevelIs
      <3>3. f[0].of = 0 /\ f[0].sum = 0 /\ A * 0 - 0 = 0
        BY <1>1, <3>1
      <3> QED BY <3>1, <3>2, <3>3
    <2>2. ASSUME NEW k \in 1 .. n PROVE h[k] = Added(h[k - 1], b[k], D)
      <3> DEFINE x == a[k]
                 r == f[k - 1]
      <3>1. /\ k \in 0 .. n /\ k - 1 \in 0 .. n /\ x \in Int /\ b[k] = A - x
            /\ f[k] = Added(r, x, C) /\ Tally(r)
            /\ h[k - 1] = TurnedLevel(r, A) /\ h[k] = TurnedLevel(f[k], A)
        BY <1>1, <1>2, <1>3 DEF Tallies, n
      <3> HIDE DEF x, r
      <3>2. A - x \in D <=> x \in C
        <4>1. x \in C => A - x \in D
          OBVIOUS
        <4>2. ASSUME A - x \in D PROVE x \in C
          <5>1. PICK y \in C : A - x = A - y
            BY <4>2
          <5>2. y \in Int
            OBVIOUS
          <5>3. x = y
            BY <1>1, <3>1, <5>1, <5>2
          <5> QED BY <5>3
        <4> QED BY <4>1, <4>2
      <3>3. TurnedLevel(Added(r, x, C), A) = Added(TurnedLevel(r, A), A - x, D)
        <4> DEFINE o == r.of
                   s == r.sum
        <4>0. o \in Int /\ s \in Int /\ TurnedLevel(r, A) = [sum |-> A * o - s, of |-> o]
          BY <1>1, <3>1, TurnedLevelIs DEF Tally
        <4>1. CASE x \in C
          <5>1. Added(r, x, C) = [sum |-> s + x, of |-> o + 1]
            BY <4>1 DEF Added
          <5>2. Tally(Added(r, x, C))
            BY <3>1, AddedIs
          <5>3. TurnedLevel(Added(r, x, C), A) = [sum |-> A * Added(r, x, C).of - Added(r, x, C).sum, of |-> Added(r, x, C).of]
            BY <1>1, <5>2, TurnedLevelIs
          <5>4. TurnedLevel(Added(r, x, C), A) = [sum |-> A * (o + 1) - (s + x), of |-> o + 1]
            BY <5>1, <5>3
          <5>5. Added(TurnedLevel(r, A), A - x, D) = [sum |-> TurnedLevel(r, A).sum + (A - x), of |-> TurnedLevel(r, A).of + 1]
            BY <3>2, <4>1 DEF Added
          <5>6. TurnedLevel(r, A).sum = A * o - s /\ TurnedLevel(r, A).of = o
            BY <4>0
          <5>7. A * (o + 1) - (s + x) = (A * o - s) + (A - x)
            <6>1. A * (o + 1) = A * o + A /\ A * o \in Int
              BY <1>1, <4>0, Distributed
            <6> DEFINE z == A * o
            <6> HIDE DEF o, s
            <6>2. z \in Int /\ A * (o + 1) = z + A
              BY <6>1
            <6> HIDE DEF z
            <6>3. (z + A) - (s + x) = (z - s) + (A - x)
              BY <1>1, <3>1, <4>0, <6>2
            <6> QED BY <6>2, <6>3 DEF z
          <5> QED BY <5>4, <5>5, <5>6, <5>7
        <4>2. CASE x \notin C
          BY <3>2, <4>2 DEF Added
        <4> QED BY <4>1, <4>2
      <3> QED BY <3>1, <3>3
    <2> QED BY <1>1, <2>1, <2>2 DEF Tallies
  <1>5. Centre(b, D) = h[n]
    BY <1>1, <1>4, CentreBy
  <1> QED BY <1>1, <1>2, <1>3, <1>5

LEMMA ToSetIs ==
  ASSUME NEW w \in Seq(Nat)
  PROVE  ToSet(w) \in SUBSET Int /\ IsFiniteSet(ToSet(w))
  <1> DEFINE T == ToSet(w)
             f == [k \in 1 .. Len(w) |-> w[k]]
  <1>1. Len(w) \in Nat /\ DOMAIN w = 1 .. Len(w) /\ \A k \in 1 .. Len(w) : w[k] \in Nat
    OBVIOUS
  <1>2. T = {w[k] : k \in 1 .. Len(w)}
    BY <1>1 DEF ToSet
  <1> HIDE DEF T
  <1>3. f \in Surjection(1 .. Len(w), T)
    BY <1>2 DEF Surjection
  <1>4. IsFiniteSet(1 .. Len(w))
    BY <1>1, FS_Interval
  <1> HIDE DEF f
  <1>5. IsFiniteSet(T)
    BY <1>3, <1>4, FS_Surjection
  <1>6. T \in SUBSET Int
    BY <1>1, <1>2
  <1> QED BY <1>5, <1>6 DEF T

LEMMA ToSetTurned ==
  ASSUME NEW s, NEW t, NEW A, Upended(s, t, A)
  PROVE  ToSet(t) = {A - x : x \in ToSet(s)}
  <1>1. ToSet(s) = {s[k] : k \in 1 .. Len(s)} /\ ToSet(t) = {t[k] : k \in 1 .. Len(s)}
    BY DEF ToSet, Upended
  <1>2. \A k \in 1 .. Len(s) : t[k] = A - s[k]
    BY DEF Upended
  <1> QED BY <1>1, <1>2

\* The cluster that begins at p.
Run(T, p) == {q \in T : q >= p /\ p .. q \subseteq T}

\* Prices that lie together end somewhere, and are all that is up to there.
LEMMA RunIs ==
  ASSUME NEW T \in SUBSET Int, IsFiniteSet(T), NEW p \in T
  PROVE  \E m \in T : /\ m + 1 \notin T /\ m \in Int /\ p \in Int /\ p <= m
                      /\ p .. m \subseteq T /\ Run(T, p) = p .. m
  <1> DEFINE C == Run(T, p)
  <1>1. C \in SUBSET T /\ C \in SUBSET Int /\ p \in C
    <2>1. p \in Int /\ p .. p = {p}
      OBVIOUS
    <2>2. p \in C
      BY <2>1 DEF Run
    <2>3. C \in SUBSET T
      BY DEF Run
    <2> QED BY <2>2, <2>3
  <1>2. IsFiniteSet(C)
    BY <1>1, FS_Subset
  <1> DEFINE m == Max(C)
  <1> HIDE DEF C
  <1>3. m \in C /\ m \in Int /\ \A x \in C : x <= m
    BY <1>1, <1>2, MaxIs
  <1> HIDE DEF m
  <1>4. m \in T /\ p <= m /\ p .. m \subseteq T /\ p \in Int
    BY <1>3 DEF C, Run
  <1>5. m + 1 \notin T
    <2>1. ASSUME m + 1 \in T PROVE FALSE
      <3>1. p .. (m + 1) \subseteq T
        BY <1>3, <1>4, <2>1
      <3>2. m + 1 \in C
        BY <1>3, <1>4, <2>1, <3>1 DEF C, Run
      <3> QED BY <1>3, <3>2
    <2> QED BY <2>1
  <1>6. C = p .. m
    <2>1. C \subseteq p .. m
      BY <1>1, <1>3, <1>4 DEF C, Run
    <2>2. ASSUME NEW x \in p .. m PROVE x \in C
      <3>1. x \in T /\ x >= p /\ p .. x \subseteq T
        BY <1>3, <1>4
      <3> QED BY <3>1 DEF C, Run
    <2> QED BY <2>1, <2>2
  <1> QED BY <1>3, <1>4, <1>5, <1>6 DEF C

TurnedSet(U, T, A) == U = {A - x : x \in T}

\* A cluster seen from below begins where it ended.
LEMMA ClusterTurned ==
  ASSUME NEW w \in Seq(Nat), NEW v, NEW A \in Int, TurnedSet(ToSet(v), ToSet(w), A),
         NEW C \in Clusters(w), NEW D, TurnedSet(D, C, A)
  PROVE  D \in Clusters(v) /\ C \in SUBSET Int
  <1> DEFINE T == ToSet(w)
             U == ToSet(v)
  <1>0. D = {A - x : x \in C}
    BY DEF TurnedSet
  <1>1. T \in SUBSET Int /\ IsFiniteSet(T)
    BY ToSetIs
  <1>2. PICK p \in T : p - 1 \notin T /\ C = Run(T, p)
    BY DEF Clusters, Run
  <1>3. U = {A - x : x \in T}
    BY DEF TurnedSet
  <1>4. \A V : ToSet(v) = V => \A q \in V : q - 1 \notin V => Run(V, q) \in Clusters(v)
    BY DEF Clusters, Run
  <1> HIDE DEF T, U
  <1>5. PICK m \in T : /\ m + 1 \notin T /\ m \in Int /\ p \in Int /\ p <= m
                       /\ p .. m \subseteq T /\ C = p .. m
    BY <1>1, <1>2, RunIs
  <1>6. A - m \in U /\ (A - m) - 1 \notin U
    <2>1. ASSUME (A - m) - 1 \in U PROVE FALSE
      <3>1. PICK x \in T : (A - m) - 1 = A - x
        BY <1>3, <2>1
      <3>2. x \in Int /\ x = m + 1
        BY <1>1, <1>5, <3>1
      <3> QED BY <1>5, <3>2
    <2> QED BY <1>3, <2>1
  <1>7. D = (A - m) .. (A - p)
    <2>1. \A y \in (A - m) .. (A - p) : A - y \in p .. m /\ y = A - (A - y)
      BY <1>5
    <2>2. \A x \in p .. m : A - x \in (A - m) .. (A - p)
      BY <1>5
    <2> QED BY <1>0, <1>5, <2>1, <2>2
  <1>8. Run(U, A - m) = (A - m) .. (A - p)
    <2>1. U \in SUBSET Int
      BY <1>1, <1>3
    <2>2. (A - m) .. (A - p) \subseteq U
      <3>1. \A y \in (A - m) .. (A - p) : A - y \in T /\ y = A - (A - y)
        BY <1>5
      <3> QED BY <1>3, <3>1
    <2>3. ASSUME NEW y \in (A - m) .. (A - p) PROVE y \in Run(U, A - m)
      <3>1. (A - m) .. y \subseteq (A - m) .. (A - p) /\ y >= A - m
        BY <1>5
      <3> QED BY <2>2, <3>1 DEF Run
    <2>4. ASSUME NEW y \in Run(U, A - m) PROVE y \in (A - m) .. (A - p)
      <3>1. y \in U /\ y \in Int /\ y >= A - m /\ (A - m) .. y \subseteq U
        BY <2>1 DEF Run
      <3>2. ASSUME y > A - p PROVE FALSE
        <4>1. (A - p) + 1 \in (A - m) .. y
          BY <1>5, <3>1, <3>2
        <4>2. PICK x \in T : (A - p) + 1 = A - x
          BY <1>3, <3>1, <4>1
        <4>3. x \in Int /\ x = p - 1
          BY <1>1, <1>5, <4>2
        <4> QED BY <1>2, <4>3
      <3> QED BY <1>5, <3>1, <3>2
    <2> QED BY <2>3, <2>4
  <1>9. Run(U, A - m) \in Clusters(v)
    BY <1>4, <1>6 DEF U
  <1>10. C \in SUBSET Int
    BY <1>5
  <1> QED BY <1>7, <1>8, <1>9, <1>10

LEMMA SwingsTurned ==
  ASSUME NEW s, NEW t, NEW A, Upended(s, t, A)
  PROVE  /\ A \in Int /\ Swings(s) \in Seq(Nat) /\ Swings(t) \in Seq(Nat)
         /\ ToSet(Swings(t)) = {A - x : x \in ToSet(Swings(s))}
         /\ \A C \in SUBSET Int : Centre(Swings(t), {A - x : x \in C}) = TurnedLevel(Centre(Swings(s), C), A)
         /\ \A C : Tally(Centre(Swings(s), C))
  <1> DEFINE H == SwingPrices(s, SwingHighs(s))
             L == SwingPrices(s, SwingLows(s))
             K == SwingPrices(t, SwingHighs(t))
             M == SwingPrices(t, SwingLows(t))
  <1>1. Upended(H, M, A) /\ Upended(L, K, A)
    BY SwingsUpended
  <1>2. Swings(s) = H \o L /\ Swings(t) = K \o M
    BY DEF Swings
  <1> HIDE DEF H, L, K, M
  <1>3. A \in Int /\ H \in Seq(Nat) /\ L \in Seq(Nat) /\ K \in Seq(Nat) /\ M \in Seq(Nat)
    BY <1>1 DEF Upended
  <1>4. Swings(s) \in Seq(Nat) /\ Swings(t) \in Seq(Nat)
    BY <1>2, <1>3, CentreJoined
  <1>5. ToSet(Swings(t)) = {A - x : x \in ToSet(Swings(s))}
    <2>1. ToSet(Swings(s)) = ToSet(H) \cup ToSet(L)
      BY <1>2, <1>3, ToSetJoined
    <2>2. ToSet(Swings(t)) = ToSet(K) \cup ToSet(M)
      BY <1>2, <1>3, ToSetJoined
    <2>3. ToSet(M) = {A - x : x \in ToSet(H)} /\ ToSet(K) = {A - x : x \in ToSet(L)}
      BY <1>1, ToSetTurned
    <2> QED BY <2>1, <2>2, <2>3
  <1>6. ASSUME NEW C \in SUBSET Int
        PROVE  Centre(Swings(t), {A - x : x \in C}) = TurnedLevel(Centre(Swings(s), C), A)
    <2> DEFINE D == {A - x : x \in C}
               h == Centre(H, C)
               l == Centre(L, C)
               k == Centre(K, D)
               m == Centre(M, D)
    <2>1. D = {A - x : x \in C}
      OBVIOUS
    <2> HIDE DEF D
    <2>2. Centre(Swings(s), C) = SumOf(h, l) /\ Centre(Swings(t), D) = SumOf(k, m)
      BY <1>2, <1>3, CentreJoined
    <2>3. m = TurnedLevel(h, A) /\ k = TurnedLevel(l, A)
      BY <1>1, <2>1, CentreTurned
    <2>4. Tally(h) /\ Tally(l)
      BY <1>3, CentreIs
    <2> HIDE DEF h, l, k, m
    <2>5. m = [sum |-> A * h.of - h.sum, of |-> h.of] /\ k = [sum |-> A * l.of - l.sum, of |-> l.of]
      BY <1>3, <2>3, <2>4, TurnedLevelIs
    <2> DEFINE a == h.of
               b == l.of
               c == h.sum
               d == l.sum
    <2>6. a \in Int /\ b \in Int /\ c \in Int /\ d \in Int
      BY <2>4 DEF Tally
    <2>7. SumOf(k, m) = [sum |-> (A * b - d) + (A * a - c), of |-> b + a]
      BY <2>5 DEF SumOf
    <2>8. SumOf(h, l) = [sum |-> c + d, of |-> a + b]
      BY DEF SumOf
    <2> HIDE DEF a, b, c, d
    <2>9. TurnedLevel(SumOf(h, l), A) = [sum |-> A * (a + b) - (c + d), of |-> a + b]
      <3> DEFINE r == SumOf(h, l)
      <3>1. r.sum = c + d /\ r.of = a + b /\ Tally(r)
        <4>1. c + d \in Int /\ a + b \in Int
          BY <2>6
        <4> HIDE DEF r
        <4>2. r = [sum |-> c + d, of |-> a + b]
          BY <2>8 DEF r
        <4> QED BY <4>1, <4>2, TallyIs
      <3> HIDE DEF r
      <3>2. TurnedLevel(r, A) = [sum |-> A * r.of - r.sum, of |-> r.of]
        BY <1>3, <3>1, TurnedLevelIs
      <3> QED BY <3>1, <3>2 DEF r
    <2>10. (A * b - d) + (A * a - c) = A * (a + b) - (c + d) /\ b + a = a + b
      <3>1. A * (a + b) = A * a + A * b /\ A * a \in Int /\ A * b \in Int
        BY <1>3, <2>6, Distributed
      <3> DEFINE x == A * a
                 y == A * b
                 z == A * (a + b)
      <3>2. x \in Int /\ y \in Int /\ z = x + y
        BY <3>1
      <3> HIDE DEF x, y, z
      <3>3. (y - d) + (x - c) = z - (c + d) /\ b + a = a + b
        BY <2>6, <3>2
      <3> QED BY <3>3 DEF x, y, z
    <2> QED BY <2>1, <2>2, <2>7, <2>9, <2>10
  <1>7. \A C : Tally(Centre(Swings(s), C))
    BY <1>4, CentreIs
  <1> QED BY <1>3, <1>4, <1>5, <1>6, <1>7

\* The levels are those of the other chart turned, and what is below the price is above it there.
LEMMA LevelsMirrored ==
  ASSUME NEW s, NEW t, NEW A, Upended(s, t, A), Len(s) >= 1
  PROVE  /\ Support(t) = {TurnedLevel(l, A) : l \in Resistance(s)}
         /\ Resistance(t) = {TurnedLevel(l, A) : l \in Support(s)}
  <1> DEFINE w == Swings(s)
             v == Swings(t)
  <1>1. /\ A \in Int /\ w \in Seq(Nat) /\ v \in Seq(Nat) /\ ToSet(v) = {A - x : x \in ToSet(w)}
        /\ \A C \in SUBSET Int : Centre(v, {A - x : x \in C}) = TurnedLevel(Centre(w, C), A)
        /\ \A C : Tally(Centre(w, C))
    BY SwingsTurned
  <1>2. Levels(s) = {Centre(w, C) : C \in Clusters(w)} /\ Levels(t) = {Centre(v, C) : C \in Clusters(v)}
    BY DEF Levels
  <1> HIDE DEF w, v
  <1>3. \A l \in Levels(s) : Tally(l)
    BY <1>1, <1>2
  <1>4. Levels(t) = {TurnedLevel(l, A) : l \in Levels(s)}
    <2>1. ASSUME NEW C \in Clusters(w) PROVE TurnedLevel(Centre(w, C), A) \in Levels(t)
      <3>1. {A - x : x \in C} \in Clusters(v) /\ C \in SUBSET Int
        <4> DEFINE D == {A - x : x \in C}
        <4>1. TurnedSet(D, C, A) /\ TurnedSet(ToSet(v), ToSet(w), A)
          BY <1>1 DEF TurnedSet
        <4> HIDE DEF D
        <4>2. D \in Clusters(v) /\ C \in SUBSET Int
          BY <1>1, <4>1, ClusterTurned
        <4> QED BY <4>2 DEF D
      <3> QED BY <1>1, <1>2, <3>1
    <2>2. ASSUME NEW D \in Clusters(v) PROVE \E l \in Levels(s) : Centre(v, D) = TurnedLevel(l, A)
      <3> DEFINE C == {A - x : x \in D}
      <3>1. ToSet(w) \in SUBSET Int
        BY <1>1, ToSetIs
      <3>2. ToSet(w) = {A - x : x \in ToSet(v)}
        <4>1. \A x \in ToSet(w) : A - x \in ToSet(v) /\ A - (A - x) = x
          BY <1>1, <3>1
        <4>2. \A y \in ToSet(v) : A - y \in ToSet(w)
          BY <1>1, <3>1
        <4> QED BY <4>1, <4>2
      <3>3. C \in Clusters(w) /\ D \in SUBSET Int
        <4>1. TurnedSet(C, D, A) /\ TurnedSet(ToSet(w), ToSet(v), A)
          BY <3>2 DEF TurnedSet
        <4> HIDE DEF C
        <4> QED BY <1>1, <4>1, ClusterTurned
      <3>4. C \in SUBSET Int /\ D = {A - x : x \in C}
        <4>1. \A x \in D : A - x \in C /\ A - x \in Int /\ A - (A - x) = x
          BY <1>1, <3>3
        <4>2. \A y \in C : A - y \in D /\ y \in Int
          BY <1>1, <3>3
        <4> HIDE DEF C
        <4> QED BY <4>1, <4>2
      <3> HIDE DEF C
      <3>5. Centre(v, D) = TurnedLevel(Centre(w, C), A)
        BY <1>1, <3>4
      <3> QED BY <1>2, <3>3, <3>5
    <2> QED BY <1>2, <2>1, <2>2
  <1> DEFINE x == Last(s)
             y == Last(t)
  <1>5. x \in Nat /\ y = A - x
    BY LastUpended
  <1> HIDE DEF x, y
  <1>6. ASSUME NEW l \in Levels(s)
        PROVE  /\ TurnedLevel(l, A).sum < y * TurnedLevel(l, A).of <=> l.sum > x * l.of
               /\ TurnedLevel(l, A).sum > y * TurnedLevel(l, A).of <=> l.sum < x * l.of
    <2> DEFINE a == l.sum
               n == l.of
    <2>1. a \in Int /\ n \in Int
      BY <1>3 DEF Tally
    <2>2. TurnedLevel(l, A).sum = A * n - a /\ TurnedLevel(l, A).of = n
      BY <1>1, <1>3, TurnedLevelIs
    <2> HIDE DEF a, n
    <2>3. (A - x) * n = A * n - x * n /\ A * n \in Int /\ x * n \in Int
      BY <1>1, <1>5, <2>1, Distributed
    <2> DEFINE i == A * n
               j == x * n
               k == (A - x) * n
    <2>4. i \in Int /\ j \in Int /\ k = i - j
      BY <2>3
    <2> HIDE DEF i, j, k
    <2>5. (i - a < k <=> a > j) /\ (i - a > k <=> a < j)
      BY <2>1, <2>4
    <2> QED BY <1>5, <2>2, <2>5 DEF i, j, k, a, n
  <1>7. /\ Support(s) = {l \in Levels(s) : l.sum < x * l.of} /\ Resistance(s) = {l \in Levels(s) : l.sum > x * l.of}
        /\ Support(t) = {l \in Levels(t) : l.sum < y * l.of} /\ Resistance(t) = {l \in Levels(t) : l.sum > y * l.of}
    BY DEF Support, Resistance, x, y
  <1>8. Support(t) = {TurnedLevel(l, A) : l \in Resistance(s)}
    BY <1>4, <1>6, <1>7
  <1>9. Resistance(t) = {TurnedLevel(l, A) : l \in Support(s)}
    BY <1>4, <1>6, <1>7
  <1> QED BY <1>8, <1>9

(* The timeframes turned upside down. *)

Frames == {"M15", "H1", "H4", "D1"}
KnownQuote == [rsi : Int, up : BOOLEAN, ema : {"up", "down", "mixed"}, adx : Int]
Quoted(c) == DOMAIN c = Frames /\ \A f \in Frames : c[f] = Unknown \/ c[f] \in KnownQuote

TurnedQuote(q) == [q EXCEPT !.rsi = 100 - @, !.up = ~@, !.ema = Turned(@)]

LEMMA QuoteTurned ==
  ASSUME NEW q \in KnownQuote, NEW r, r = TurnedQuote(q)
  PROVE  /\ q # Unknown /\ r # Unknown /\ r.adx = q.adx
         /\ FrameVote(q) \in Int /\ FrameVote(r) = 0 - FrameVote(q)
         /\ OverallBias(r) = Turned(OverallBias(q))
  <1> DEFINE i == q.rsi
             up == q.up
             e == q.ema
             d == Turned(e)
             j == 100 - i
             other == ~up
  <1>1. i \in Int /\ up \in BOOLEAN /\ e \in {"up", "down", "mixed"} /\ q = [rsi |-> i, up |-> up, ema |-> e, adx |-> q.adx]
    BY DEF KnownQuote
  <1>2. r = [q EXCEPT !.rsi = j, !.up = other, !.ema = d]
    BY DEF TurnedQuote
  <1>3. /\ d = "up" <=> e = "down"
        /\ d = "down" <=> e = "up"
        /\ d # "none"
        /\ e # "none"
    BY <1>1 DEF Turned
  <1>4. j = 100 - i /\ (other <=> ~up)
    OBVIOUS
  <1> HIDE DEF i, up, e, d, j, other
  <1>5. r.rsi = j /\ r.up = other /\ r.ema = d /\ r.adx = q.adx
    BY <1>1, <1>2
  <1>6. q.rsi = i /\ q.up = up /\ q.ema = e
    BY DEF i, up, e
  <1>7. Unknown.ema = "none"
    BY DEF Unknown
  <1>8. q # Unknown /\ r # Unknown
    BY <1>3, <1>5, <1>6, <1>7
  <1> DEFINE a == If(i > 60, 1)
             b == If(i < 40, 1)
             s == IF up THEN 1 ELSE -1
             x == If(e = "up", 1)
             y == If(e = "down", 1)
             k == If(i > 55, 1)
             l == If(i < 45, 1)
  <1>9. /\ FrameVote(q) = a - b + s + x - y
        /\ a \in Int /\ b \in Int /\ s \in Int /\ x \in Int /\ y \in Int /\ k \in Int /\ l \in Int
    BY <1>6 DEF FrameVote, If
  <1>10. /\ If(j > 60, 1) = b
         /\ If(j < 40, 1) = a
         /\ If(j > 55, 1) = l
         /\ If(j < 45, 1) = k
    BY <1>1, <1>4 DEF If
  <1>11. (IF other THEN 1 ELSE -1) = 0 - s
    BY <1>1, <1>4
  <1>12. If(d = "up", 1) = y /\ If(d = "down", 1) = x
    BY <1>3 DEF If
  <1>13. FrameVote(r) = b - a + (0 - s) + y - x
    BY <1>5, <1>10, <1>11, <1>12 DEF FrameVote
  <1>14. OverallBias(q) = IF k - l + s + x - y >= 2 THEN "bullish" ELSE IF k - l + s + x - y <= -2 THEN "bearish" ELSE "neutral"
    BY <1>6 DEF OverallBias
  <1>15. OverallBias(r) = IF l - k + (0 - s) + y - x >= 2 THEN "bullish" ELSE IF l - k + (0 - s) + y - x <= -2 THEN "bearish" ELSE "neutral"
    BY <1>5, <1>10, <1>11, <1>12 DEF OverallBias
  <1> HIDE DEF a, b, s, x, y, k, l
  <1>16. FrameVote(q) \in Int /\ FrameVote(r) = 0 - FrameVote(q)
    BY <1>9, <1>13
  <1> DEFINE score == k - l + s + x - y
             back == l - k + (0 - s) + y - x
  <1>17. score \in Int /\ back = 0 - score
    BY <1>9
  <1> HIDE DEF score, back
  <1>18. OverallBias(r) = Turned(OverallBias(q))
    <2>1. OverallBias(q) = IF score >= 2 THEN "bullish" ELSE IF score <= -2 THEN "bearish" ELSE "neutral"
      BY <1>14 DEF score
    <2>2. OverallBias(r) = IF back >= 2 THEN "bullish" ELSE IF back <= -2 THEN "bearish" ELSE "neutral"
      BY <1>15 DEF back
    <2>3. Turned("bullish") = "bearish" /\ Turned("bearish") = "bullish" /\ Turned("neutral") = "neutral"
      BY DEF Turned
    <2> QED BY <1>17, <2>1, <2>2, <2>3
  <1> QED BY <1>5, <1>8, <1>16, <1>18

\* The weight of some timeframes is a number.
LEMMA WeightIsNumber ==
  ASSUME NEW c, Quoted(c), NEW F
  PROVE  WeightOf(c, F) \in Int
  <1> DEFINE w == [f \in DOMAIN c |-> If(f \in F, TFWeight[f] * Strength(c[f]))]
  <1>1. \A q : Strength(q) \in {8, 12}
    BY DEF Strength
  <1>2. TFWeight["M15"] = 15 /\ TFWeight["H1"] = 25 /\ TFWeight["H4"] = 30 /\ TFWeight["D1"] = 30
    BY DEF TFWeight
  <1>3. w["M15"] \in Int /\ w["H1"] \in Int /\ w["H4"] \in Int /\ w["D1"] \in Int
    <2>1. ASSUME NEW f \in Frames PROVE w[f] \in Int
      <3>1. w[f] = If(f \in F, TFWeight[f] * Strength(c[f]))
        BY DEF Quoted
      <3>2. TFWeight[f] \in {15, 25, 30} /\ Strength(c[f]) \in {8, 12}
        BY <1>1, <1>2 DEF Frames
      <3> HIDE DEF w
      <3>3. TFWeight[f] * Strength(c[f]) \in Int
        BY <3>2
      <3> QED BY <3>1, <3>3 DEF If
    <2> HIDE DEF w
    <2> QED BY <2>1 DEF Frames
  <1>4. WeightOf(c, F) = w["M15"] + w["H1"] + w["H4"] + w["D1"]
    BY DEF WeightOf, Together
  <1> HIDE DEF w
  <1> QED BY <1>3, <1>4

LEMMA FramesTurned ==
  ASSUME NEW c, Quoted(c), NEW d, d = MirrorQuotes(c)
  PROVE  /\ DOMAIN d = Frames
         /\ \A f \in Frames : /\ d[f] = Unknown <=> c[f] = Unknown
                              /\ d[f] # Unknown => /\ Strength(d[f]) = Strength(c[f])
                                                   /\ FrameVote(c[f]) \in Int
                                                   /\ FrameVote(d[f]) = 0 - FrameVote(c[f])
                                                   /\ OverallBias(d[f]) = Turned(OverallBias(c[f]))
  <1>1. DOMAIN d = Frames
    BY DEF MirrorQuotes, Quoted
  <1>2. ASSUME NEW f \in Frames
        PROVE  /\ d[f] = Unknown <=> c[f] = Unknown
               /\ d[f] # Unknown => /\ Strength(d[f]) = Strength(c[f])
                                    /\ FrameVote(c[f]) \in Int
                                    /\ FrameVote(d[f]) = 0 - FrameVote(c[f])
                                    /\ OverallBias(d[f]) = Turned(OverallBias(c[f]))
    <2>1. d[f] = IF c[f] = Unknown THEN Unknown ELSE TurnedQuote(c[f])
      BY DEF MirrorQuotes, Quoted, TurnedQuote
    <2>2. CASE c[f] = Unknown
      BY <2>1, <2>2
    <2>3. CASE c[f] # Unknown
      <3>1. c[f] \in KnownQuote /\ d[f] = TurnedQuote(c[f])
        BY <2>1, <2>3 DEF Quoted
      <3>2. /\ d[f] # Unknown /\ d[f].adx = c[f].adx
            /\ FrameVote(c[f]) \in Int /\ FrameVote(d[f]) = 0 - FrameVote(c[f])
            /\ OverallBias(d[f]) = Turned(OverallBias(c[f]))
        BY <3>1, QuoteTurned
      <3>3. Strength(d[f]) = Strength(c[f])
        BY <3>2 DEF Strength
      <3> QED BY <2>3, <3>2, <3>3
    <2> QED BY <2>2, <2>3
  <1> QED BY <1>1, <1>2

LEMMA ConfluenceTurned ==
  ASSUME NEW c, Quoted(c), NEW d, d = MirrorQuotes(c)
  PROVE  /\ Confluence(d).verdict = Turned(Confluence(c).verdict)
         /\ Confluence(d).confidence = Confluence(c).confidence
  <1> DEFINE some == {f \in DOMAIN c : c[f] # Unknown}
             total == Together([f \in DOMAIN c |-> If(f \in some, TFWeight[f])])
             U == Leaning(c, 1)
             D == Leaning(c, -1)
             bull == WeightOf(c, U)
             bear == WeightOf(c, D)
             verdict == IF some # {} /\ bull > bear /\ bull > 5 * total THEN "bullish"
                        ELSE IF some # {} /\ bear > bull /\ bear > 5 * total THEN "bearish" ELSE "mixed"
             other == IF some # {} /\ bear > bull /\ bear > 5 * total THEN "bullish"
                      ELSE IF some # {} /\ bull > bear /\ bull > 5 * total THEN "bearish" ELSE "mixed"
             aligned == CASE verdict = "bullish" -> Cardinality(U)
                          [] verdict = "bearish" -> Cardinality(D) [] OTHER -> 0
             against == CASE other = "bullish" -> Cardinality(D)
                          [] other = "bearish" -> Cardinality(U) [] OTHER -> 0
             Some(e) == {f \in DOMAIN e : e[f] # Unknown}
             Sums(e) == Together([f \in DOMAIN e |-> If(f \in Some(e), TFWeight[f])])
  <1>1. DOMAIN c = Frames /\ DOMAIN d = Frames
    BY FramesTurned DEF Quoted
  <1>2. \A f \in Frames : /\ d[f] = Unknown <=> c[f] = Unknown
                          /\ d[f] # Unknown => /\ Strength(d[f]) = Strength(c[f])
                                               /\ FrameVote(c[f]) \in Int
                                               /\ FrameVote(d[f]) = 0 - FrameVote(c[f])
    BY FramesTurned
  <1>3. Some(d) = some
    BY <1>1, <1>2
  <1>4. Sums(d) = total
    <2> HIDE DEF some
    <2> QED BY <1>1, <1>3
  <1>5. Leaning(d, 1) = D /\ Leaning(d, -1) = U
    BY <1>1, <1>2 DEF Leaning
  <1>6. ASSUME NEW F, F = U \/ F = D PROVE WeightOf(d, F) = WeightOf(c, F)
    <2>1. \A f \in F : f \in Frames => d[f] # Unknown
      BY <1>1, <1>2, <1>6 DEF Leaning
    <2> DEFINE x == [f \in DOMAIN d |-> If(f \in F, TFWeight[f] * Strength(d[f]))]
               y == [f \in DOMAIN c |-> If(f \in F, TFWeight[f] * Strength(c[f]))]
    <2>2. \A f \in Frames : If(f \in F, TFWeight[f] * Strength(d[f])) = If(f \in F, TFWeight[f] * Strength(c[f]))
      <3> TAKE f \in Frames
      <3>1. CASE f \in F
        <4>1. Strength(d[f]) = Strength(c[f])
          BY <1>2, <2>1, <3>1
        <4> QED BY <4>1
      <3>2. CASE f \notin F
        BY <3>2 DEF If
      <3> QED BY <3>1, <3>2
    <2>3. x = y
      BY <1>1, <2>2
    <2> HIDE DEF x, y
    <2>4. Together(x) = Together(y)
      BY <2>3
    <2> QED BY <2>4 DEF WeightOf, x, y
  <1>7. bull \in Int /\ bear \in Int
    BY WeightIsNumber
  <1>8. WeightOf(d, D) = bear /\ WeightOf(d, U) = bull
    BY <1>6
  <1>9. Confluence(c) = [verdict |-> IF some = {} THEN "failed" ELSE verdict,
                         confidence |-> IF some = {} THEN 0
                                        ELSE Min({95, (10 * Apart(bull, bear)) \div total + 5 * aligned})]
    BY Zenon DEF Confluence
  <1>11. Confluence(d) = [verdict |-> IF some = {} THEN "failed" ELSE other,
                          confidence |-> IF some = {} THEN 0
                                         ELSE Min({95, (10 * Apart(bear, bull)) \div total + 5 * against})]
    <2> DEFINE k == Some(d)
               t == Sums(d)
               P == Leaning(d, 1)
               Q == Leaning(d, -1)
               a == WeightOf(d, P)
               b == WeightOf(d, Q)
               v == IF k # {} /\ a > b /\ a > 5 * t THEN "bullish"
                    ELSE IF k # {} /\ b > a /\ b > 5 * t THEN "bearish" ELSE "mixed"
               n == CASE v = "bullish" -> Cardinality(P)
                      [] v = "bearish" -> Cardinality(Q) [] OTHER -> 0
    <2>1. Confluence(d) = [verdict |-> IF k = {} THEN "failed" ELSE v,
                           confidence |-> IF k = {} THEN 0
                                          ELSE Min({95, (10 * Apart(a, b)) \div t + 5 * n})]
      BY Zenon DEF Confluence
    <2>2. k = some /\ t = total /\ P = D /\ Q = U /\ a = bear /\ b = bull
      BY <1>3, <1>4, <1>5, <1>8
    <2> HIDE DEF k, t, P, Q, a, b, some, total, U, D, bull, bear
    <2>3. v = other
      BY <2>2
    <2> HIDE DEF v, other
    <2>4. n = against
      BY <2>2, <2>3
    <2> HIDE DEF n, against
    <2> QED BY <2>1, <2>2, <2>3, <2>4
  <1>12. Apart(bear, bull) = Apart(bull, bear)
    <2> HIDE DEF bear, bull
    <2> QED BY <1>7 DEF Apart
  <1> HIDE DEF some, total, U, D, bull, bear
  <1>13. other = Turned(verdict) /\ against = aligned
    <2>1. CASE some # {} /\ bull > bear /\ bull > 5 * total
      <3>1. verdict = "bullish" /\ other = "bearish"
        BY <1>7, <2>1
      <3> HIDE DEF verdict, other
      <3> QED BY <3>1 DEF Turned
    <2>2. CASE some # {} /\ bear > bull /\ bear > 5 * total
      <3>1. verdict = "bearish" /\ other = "bullish"
        BY <1>7, <2>2
      <3> HIDE DEF verdict, other
      <3> QED BY <3>1 DEF Turned
    <2>3. CASE ~(some # {} /\ bull > bear /\ bull > 5 * total) /\ ~(some # {} /\ bear > bull /\ bear > 5 * total)
      <3>1. verdict = "mixed" /\ other = "mixed"
        BY <2>3
      <3> HIDE DEF verdict, other
      <3> QED BY <3>1 DEF Turned
    <2> QED BY <2>1, <2>2, <2>3
  <1> HIDE DEF verdict, other, aligned, against
  <1>14. Confluence(d).verdict = Turned(Confluence(c).verdict)
    <2>1. Turned("failed") = "failed"
      BY DEF Turned
    <2> QED BY <1>9, <1>11, <1>13, <2>1
  <1>15. Confluence(d).confidence = Confluence(c).confidence
    <2> DEFINE p == Apart(bear, bull)
    <2>1. p = Apart(bull, bear)
      BY <1>12
    <2> HIDE DEF p
    <2> QED BY <1>9, <1>11, <1>13, <2>1 DEF p
  <1> QED BY <1>14, <1>15

LEMMA FramesMirrored ==
  ASSUME NEW c, Quoted(c)
  PROVE  ReadFrames(MirrorQuotes(c)) =
           [ReadFrames(c) EXCEPT !.verdict = Turned(@), !.biases = {[b EXCEPT !.bias = Turned(@)] : b \in @}]
  <1> DEFINE d == MirrorQuotes(c)
             B(e) == {[frame |-> f, bias |-> OverallBias(e[f])] : f \in {f \in DOMAIN e : e[f] # Unknown}}
             b1 == B(c)
             b2 == B(d)
             b3 == {[b EXCEPT !.bias = Turned(@)] : b \in b1}
             v == Confluence(c).verdict
             n == Confluence(c).confidence
             w == Confluence(d).verdict
             m == Confluence(d).confidence
             tv == Turned(v)
             R == ReadFrames(c)
  <1>1. w = tv /\ m = n
    BY ConfluenceTurned
  <1>2. b2 = b3
    <2>1. ASSUME NEW f \in Frames, c[f] # Unknown
          PROVE  [[frame |-> f, bias |-> OverallBias(c[f])] EXCEPT !.bias = Turned(@)]
                   = [frame |-> f, bias |-> OverallBias(d[f])]
      <3> DEFINE x == OverallBias(c[f])
                 y == OverallBias(d[f])
                 r == [frame |-> f, bias |-> x]
      <3>1. y = Turned(x)
        BY <2>1, FramesTurned
      <3> HIDE DEF x, y
      <3>2. r.bias = x
        OBVIOUS
      <3>3. [r EXCEPT !.bias = y] = [frame |-> f, bias |-> y]
        OBVIOUS
      <3> HIDE DEF r
      <3>4. [r EXCEPT !.bias = Turned(@)] = [r EXCEPT !.bias = y]
        BY <3>1, <3>2
      <3> QED BY <3>3, <3>4 DEF r, x, y
    <2>2. DOMAIN d = Frames /\ \A f \in Frames : d[f] = Unknown <=> c[f] = Unknown
      BY FramesTurned
    <2>3. DOMAIN c = Frames
      BY DEF Quoted
    <2> DEFINE S == {f \in Frames : c[f] # Unknown}
               Bias(e, f) == [frame |-> f, bias |-> OverallBias(e[f])]
               Faced(b) == [b EXCEPT !.bias = Turned(@)]
    <2>4. b1 = {Bias(c, f) : f \in S} /\ b2 = {Bias(d, f) : f \in S}
      <3> HIDE DEF d
      <3> QED BY <2>2, <2>3
    <2>5. b3 = {Faced(b) : b \in b1}
      OBVIOUS
    <2>6. \A f \in S : Faced(Bias(c, f)) = Bias(d, f)
      BY <2>1
    <2> HIDE DEF d, S, Bias, Faced, b1, b2, b3
    <2> QED BY <2>4, <2>5, <2>6
  <1>3. R = [patterns |-> {}, support |-> {}, resistance |-> {}, biases |-> b1, verdict |-> v, confidence |-> n]
    <2>1. R = [Unread EXCEPT !.verdict = v, !.confidence = n, !.biases = b1]
      BY Zenon DEF ReadFrames
    <2> HIDE DEF R, b1, v, n
    <2> QED BY <2>1 DEF Unread
  <1>4. ReadFrames(d) = [patterns |-> {}, support |-> {}, resistance |-> {}, biases |-> b2, verdict |-> w, confidence |-> m]
    <2>1. ReadFrames(d) = [Unread EXCEPT !.verdict = w, !.confidence = m, !.biases = b2]
      BY Zenon DEF ReadFrames
    <2> HIDE DEF d, b2, w, m
    <2> QED BY <2>1 DEF Unread
  <1> HIDE DEF R, b1, b2, v, n, w, m, tv
  <1>5. R.verdict = v /\ R.biases = b1
    BY <1>3
  <1>6. [R EXCEPT !.verdict = tv, !.biases = b3]
          = [patterns |-> {}, support |-> {}, resistance |-> {}, biases |-> b3, verdict |-> tv, confidence |-> n]
    <2> DEFINE S == [R EXCEPT !.verdict = tv, !.biases = b3]
    <2>1. /\ S.patterns = {} /\ S.support = {} /\ S.resistance = {}
          /\ S.biases = b3 /\ S.verdict = tv /\ S.confidence = n
      BY <1>3
    <2>2. /\ S = [k \in DOMAIN R |-> S[k]]
          /\ DOMAIN R = {"patterns", "support", "resistance", "biases", "verdict", "confidence"}
      BY <1>3
    <2> HIDE DEF S
    <2>3. S = [patterns |-> {}, support |-> {}, resistance |-> {}, biases |-> b3, verdict |-> tv, confidence |-> n]
      BY <2>1, <2>2
    <2> QED BY <2>3 DEF S
  <1>7. [R EXCEPT !.verdict = Turned(@), !.biases = {[b EXCEPT !.bias = Turned(@)] : b \in @}]
          = [R EXCEPT !.verdict = tv, !.biases = b3]
    BY <1>5 DEF tv
  <1>8. ReadFrames(d) = [R EXCEPT !.verdict = Turned(@), !.biases = {[b EXCEPT !.bias = Turned(@)] : b \in @}]
    BY <1>1, <1>2, <1>4, <1>6, <1>7
  <1> QED BY <1>8 DEF R

\* The chart in its surroundings turned upside down.
LEMMA ChartTurned ==
  ASSUME NEW c \in PlottedChart, NEW d, d = MirrorChart(c), NEW A, A = Axis(c)
  PROVE  /\ Upended(c.close, d.close, A) /\ Len(c.close) >= 1
         /\ Overturned(c.around, d.around, A)
  <1> DEFINE s == c.close
             a == c.around
             n == Len(s)
             T == ToSet(s)
             t == d.close
             b == d.around
             Z == a.zones
             Y == {TurnedZone(z, A) : z \in Z}
             m == Turned(a.move)
  <1>1. s \in Seq(Nat) /\ s # <<>> /\ a \in Backdrop
    <2>3. s \in {x \in Seq(Nat) : Len(x) >= 1 /\ Len(x) <= 50} /\ a \in Backdrop
      BY DEF PlottedChart
    <2> HIDE DEF s, a
    <2>4. s \in Seq(Nat)
      BY Zenon, <2>3
    <2>6. a \in Backdrop
      BY Zenon, <2>3
    <2>1. Len(s) >= 1
      BY Zenon, <2>3
    <2>2. s = <<>> => Len(s) = 0
      OBVIOUS
    <2> QED BY <2>1, <2>2, <2>4, <2>6
  <1>2. n \in Nat /\ n >= 1 /\ DOMAIN s = 1 .. n /\ s \in [1 .. n -> Nat]
    BY <1>1
  <1>3. A = Max(T) + Min(T)
    BY DEF Axis
  <1>4. T \in SUBSET Int /\ IsFiniteSet(T) /\ T = {s[k] : k \in 1 .. n}
    BY <1>1, <1>2, ToSetIs DEF ToSet
  <1>5. T # {}
    <2> HIDE DEF n, s, T
    <2>1. 1 \in 1 .. n
      BY <1>2
    <2>2. s[1] \in T
      BY <1>4, <2>1
    <2> QED BY <2>2
  <1>6. Max(T) \in T /\ Max(T) \in Int /\ (\A x \in T : x <= Max(T)) /\ Min(T) \in T
    BY <1>4, <1>5, MaxIs, MinIs
  <1> HIDE DEF T
  <1>7. A \in Int /\ \A k \in 1 .. n : A - s[k] \in Nat
    <2>1. \A x \in T : x \in Nat
      <3> HIDE DEF n, s
      <3> QED BY <1>2, <1>4
    <2>2. ASSUME NEW k \in 1 .. n PROVE s[k] \in Nat /\ s[k] <= Max(T)
      BY <1>2, <1>4, <1>6
    <2>3. Max(T) \in Nat /\ Min(T) \in Nat
      BY <1>6, <2>1
    <2> QED BY <1>3, <2>2, <2>3
  <1>8. d = [close |-> [k \in 1 .. n |-> A - s[k]],
             around |-> [a EXCEPT !.move = Turned(@),
                           !.zones = {[z EXCEPT !.price = A - @, !.kind = Turned(@)] : z \in @}]]
    BY <1>2 DEF MirrorChart
  <1>9. t = [k \in 1 .. n |-> A - s[k]]
    BY <1>8
  <1>10. b = [a EXCEPT !.move = m, !.zones = Y]
    BY <1>8 DEF TurnedZone
  <1> HIDE DEF t, b
  <1>11. Upended(s, t, A)
    <2> HIDE DEF s, n
    <2>1. t \in [1 .. n -> Nat] /\ \A k \in 1 .. n : t[k] = A - s[k]
      BY <1>7, <1>9
    <2> QED BY <1>2, <1>7, <2>1, UpendedIs
  <1>12. Overturned(a, b, A)
    <2>1. ZonesAre(Z)
      BY <1>1 DEF Backdrop, Zoning, ZonesAre
    <2> HIDE DEF Y, m
    <2>2. b.move = m /\ b.zones = Y /\ b.session = a.session /\ b.sweep = a.sweep /\ b.spike = a.spike
      BY <1>1, <1>10 DEF Backdrop
    <2> QED BY <2>1, <2>2 DEF Overturned, Y, m
  <1> QED BY <1>2, <1>11, <1>12 DEF t, b

\* What a reading of a chart is made of.
LEMMA ChartRead ==
  ASSUME NEW c
  PROVE  /\ ReadChart(c).patterns = {Adjusted(p, c.close, c.around) : p \in ToSet(DetectAll(c.close))}
         /\ ReadChart(c).support = Support(c.close)
         /\ ReadChart(c).resistance = Resistance(c.close)
  <1> DEFINE P == {Adjusted(p, c.close, c.around) : p \in ToSet(DetectAll(c.close))}
             v == PatternSignal(P)
             s == Support(c.close)
             r == Resistance(c.close)
  <1>1. ReadChart(c) = [Unread EXCEPT !.patterns = P, !.verdict = v, !.support = s, !.resistance = r]
    BY Zenon DEF ReadChart
  <1> HIDE DEF P, v, s, r
  <1>2. ReadChart(c).patterns = P /\ ReadChart(c).support = s /\ ReadChart(c).resistance = r
    BY <1>1 DEF Unread
  <1> QED BY <1>2 DEF P, s, r

LEMMA ChartMirrored ==
  ASSUME NEW c \in PlottedChart, ~Motionless(c.close), NEW r, r = ReadChart(c),
         NEW m, m = ReadChart(MirrorChart(c))
  PROVE  /\ Paired(m.patterns) = {[p EXCEPT !.name = Turned(@), !.type = Turned(@)] : p \in Paired(r.patterns)}
         /\ m.support = MirrorLevels(c, r.resistance)
         /\ m.resistance = MirrorLevels(c, r.support)
  <1> DEFINE d == MirrorChart(c)
             s == c.close
             t == d.close
             a == c.around
             b == d.around
             A == Axis(c)
             R == r.patterns
             M == m.patterns
  <1>1. Upended(s, t, A) /\ Len(s) >= 1 /\ Overturned(a, b, A)
    BY ChartTurned
  <1>2. R = AllAdjusted(s, a)
    BY ChartRead DEF AllAdjusted
  <1>3. M = AllAdjusted(t, b)
    BY ChartRead DEF AllAdjusted
  <1>4. r.support = Support(s) /\ r.resistance = Resistance(s)
    BY ChartRead
  <1>5. m.support = Support(t) /\ m.resistance = Resistance(t)
    BY ChartRead
  <1> HIDE DEF d, t, a, b, R, M
  <1>6. Paired(M) = {TurnedPattern(p) : p \in Paired(R)}
    BY <1>1, <1>2, <1>3, PatternsMirrored
  <1>7. Support(t) = {TurnedLevel(l, A) : l \in Resistance(s)} /\ Resistance(t) = {TurnedLevel(l, A) : l \in Support(s)}
    BY <1>1, LevelsMirrored
  <1>8. m.support = MirrorLevels(c, r.resistance) /\ m.resistance = MirrorLevels(c, r.support)
    BY <1>4, <1>5, <1>7 DEF MirrorLevels, TurnedLevel
  <1>9. Paired(M) = {[p EXCEPT !.name = Turned(@), !.type = Turned(@)] : p \in Paired(R)}
    BY <1>6 DEF TurnedPattern
  <1> QED BY <1>8, <1>9 DEF R, M

\* A reading is that of the chart it is of.
ChartInv ==
  \/ chart \in PlottedChart /\ reading \in {Unread, ReadChart(chart)}
  \/ Quoted(chart) /\ reading \in {Unread, ReadFrames(chart)}

LEMMA ChartsApart ==
  /\ \A c \in PlottedChart : "H1" \notin DOMAIN c
  /\ \A q : Quoted(q) => "close" \notin DOMAIN q
  BY DEF PlottedChart, Quoted, Frames

LEMMA ChartStarts == ChartInit => ChartInv
  <1> SUFFICES ASSUME NEW c \in Charts \cup Confluences, chart = c /\ reading = Unread PROVE ChartInv
    BY DEF ChartInit, ChartStart
  <1>1. CASE c \in Charts
    BY <1>1, ChartAssumption DEF ChartInv
  <1>2. CASE c \in Confluences
    <2>1. DOMAIN c = Frames /\ \A f \in DOMAIN c : c[f] \in Quote \cup {Unknown}
      BY <1>2, ChartAssumption DEF Frames
    <2>2. Quote \subseteq KnownQuote
      BY DEF Quote, KnownQuote
    <2>3. Quoted(c)
      BY <2>1, <2>2 DEF Quoted
    <2> QED BY <2>3 DEF ChartInv
  <1> QED BY <1>1, <1>2

LEMMA ChartStep == ChartInv /\ [ChartNext]_chartVars => ChartInv'
  <1> SUFFICES ASSUME ChartInv, [ChartNext]_chartVars PROVE ChartInv'
    OBVIOUS
  <1>1. CASE FullAnalysis
    <2>1. chart \in PlottedChart
      BY <1>1, ChartsApart DEF FullAnalysis, ChartInv
    <2> QED BY <1>1, <2>1 DEF FullAnalysis, ChartInv
  <1>2. CASE FullConfluence
    <2>1. Quoted(chart)
      BY <1>2, ChartsApart DEF FullConfluence, ChartInv
    <2> QED BY <1>2, <2>1 DEF FullConfluence, ChartInv
  <1>3. CASE UNCHANGED chartVars
    BY <1>3 DEF chartVars, ChartInv
  <1> QED BY <1>1, <1>2, <1>3 DEF ChartNext

\* Every chart reads the other way round when it is turned upside down.
LEMMA ChartsAlike == ChartInv => ChartsMirrored
  <1> SUFFICES ASSUME ChartInv PROVE ChartsMirrored
    OBVIOUS
  <1> DEFINE c == chart
             r == reading
             Turnings(q, p) ==
               /\ Paired(q.patterns) = {[x EXCEPT !.name = Turned(@), !.type = Turned(@)] : x \in Paired(p.patterns)}
               /\ q.support = MirrorLevels(c, p.resistance)
               /\ q.resistance = MirrorLevels(c, p.support)
  <1>1. ASSUME "close" \in DOMAIN c, r # Unread, ~Motionless(c.close)
        PROVE  Turnings(ReadChart(MirrorChart(c)), r)
    <2>1. c \in PlottedChart /\ r = ReadChart(c)
      BY <1>1, ChartsApart DEF ChartInv
    <2> QED BY <1>1, <2>1, ChartMirrored
  <1>2. ASSUME "H1" \in DOMAIN c, r # Unread
        PROVE  ReadFrames(MirrorQuotes(c)) =
                 [r EXCEPT !.verdict = Turned(@), !.biases = {[b EXCEPT !.bias = Turned(@)] : b \in @}]
    <2>1. Quoted(c) /\ r = ReadFrames(c)
      BY <1>2, ChartsApart DEF ChartInv
    <2> QED BY <2>1, FramesMirrored
  <1> HIDE DEF Turnings
  <1> QED BY <1>1, <1>2 DEF ChartsMirrored, Turnings

(* The market turned upside down. *)

\* The same bars seen from below.
Capsized(B, C) ==
  /\ Len(B) \in Nat /\ Len(B) >= 2 /\ Len(C) = Len(B)
  /\ DOMAIN B = 1 .. Len(B) /\ DOMAIN C = 1 .. Len(B)
  /\ \A i \in 1 .. Len(B) : /\ B[i] \in HourBar /\ C[i] \in HourBar
                            /\ C[i].high = 50 - B[i].low /\ C[i].low = 50 - B[i].high
                            /\ C[i].open = 50 - B[i].open /\ C[i].close = 50 - B[i].close
                            /\ C[i].day = B[i].day /\ C[i].hour = B[i].hour

LEMMA CapsizedBack ==
  ASSUME NEW B, NEW C, Capsized(B, C)
  PROVE  Capsized(C, B)
  <1> DEFINE n == Len(B)
  <1>1. \A i \in 1 .. n : /\ B[i] \in HourBar /\ C[i] \in HourBar
                          /\ C[i].high = 50 - B[i].low /\ C[i].low = 50 - B[i].high
                          /\ C[i].open = 50 - B[i].open /\ C[i].close = 50 - B[i].close
                          /\ C[i].day = B[i].day /\ C[i].hour = B[i].hour
    BY DEF Capsized
  <1>2. n \in Nat /\ n >= 2 /\ Len(C) = n /\ DOMAIN B = 1 .. n /\ DOMAIN C = 1 .. n
    BY DEF Capsized
  <1> HIDE DEF n
  <1>3. ASSUME NEW i \in 1 .. n
        PROVE  /\ B[i].high = 50 - C[i].low /\ B[i].low = 50 - C[i].high
               /\ B[i].open = 50 - C[i].open /\ B[i].close = 50 - C[i].close
               /\ B[i].day = C[i].day /\ B[i].hour = C[i].hour
    BY <1>1 DEF HourBar
  <1>4. Len(C) \in Nat /\ Len(C) >= 2 /\ Len(B) = Len(C) /\ DOMAIN C = 1 .. Len(C) /\ DOMAIN B = 1 .. Len(C)
    BY <1>2 DEF n
  <1>5. \A i \in 1 .. Len(C) : /\ C[i] \in HourBar /\ B[i] \in HourBar
                          /\ B[i].high = 50 - C[i].low /\ B[i].low = 50 - C[i].high
                          /\ B[i].open = 50 - C[i].open /\ B[i].close = 50 - C[i].close
                          /\ B[i].day = C[i].day /\ B[i].hour = C[i].hour
    BY <1>1, <1>2, <1>3
  <1> QED BY <1>4, <1>5 DEF Capsized

LEMMA ViewTurned ==
  ASSUME NEW v \in MarketView
  PROVE  Capsized(v.bars, MirrorView(v).bars) /\ MirrorView(v).rush = v.rush
  <1> DEFINE B == v.bars
             n == Len(B)
             C == [i \in DOMAIN B |->
                    [B[i] EXCEPT !.high = 50 - B[i].low, !.low = 50 - B[i].high,
                                 !.open = 50 - @, !.close = 50 - @]]
  <1>1. B \in Seq(HourBar) /\ Len(B) >= 2 /\ v = [bars |-> B, rush |-> v.rush]
    BY DEF MarketView
  <1>2. n \in Nat /\ n >= 2 /\ DOMAIN B = 1 .. n /\ \A i \in 1 .. n : B[i] \in HourBar
    BY <1>1
  <1>3. MirrorView(v) = [v EXCEPT !.bars = C]
    BY DEF MirrorView
  <1>4. MirrorView(v).bars = C /\ MirrorView(v).rush = v.rush
    <2> HIDE DEF B, C
    <2> QED BY <1>1, <1>3
  <1>5. DOMAIN C = 1 .. n /\ C \in Seq(HourBar) /\ Len(C) = n
    <2> HIDE DEF B, n
    <2>1. ASSUME NEW i \in 1 .. n
          PROVE  [B[i] EXCEPT !.high = 50 - B[i].low, !.low = 50 - B[i].high, !.open = 50 - @, !.close = 50 - @] \in HourBar
      <3> DEFINE b == B[i]
                 r == [b EXCEPT !.high = 50 - b.low, !.low = 50 - b.high, !.open = 50 - @, !.close = 50 - @]
      <3>1. b \in HourBar
        BY <1>2
      <3> HIDE DEF b
      <3>2. r = [open |-> 50 - b.open, close |-> 50 - b.close, high |-> 50 - b.low, low |-> 50 - b.high,
                 day |-> b.day, hour |-> b.hour]
        <4>1. /\ r.open = 50 - b.open /\ r.close = 50 - b.close /\ r.high = 50 - b.low
              /\ r.low = 50 - b.high /\ r.day = b.day /\ r.hour = b.hour
          BY <3>1 DEF HourBar
        <4>2. r = [k \in DOMAIN b |-> r[k]] /\ DOMAIN b = {"open", "close", "high", "low", "day", "hour"}
          BY <3>1 DEF HourBar
        <4> HIDE DEF r
        <4> QED BY <4>1, <4>2
      <3> HIDE DEF r
      <3>3. r \in HourBar
        BY <3>1, <3>2 DEF HourBar
      <3> QED BY <3>3 DEF r, b
    <2>2. C \in [1 .. n -> HourBar]
      BY <1>2, <2>1
    <2> HIDE DEF C
    <2> QED BY <1>2, <2>2
  <1>6. ASSUME NEW i \in 1 .. n
        PROVE  /\ C[i].high = 50 - B[i].low /\ C[i].low = 50 - B[i].high
               /\ C[i].open = 50 - B[i].open /\ C[i].close = 50 - B[i].close
               /\ C[i].day = B[i].day /\ C[i].hour = B[i].hour
    <2> HIDE DEF B, n
    <2>1. B[i] \in HourBar
      BY <1>2
    <2>2. C[i] = [B[i] EXCEPT !.high = 50 - B[i].low, !.low = 50 - B[i].high, !.open = 50 - @, !.close = 50 - @]
      BY <1>2
    <2> HIDE DEF C
    <2> QED BY <2>1, <2>2 DEF HourBar
  <1> HIDE DEF C
  <1>7. \A i \in 1 .. n : C[i] \in HourBar
    BY <1>5
  <1>8. Capsized(B, C)
    BY <1>2, <1>5, <1>6, <1>7 DEF Capsized
  <1> QED BY <1>4, <1>8

\* The highs of some bars are the lows of the others.
LEMMA EndsTurned ==
  ASSUME NEW B, NEW C, Capsized(B, C), NEW at, at \subseteq 1 .. Len(B), at # {}
  PROVE  /\ Max(Highs(C, at)) = 50 - Min(Lows(B, at)) /\ Min(Lows(C, at)) = 50 - Max(Highs(B, at))
         /\ Max(Highs(B, at)) \in Int /\ Min(Lows(B, at)) \in Int
  <1> DEFINE H == Highs(B, at)
             L == Lows(B, at)
             up == [i \in at |-> B[i].high]
             dn == [i \in at |-> B[i].low]
  <1>1. \A i \in at : /\ B[i].high \in Int /\ B[i].low \in Int
                      /\ C[i].high = 50 - B[i].low /\ C[i].low = 50 - B[i].high
    BY DEF Capsized, HourBar
  <1>2. IsFiniteSet(at)
    <2>1. IsFiniteSet(1 .. Len(B))
      BY FS_Interval DEF Capsized
    <2>2. at \in SUBSET (1 .. Len(B))
      OBVIOUS
    <2> QED BY <2>1, <2>2, FS_Subset
  <1>3. H = {up[i] : i \in at} /\ L = {dn[i] : i \in at}
    BY DEF Highs, Lows
  <1>4. H \in SUBSET Int /\ L \in SUBSET Int /\ H # {} /\ L # {}
    <2>1. PICK i : i \in at
      OBVIOUS
    <2>2. B[i].high \in H /\ B[i].low \in L
      BY <2>1 DEF Highs, Lows
    <2>3. H \in SUBSET Int /\ L \in SUBSET Int
      BY <1>1 DEF Highs, Lows
    <2> HIDE DEF H, L
    <2> QED BY <2>2, <2>3
  <1>5. Highs(C, at) = {50 - x : x \in L} /\ Lows(C, at) = {50 - x : x \in H}
    BY <1>1 DEF Highs, Lows
  <1> HIDE DEF H, L
  <1>6. IsFiniteSet(H) /\ IsFiniteSet(L)
    <2>1. up \in Surjection(at, H) /\ dn \in Surjection(at, L)
      BY <1>3 DEF Surjection
    <2> HIDE DEF up, dn
    <2> QED BY <1>2, <2>1, FS_Surjection
  <1>7. Max({50 - x : x \in L}) = 50 - Min(L) /\ Min(L) \in Int
    <2> DEFINE a == 50
    <2>1. a \in Int
      OBVIOUS
    <2> HIDE DEF a
    <2>2. Max({a - x : x \in L}) = a - Min(L) /\ Min(L) \in Int
      BY <1>4, <1>6, <2>1, MaxTurned
    <2> QED BY <2>2 DEF a
  <1>8. Min({50 - x : x \in H}) = 50 - Max(H) /\ Max(H) \in Int
    <2> DEFINE a == 50
    <2>1. a \in Int
      OBVIOUS
    <2> HIDE DEF a
    <2>2. Min({a - x : x \in H}) = a - Max(H) /\ Max(H) \in Int
      BY <1>4, <1>6, <2>1, MinTurned
    <2> QED BY <2>2 DEF a
  <1> QED BY <1>5, <1>7, <1>8 DEF H, L

(* The zones of the one market among those of the other. *)

ZoneKinds == {"session_high", "session_low", "previous_day_high", "previous_day_low", "weekly_high",
              "weekly_low", "psychological", "equal_highs", "equal_lows", "order_block"}
FoundZones == [level : Int, kind : ZoneKinds, strength : Int]
MirrorZone(z) == [z EXCEPT !.level = 50 - @, !.kind = Flip(@)]

LEMMA ZoneMirrored ==
  ASSUME NEW l, NEW k, NEW s
  PROVE  MirrorZone(Zone(l, k, s)) = Zone(50 - l, Flip(k), s)
  <1> DEFINE z == Zone(l, k, s)
             m == 50 - l
             j == Flip(k)
  <1>1. z = [level |-> l, kind |-> k, strength |-> s]
    BY DEF Zone
  <1>2. MirrorZone(z) = [z EXCEPT !.level = m, !.kind = j]
    <2>1. z.level = l /\ z.kind = k
      BY <1>1
    <2> HIDE DEF z
    <2> QED BY <2>1 DEF MirrorZone
  <1> HIDE DEF z, m, j
  <1>3. MirrorZone(z) = [level |-> m, kind |-> j, strength |-> s]
    BY <1>1, <1>2
  <1>4. MirrorZone(z) = Zone(m, j, s)
    BY <1>3 DEF Zone
  <1> QED BY <1>4 DEF z, m, j

LEMMA FlipBack ==
  ASSUME NEW k \in ZoneKinds
  PROVE  Flip(k) \in ZoneKinds /\ Flip(Flip(k)) = k
  BY DEF ZoneKinds, Flip

LEMMA ZoneIs ==
  ASSUME NEW z \in FoundZones
  PROVE  z = Zone(z.level, z.kind, z.strength) /\ z.level \in Int /\ z.kind \in ZoneKinds /\ z.strength \in Int
  BY DEF FoundZones, Zone

LEMMA MirrorBack ==
  ASSUME NEW z \in FoundZones
  PROVE  /\ MirrorZone(z) \in FoundZones /\ MirrorZone(MirrorZone(z)) = z
         /\ MirrorZone(z).level = 50 - z.level /\ MirrorZone(z).strength = z.strength
  <1> DEFINE l == z.level
             k == z.kind
             s == z.strength
             m == 50 - l
             j == Flip(k)
  <1>1. z = Zone(l, k, s) /\ l \in Int /\ k \in ZoneKinds /\ s \in Int
    BY ZoneIs
  <1>2. MirrorZone(z) = Zone(m, j, s)
    <2>1. MirrorZone(Zone(l, k, s)) = Zone(m, j, s)
      BY ZoneMirrored
    <2> HIDE DEF l, k, s, m, j
    <2> QED BY <1>1, <2>1
  <1>3. m \in Int /\ 50 - m = l /\ j \in ZoneKinds /\ Flip(j) = k
    BY <1>1, FlipBack
  <1>4. MirrorZone(Zone(m, j, s)) = Zone(50 - m, Flip(j), s)
    BY ZoneMirrored
  <1> HIDE DEF l, k, s, m, j
  <1>5. MirrorZone(MirrorZone(z)) = z
    BY <1>1, <1>2, <1>3, <1>4
  <1>6. MirrorZone(z) \in FoundZones /\ MirrorZone(z).level = m /\ MirrorZone(z).strength = s
    BY <1>1, <1>2, <1>3 DEF Zone, FoundZones
  <1> QED BY <1>5, <1>6 DEF m, l, s

\* f leads from a zone to its own in the other market, and g back.
Matching(f, g, s, t) ==
  /\ f \in [1 .. Len(s) -> 1 .. Len(s)] /\ g \in [1 .. Len(s) -> 1 .. Len(s)]
  /\ \A k \in 1 .. Len(s) : g[f[k]] = k /\ f[g[k]] = k /\ t[f[k]] = MirrorZone(s[k])

\* Every zone of s has its own in t, and t has no more.
Rearranged(s, t) ==
  /\ s \in Seq(FoundZones) /\ t \in Seq(FoundZones) /\ Len(s) \in Nat /\ Len(t) = Len(s)
  /\ DOMAIN s = 1 .. Len(s) /\ DOMAIN t = 1 .. Len(s)
  /\ \E f, g : Matching(f, g, s, t)

LEMMA RearrangedBack ==
  ASSUME NEW s, NEW t, Rearranged(s, t)
  PROVE  Rearranged(t, s)
  <1> DEFINE n == Len(s)
  <1>8. PICK f, g : Matching(f, g, s, t)
    BY DEF Rearranged
  <1>1. /\ f \in [1 .. n -> 1 .. n] /\ g \in [1 .. n -> 1 .. n]
        /\ \A k \in 1 .. n : g[f[k]] = k /\ f[g[k]] = k /\ t[f[k]] = MirrorZone(s[k])
    BY <1>8 DEF Matching
  <1>2. /\ s \in Seq(FoundZones) /\ t \in Seq(FoundZones) /\ n \in Nat /\ Len(t) = n
        /\ DOMAIN s = 1 .. n /\ DOMAIN t = 1 .. n
    BY DEF Rearranged
  <1> HIDE DEF n
  <1>3. ASSUME NEW k \in 1 .. n PROVE s[g[k]] = MirrorZone(t[k])
    <2>1. g[k] \in 1 .. n /\ f[g[k]] = k
      BY <1>1
    <2>2. t[k] = MirrorZone(s[g[k]]) /\ s[g[k]] \in FoundZones
      BY <1>1, <1>2, <2>1
    <2> QED BY <2>2, MirrorBack
  <1>4. \A k \in 1 .. n : f[g[k]] = k /\ g[f[k]] = k /\ s[g[k]] = MirrorZone(t[k])
    BY <1>1, <1>3
  <1>5. Matching(g, f, t, s)
    BY <1>1, <1>2, <1>4 DEF Matching
  <1>6. Len(t) \in Nat /\ Len(s) = Len(t) /\ DOMAIN t = 1 .. Len(t) /\ DOMAIN s = 1 .. Len(t)
    BY <1>2 DEF n
  <1> QED BY <1>2, <1>5, <1>6 DEF Rearranged

LEMMA NoZones == Rearranged(<<>>, <<>>)
  <1>1. <<>> \in Seq(FoundZones) /\ Len(<<>>) = 0 /\ DOMAIN <<>> = 1 .. 0
    OBVIOUS
  <1> DEFINE f == [k \in 1 .. 0 |-> k]
             e == <<>>
  <1>2. f \in [1 .. 0 -> 1 .. 0]
    OBVIOUS
  <1> HIDE DEF f, e
  <1>3. e \in Seq(FoundZones) /\ Len(e) = 0 /\ DOMAIN e = 1 .. 0
    BY <1>1 DEF e
  <1>4. Matching(f, f, e, e)
    BY <1>2, <1>3 DEF Matching
  <1>7. Len(e) \in Nat /\ DOMAIN e = 1 .. Len(e)
    BY <1>3
  <1>5. Rearranged(e, e)
    BY <1>3, <1>4, <1>7 DEF Rearranged
  <1> QED BY <1>5 DEF e

LEMMA ConcatIs ==
  ASSUME NEW x \in Seq(FoundZones), NEW a \in Seq(FoundZones), NEW l, l = Len(x), NEW m, m = Len(a)
  PROVE  /\ x \o a \in Seq(FoundZones) /\ Len(x \o a) = l + m /\ l \in Nat /\ m \in Nat
         /\ DOMAIN (x \o a) = 1 .. l + m
         /\ \A k \in 1 .. l : (x \o a)[k] = x[k]
         /\ \A k \in 1 .. m : (x \o a)[l + k] = a[k]
  OBVIOUS

\* The second and the third part change places.
LEMMA JoinedSwapped ==
  ASSUME NEW x, NEW y, Rearranged(x, y), NEW a, NEW d, Rearranged(a, d), NEW b, NEW c, Rearranged(b, c)
  PROVE  Rearranged((x \o a) \o b, (y \o c) \o d)
  <1> DEFINE l == Len(x)
             m == Len(a)
             p == Len(b)
             n == l + m + p
             s == (x \o a) \o b
             t == (y \o c) \o d
  <1>15. PICK f1, g1 : Matching(f1, g1, x, y)
    BY DEF Rearranged
  <1>1. /\ f1 \in [1 .. l -> 1 .. l] /\ g1 \in [1 .. l -> 1 .. l]
        /\ \A k \in 1 .. l : g1[f1[k]] = k /\ f1[g1[k]] = k /\ y[f1[k]] = MirrorZone(x[k])
    BY <1>15 DEF Matching
  <1>25. PICK f2, g2 : Matching(f2, g2, a, d)
    BY DEF Rearranged
  <1>2. /\ f2 \in [1 .. m -> 1 .. m] /\ g2 \in [1 .. m -> 1 .. m]
        /\ \A k \in 1 .. m : g2[f2[k]] = k /\ f2[g2[k]] = k /\ d[f2[k]] = MirrorZone(a[k])
    BY <1>25 DEF Matching
  <1>35. PICK f3, g3 : Matching(f3, g3, b, c)
    BY DEF Rearranged
  <1>3. /\ f3 \in [1 .. p -> 1 .. p] /\ g3 \in [1 .. p -> 1 .. p]
        /\ \A k \in 1 .. p : g3[f3[k]] = k /\ f3[g3[k]] = k /\ c[f3[k]] = MirrorZone(b[k])
    BY <1>35 DEF Matching
  <1>4. /\ x \in Seq(FoundZones) /\ y \in Seq(FoundZones) /\ l \in Nat /\ Len(y) = l
        /\ a \in Seq(FoundZones) /\ d \in Seq(FoundZones) /\ m \in Nat /\ Len(d) = m
        /\ b \in Seq(FoundZones) /\ c \in Seq(FoundZones) /\ p \in Nat /\ Len(c) = p
        /\ Len(x) = l /\ Len(a) = m /\ Len(b) = p
    BY DEF Rearranged
  <1> HIDE DEF l, m, p
  <1>5. /\ s \in Seq(FoundZones) /\ Len(s) = n /\ n \in Nat /\ DOMAIN s = 1 .. n
        /\ \A k \in 1 .. l : s[k] = x[k]
        /\ \A k \in 1 .. m : s[l + k] = a[k]
        /\ \A k \in 1 .. p : s[l + m + k] = b[k]
    <2> DEFINE w == x \o a
    <2>1. /\ w \in Seq(FoundZones) /\ Len(w) = l + m
          /\ (\A k \in 1 .. l : w[k] = x[k]) /\ \A k \in 1 .. m : w[l + k] = a[k]
      <3> HIDE DEF w, s, t, n
      <3>1. x \in Seq(FoundZones) /\ a \in Seq(FoundZones) /\ l = Len(x) /\ m = Len(a)
        BY <1>4
      <3>2. /\ x \o a \in Seq(FoundZones) /\ Len(x \o a) = l + m
            /\ (\A k \in 1 .. l : (x \o a)[k] = x[k]) /\ \A k \in 1 .. m : (x \o a)[l + k] = a[k]
        BY <3>1, ConcatIs
      <3> QED BY <3>2 DEF w
    <2> DEFINE q == l + m
    <2> HIDE DEF w
    <2>2. q \in Nat /\ q = Len(w)
      BY <1>4, <2>1
    <2>3. s = w \o b
      BY DEF w
    <2> HIDE DEF q, s
    <2>4. /\ w \o b \in Seq(FoundZones) /\ Len(w \o b) = q + p /\ DOMAIN (w \o b) = 1 .. q + p
          /\ (\A k \in 1 .. q : (w \o b)[k] = w[k]) /\ \A k \in 1 .. p : (w \o b)[q + k] = b[k]
      <3>1. w \in Seq(FoundZones) /\ b \in Seq(FoundZones) /\ q = Len(w) /\ p = Len(b)
        BY <1>4, <2>1, <2>2
      <3> QED BY <3>1, ConcatIs
    <2>5. (\A k \in 1 .. l : k \in 1 .. q) /\ \A k \in 1 .. m : l + k \in 1 .. q
      BY <1>4 DEF q
    <2>6. q + p = n
      BY <1>4 DEF q
    <2>7. n \in Nat
      BY <1>4
    <2> HIDE DEF n
    <2>8. \A k \in 1 .. p : s[l + m + k] = b[k]
      BY <2>3, <2>4 DEF q
    <2> QED BY <2>1, <2>3, <2>4, <2>5, <2>6, <2>7, <2>8
  <1>6. /\ t \in Seq(FoundZones) /\ Len(t) = n /\ DOMAIN t = 1 .. n
        /\ \A k \in 1 .. l : t[k] = y[k]
        /\ \A k \in 1 .. p : t[l + k] = c[k]
        /\ \A k \in 1 .. m : t[l + p + k] = d[k]
    <2> DEFINE w == y \o c
    <2>1. /\ w \in Seq(FoundZones) /\ Len(w) = l + p
          /\ (\A k \in 1 .. l : w[k] = y[k]) /\ \A k \in 1 .. p : w[l + k] = c[k]
      <3> HIDE DEF w, s, t, n
      <3>1. y \in Seq(FoundZones) /\ c \in Seq(FoundZones) /\ l = Len(y) /\ p = Len(c)
        BY <1>4
      <3>2. /\ y \o c \in Seq(FoundZones) /\ Len(y \o c) = l + p
            /\ (\A k \in 1 .. l : (y \o c)[k] = y[k]) /\ \A k \in 1 .. p : (y \o c)[l + k] = c[k]
        BY <3>1, ConcatIs
      <3> QED BY <3>2 DEF w
    <2> DEFINE q == l + p
    <2> HIDE DEF w
    <2>2. q \in Nat /\ q = Len(w)
      BY <1>4, <2>1
    <2>3. t = w \o d
      BY DEF w
    <2> HIDE DEF q, t
    <2>4. /\ w \o d \in Seq(FoundZones) /\ Len(w \o d) = q + m /\ DOMAIN (w \o d) = 1 .. q + m
          /\ (\A k \in 1 .. q : (w \o d)[k] = w[k]) /\ \A k \in 1 .. m : (w \o d)[q + k] = d[k]
      <3>1. w \in Seq(FoundZones) /\ d \in Seq(FoundZones) /\ q = Len(w) /\ m = Len(d)
        BY <1>4, <2>1, <2>2
      <3> QED BY <3>1, ConcatIs
    <2>5. (\A k \in 1 .. l : k \in 1 .. q) /\ \A k \in 1 .. p : l + k \in 1 .. q
      BY <1>4 DEF q
    <2>6. q + m = n
      BY <1>4 DEF q
    <2>7. n \in Nat
      BY <1>4
    <2> HIDE DEF n
    <2>8. \A k \in 1 .. m : t[l + p + k] = d[k]
      BY <2>3, <2>4 DEF q
    <2> QED BY <2>1, <2>3, <2>4, <2>5, <2>6, <2>7, <2>8
  <1> DEFINE f == [k \in 1 .. n |-> IF k <= l THEN f1[k] ELSE IF k <= l + m THEN l + p + f2[k - l]
                                   ELSE l + f3[k - l - m]]
             g == [k \in 1 .. n |-> IF k <= l THEN g1[k] ELSE IF k <= l + p THEN l + m + g3[k - l]
                                   ELSE l + g2[k - l - p]]
  <1>14. l \in Nat /\ m \in Nat /\ p \in Nat /\ n \in Nat /\ n = l + m + p
    BY <1>4
  <1> HIDE DEF n, s, t
  <1>7. ASSUME NEW k \in 1 .. n
        PROVE  /\ f[k] \in 1 .. n /\ g[k] \in 1 .. n /\ g[f[k]] = k
               /\ t[f[k]] = MirrorZone(s[k])
    <2>1. CASE k <= l
      <3>1. k \in 1 .. l /\ f[k] = f1[k] /\ f1[k] \in 1 .. l /\ g[k] = g1[k] /\ g1[k] \in 1 .. l
        BY <1>1, <1>14, <2>1
      <3>2. g[f1[k]] = g1[f1[k]]
        BY <1>14, <3>1
      <3>3. t[f1[k]] = y[f1[k]] /\ s[k] = x[k]
        BY <1>5, <1>6, <3>1
      <3> HIDE DEF f, g
      <3>4. f1[k] \in 1 .. n /\ g1[k] \in 1 .. n
        BY <1>14, <3>1
      <3>5. g1[f1[k]] = k /\ y[f1[k]] = MirrorZone(x[k])
        BY <1>1, <3>1
      <3> QED BY <3>1, <3>2, <3>3, <3>4, <3>5
    <2>2. CASE k > l /\ k <= l + m
      <3> DEFINE i == k - l
      <3>1. i \in 1 .. m /\ f[k] = l + p + f2[i] /\ f2[i] \in 1 .. m
        BY <1>2, <1>14, <2>2
      <3>2. g[l + p + f2[i]] = l + g2[f2[i]]
        <4> DEFINE j == f2[i]
        <4>1. j \in 1 .. m
          BY <3>1
        <4> HIDE DEF j
        <4>2. l + p + j \in 1 .. n /\ ~(l + p + j <= l) /\ ~(l + p + j <= l + p) /\ (l + p + j) - l - p = j
          BY <1>14, <4>1
        <4>3. g[l + p + j] = l + g2[j]
          BY <4>2
        <4> QED BY <4>3 DEF j
      <3>3. t[l + p + f2[i]] = d[f2[i]] /\ s[l + i] = a[i]
        BY <1>5, <1>6, <3>1
      <3>4. l + i = k /\ g2[f2[i]] = i /\ d[f2[i]] = MirrorZone(a[i])
        BY <1>2, <1>14, <3>1
      <3>5. g[k] \in 1 .. n
        <4>1. CASE k <= l + p
          <5>1. k - l \in 1 .. p /\ g[k] = l + m + g3[k - l]
            BY <1>14, <2>2, <4>1
          <5>2. g3[k - l] \in 1 .. p
            BY <1>3, <5>1
          <5> DEFINE u == g3[k - l]
          <5> HIDE DEF g, u
          <5>3. l + m + u \in 1 .. n
            BY <1>14, <5>2 DEF u
          <5> QED BY <5>1, <5>3 DEF u
        <4>2. CASE k > l + p
          <5>1. k - l - p \in 1 .. m /\ g[k] = l + g2[k - l - p]
            BY <1>14, <2>2, <4>2
          <5>2. g2[k - l - p] \in 1 .. m
            BY <1>2, <5>1
          <5> DEFINE u == g2[k - l - p]
          <5> HIDE DEF g, u
          <5>3. l + u \in 1 .. n
            BY <1>14, <5>2 DEF u
          <5> QED BY <5>1, <5>3 DEF u
        <4> QED BY <1>14, <4>1, <4>2
      <3> HIDE DEF f, g, i
      <3>6. f[k] \in 1 .. n
        <4> DEFINE u == f2[i]
        <4> HIDE DEF u
        <4>1. l + p + u \in 1 .. n
          BY <1>14, <3>1 DEF u
        <4> QED BY <3>1, <4>1 DEF u
      <3>7. g[f[k]] = k /\ t[f[k]] = MirrorZone(s[k])
        BY <3>1, <3>2, <3>3, <3>4
      <3> QED BY <3>5, <3>6, <3>7
    <2>3. CASE k > l + m
      <3> DEFINE i == k - l - m
      <3>1. i \in 1 .. p /\ f[k] = l + f3[i] /\ f3[i] \in 1 .. p
        BY <1>3, <1>14, <2>3
      <3>2. g[l + f3[i]] = l + m + g3[f3[i]]
        <4> DEFINE j == f3[i]
        <4>1. j \in 1 .. p
          BY <3>1
        <4> HIDE DEF j
        <4>2. l + j \in 1 .. n /\ ~(l + j <= l) /\ l + j <= l + p /\ (l + j) - l = j
          BY <1>14, <4>1
        <4>3. g[l + j] = l + m + g3[j]
          BY <4>2
        <4> QED BY <4>3 DEF j
      <3>3. t[l + f3[i]] = c[f3[i]] /\ s[l + m + i] = b[i]
        BY <1>5, <1>6, <3>1
      <3>4. l + m + i = k /\ g3[f3[i]] = i /\ c[f3[i]] = MirrorZone(b[i])
        BY <1>3, <1>14, <3>1
      <3>5. g[k] \in 1 .. n
        <4>1. CASE k <= l + p
          <5>1. k - l \in 1 .. p /\ g[k] = l + m + g3[k - l]
            BY <1>14, <2>3, <4>1
          <5>2. g3[k - l] \in 1 .. p
            BY <1>3, <5>1
          <5> DEFINE u == g3[k - l]
          <5> HIDE DEF g, u
          <5>3. l + m + u \in 1 .. n
            BY <1>14, <5>2 DEF u
          <5> QED BY <5>1, <5>3 DEF u
        <4>2. CASE k > l + p
          <5>1. k - l - p \in 1 .. m /\ g[k] = l + g2[k - l - p]
            BY <1>14, <2>3, <4>2
          <5>2. g2[k - l - p] \in 1 .. m
            BY <1>2, <5>1
          <5> DEFINE u == g2[k - l - p]
          <5> HIDE DEF g, u
          <5>3. l + u \in 1 .. n
            BY <1>14, <5>2 DEF u
          <5> QED BY <5>1, <5>3 DEF u
        <4> QED BY <1>14, <4>1, <4>2
      <3> HIDE DEF f, g, i
      <3>6. f[k] \in 1 .. n
        <4> DEFINE u == f3[i]
        <4> HIDE DEF u
        <4>1. l + u \in 1 .. n
          BY <1>14, <3>1 DEF u
        <4> QED BY <3>1, <4>1 DEF u
      <3>7. g[f[k]] = k /\ t[f[k]] = MirrorZone(s[k])
        BY <3>1, <3>2, <3>3, <3>4
      <3> QED BY <3>5, <3>6, <3>7
    <2> QED BY <1>14, <2>1, <2>2, <2>3
  <1>8. ASSUME NEW k \in 1 .. n PROVE f[g[k]] = k
    <2>1. CASE k <= l
      <3>1. k \in 1 .. l /\ g[k] = g1[k] /\ g1[k] \in 1 .. l
        BY <1>1, <1>14, <2>1
      <3>2. f[g1[k]] = f1[g1[k]]
        BY <1>14, <3>1
      <3> HIDE DEF f, g
      <3> QED BY <1>1, <3>1, <3>2
    <2>2. CASE k > l /\ k <= l + p
      <3> DEFINE i == k - l
                 j == g3[i]
      <3>1. i \in 1 .. p /\ g[k] = l + m + j /\ j \in 1 .. p
        BY <1>3, <1>14, <2>2
      <3>2. f3[j] = i /\ l + i = k
        BY <1>3, <1>14, <3>1
      <3> HIDE DEF j, i
      <3>3. l + m + j \in 1 .. n /\ ~(l + m + j <= l) /\ ~(l + m + j <= l + m) /\ (l + m + j) - l - m = j
        BY <1>14, <3>1
      <3>4. f[l + m + j] = l + f3[j]
        BY <3>3
      <3> HIDE DEF f, g
      <3> QED BY <3>1, <3>2, <3>4
    <2>3. CASE k > l + p
      <3> DEFINE i == k - l - p
                 j == g2[i]
      <3>1. i \in 1 .. m /\ g[k] = l + j /\ j \in 1 .. m
        BY <1>2, <1>14, <2>3
      <3>2. f2[j] = i /\ l + p + i = k
        BY <1>2, <1>14, <3>1
      <3> HIDE DEF j, i
      <3>3. l + j \in 1 .. n /\ ~(l + j <= l) /\ l + j <= l + m /\ (l + j) - l = j
        BY <1>14, <3>1
      <3>4. f[l + j] = l + p + f2[j]
        BY <3>3
      <3> HIDE DEF f, g
      <3> QED BY <3>1, <3>2, <3>4
    <2> QED BY <1>14, <2>1, <2>2, <2>3
  <1>9. f \in [1 .. n -> 1 .. n] /\ g \in [1 .. n -> 1 .. n]
    <2>1. f = [k \in 1 .. n |-> f[k]] /\ g = [k \in 1 .. n |-> g[k]]
      OBVIOUS
    <2> HIDE DEF f, g
    <2> QED BY <1>7, <2>1
  <1>10. \A k \in 1 .. n : g[f[k]] = k /\ f[g[k]] = k /\ t[f[k]] = MirrorZone(s[k])
    BY <1>7, <1>8
  <1> HIDE DEF f, g
  <1>12. Matching(f, g, s, t)
    BY <1>5, <1>9, <1>10 DEF Matching
  <1>11. Rearranged(s, t)
    BY <1>5, <1>6, <1>12 DEF Rearranged
  <1> QED BY <1>11 DEF s, t

LEMMA JoinedZones ==
  ASSUME NEW x, NEW y, Rearranged(x, y), NEW a, NEW d, Rearranged(a, d)
  PROVE  Rearranged(x \o a, y \o d)
  <1>1. x \in Seq(FoundZones) /\ y \in Seq(FoundZones) /\ a \in Seq(FoundZones) /\ d \in Seq(FoundZones)
    BY DEF Rearranged
  <1> DEFINE e == <<>>
  <1>2. (x \o a) \o e = x \o a /\ (y \o e) \o d = y \o d
    BY <1>1
  <1>3. Rearranged(e, e)
    BY NoZones
  <1> HIDE DEF e
  <1>4. Rearranged((x \o a) \o e, (y \o e) \o d)
    BY <1>3, JoinedSwapped
  <1> QED BY <1>2, <1>4

\* The elements of D in an order o, and the place r of each.
Places(o, r, D, n) ==
  /\ n \in Nat /\ o \in [1 .. n -> D] /\ r \in [D -> 1 .. n]
  /\ \A x \in D : o[r[x]] = x
  /\ \A k \in 1 .. n : r[o[k]] = k

\* m leads from D to E, and w back.
Across(m, w, D, E) ==
  /\ m \in [D -> E] /\ w \in [E -> D]
  /\ \A x \in D : w[m[x]] = x
  /\ \A y \in E : m[w[y]] = y

LEMMA CountUpTo ==
  ASSUME NEW n \in Nat
  PROVE  IsFiniteSet(1 .. n) /\ Cardinality(1 .. n) = n
  BY FS_Interval

LEMMA SameMany ==
  ASSUME NEW n \in Nat, NEW p \in Nat, NEW f \in [1 .. n -> 1 .. p], NEW g \in [1 .. p -> 1 .. n],
         \A k \in 1 .. n : g[f[k]] = k, \A j \in 1 .. p : f[g[j]] = j
  PROVE  n = p
  <1>1. f \in Bijection(1 .. n, 1 .. p)
    <2>1. \A a, b \in 1 .. n : f[a] = f[b] => a = b
      OBVIOUS
    <2>2. \A j \in 1 .. p : \E k \in 1 .. n : f[k] = j
      OBVIOUS
    <2>3. f \in Injection(1 .. n, 1 .. p)
      BY <2>1 DEF Injection, IsInjective
    <2>4. f \in Surjection(1 .. n, 1 .. p)
      BY <2>2 DEF Surjection
    <2> QED BY <2>3, <2>4 DEF Bijection
  <1>2. IsFiniteSet(1 .. n) /\ Cardinality(1 .. n) = n
    BY FS_Interval
  <1>3. IsFiniteSet(1 .. p) /\ Cardinality(1 .. p) = p
    BY FS_Interval
  <1>4. Cardinality(1 .. n) = Cardinality(1 .. p)
    BY <1>1, <1>2, FS_Bijection DEF ExistsBijection
  <1> QED BY <1>2, <1>3, <1>4

\* The zones X listed in an order, and those of the other market, Y.
InOrder(s, X, o, n) == s = [k \in 1 .. n |-> X[o[k]]]
ZonesAcross(X, Y, m, D) == \A d \in D : X[d] \in FoundZones /\ Y[m[d]] = MirrorZone(X[d])

LEMMA Reordered ==
  ASSUME NEW D, NEW E, NEW n, NEW p, NEW o, NEW r, Places(o, r, D, n), NEW q, NEW u, Places(q, u, E, p),
         NEW m, NEW w, Across(m, w, D, E), NEW X, NEW Y,
         ZonesAcross(X, Y, m, D), NEW s, InOrder(s, X, o, n), NEW t, InOrder(t, Y, q, p)
  PROVE  Rearranged(s, t)
  <1> DEFINE f == [k \in 1 .. n |-> u[m[o[k]]]]
             g == [k \in 1 .. p |-> r[w[q[k]]]]
  <1>1. /\ n \in Nat /\ o \in [1 .. n -> D] /\ r \in [D -> 1 .. n]
        /\ \A x \in D : o[r[x]] = x
        /\ \A k \in 1 .. n : r[o[k]] = k
    BY DEF Places
  <1>2. /\ p \in Nat /\ q \in [1 .. p -> E] /\ u \in [E -> 1 .. p]
        /\ \A x \in E : q[u[x]] = x
        /\ \A k \in 1 .. p : u[q[k]] = k
    BY DEF Places
  <1>3. /\ m \in [D -> E] /\ w \in [E -> D]
        /\ \A x \in D : w[m[x]] = x
        /\ \A y \in E : m[w[y]] = y
    BY DEF Across
  <1>4. f \in [1 .. n -> 1 .. p] /\ g \in [1 .. p -> 1 .. n]
    BY <1>1, <1>2, <1>3
  <1>12. s = [k \in 1 .. n |-> X[o[k]]] /\ t = [k \in 1 .. p |-> Y[q[k]]]
    BY DEF InOrder
  <1>13. \A d \in D : X[d] \in FoundZones /\ Y[m[d]] = MirrorZone(X[d])
    BY DEF ZonesAcross
  <1>5. ASSUME NEW k \in 1 .. n PROVE g[f[k]] = k /\ t[f[k]] = MirrorZone(s[k])
    <2>1. o[k] \in D /\ m[o[k]] \in E /\ f[k] = u[m[o[k]]] /\ f[k] \in 1 .. p
      BY <1>1, <1>2, <1>3
    <2>2. q[f[k]] = m[o[k]]
      BY <1>2, <2>1
    <2>3. g[f[k]] = r[w[q[f[k]]]] /\ t[f[k]] = Y[q[f[k]]]
      BY <1>12, <2>1
    <2>4. s[k] = X[o[k]]
      BY <1>12
    <2> HIDE DEF f, g
    <2>5. g[f[k]] = k
      BY <1>1, <1>3, <2>1, <2>2, <2>3
    <2>6. t[f[k]] = MirrorZone(s[k])
      BY <1>13, <2>1, <2>2, <2>3, <2>4
    <2> QED BY <2>5, <2>6
  <1>6. ASSUME NEW j \in 1 .. p PROVE f[g[j]] = j /\ t[j] \in FoundZones
    <2>1. q[j] \in E /\ w[q[j]] \in D /\ g[j] = r[w[q[j]]] /\ g[j] \in 1 .. n
      BY <1>1, <1>2, <1>3
    <2>2. o[g[j]] = w[q[j]]
      BY <1>1, <2>1
    <2>3. f[g[j]] = u[m[o[g[j]]]]
      BY <2>1
    <2>4. m[w[q[j]]] = q[j] /\ t[j] = Y[q[j]]
      BY <1>3, <1>12, <2>1
    <2> HIDE DEF f, g
    <2>5. f[g[j]] = j
      BY <1>2, <2>2, <2>3, <2>4
    <2>6. t[j] = MirrorZone(X[w[q[j]]]) /\ X[w[q[j]]] \in FoundZones
      BY <1>13, <2>1, <2>4
    <2> QED BY <2>5, <2>6, MirrorBack
  <1>7. \A k \in 1 .. n : s[k] \in FoundZones
    BY <1>1, <1>12, <1>13
  <1> HIDE DEF f, g
  <1>14. n \in Nat /\ p \in Nat
    BY <1>1, <1>2
  <1>15. (\A k \in 1 .. n : g[f[k]] = k) /\ \A j \in 1 .. p : f[g[j]] = j
    BY <1>5, <1>6
  <1>8. n = p
    BY <1>4, <1>14, <1>15, SameMany
  <1>9. s \in [1 .. n -> FoundZones] /\ t \in [1 .. n -> FoundZones]
    BY <1>6, <1>7, <1>8, <1>12
  <1>10. /\ s \in Seq(FoundZones) /\ t \in Seq(FoundZones) /\ Len(s) = n /\ Len(t) = n
         /\ DOMAIN s = 1 .. n /\ DOMAIN t = 1 .. n
    BY <1>9, <1>14
  <1>11. Matching(f, g, s, t)
    BY <1>4, <1>5, <1>6, <1>8, <1>10 DEF Matching
  <1> QED BY <1>10, <1>11, <1>14 DEF Rearranged

LEMMA AscendingPlaces ==
  ASSUME NEW S, IsFiniteSet(S), S \subseteq Int
  PROVE  \E r : Places(Ascending(S), r, S, Cardinality(S))
  <1> DEFINE n == Cardinality(S)
             o == Ascending(S)
             R == {p \in S \X S : p[1] < p[2]}
  <1>1. o = Sorted(S, R) /\ n = Cardinality(S)
    BY DEF Ascending
  <1>2. StrictOrder(R, S)
    <2>1. \A x, y \in S : <<x, y>> \in R <=> x < y
      OBVIOUS
    <2> HIDE DEF R
    <2> QED BY <2>1 DEF StrictOrder
  <1> HIDE DEF n, o, R
  <1>3. /\ n \in Nat /\ o \in [1 .. n -> S]
        /\ \E r \in [S -> 1 .. n] : /\ \A x \in S : o[r[x]] = x
                                    /\ \A k \in 1 .. n : r[o[k]] = k
    BY <1>1, <1>2, SortedIs
  <1>4. PICK r \in [S -> 1 .. n] : (\A x \in S : o[r[x]] = x) /\ \A k \in 1 .. n : r[o[k]] = k
    BY <1>3
  <1>5. Places(o, r, S, n)
    BY <1>3, <1>4 DEF Places
  <1> QED BY <1>5 DEF n, o

\* Zones by numbers, the numbers of the one turned to those of the other.
LEMMA ListedMirrored ==
  ASSUME NEW D, IsFiniteSet(D), D \subseteq Int, NEW E, IsFiniteSet(E), E \subseteq Int,
         NEW m, NEW w, Across(m, w, D, E), NEW X, DOMAIN X = D, NEW Y, DOMAIN Y = E, ZonesAcross(X, Y, m, D)
  PROVE  Rearranged(ZonesOf(X), ZonesOf(Y))
  <1> DEFINE n == Cardinality(D)
             p == Cardinality(E)
             o == Ascending(D)
             q == Ascending(E)
             s == ZonesOf(X)
             t == ZonesOf(Y)
  <1>1. PICK r : Places(o, r, D, n)
    BY AscendingPlaces
  <1>2. PICK u : Places(q, u, E, p)
    BY AscendingPlaces
  <1>3. o \in [1 .. n -> D] /\ q \in [1 .. p -> E]
    BY <1>1, <1>2 DEF Places
  <1>4. s = [k \in DOMAIN o |-> X[o[k]]] /\ t = [k \in DOMAIN q |-> Y[q[k]]]
    BY DEF ZonesOf
  <1> HIDE DEF n, p, o, q, s, t
  <1>5. InOrder(s, X, o, n) /\ InOrder(t, Y, q, p)
    BY <1>3, <1>4 DEF InOrder
  <1>6. Rearranged(s, t)
    BY <1>1, <1>2, <1>5, Reordered
  <1> QED BY <1>6 DEF s, t

\* Put in the order of their strength, a list has the zones it had.
LEMMA StrengthPlaces ==
  ASSUME NEW s \in Seq(FoundZones), NEW n, n = Len(s)
  PROVE  \E o, r : Places(o, r, 1 .. n, n) /\ InOrder(ByStrength(s), s, o, n)
  <1> DEFINE all == DOMAIN s
             R == {p \in all \X all :
                     \/ s[p[1]].strength > s[p[2]].strength
                     \/ s[p[1]].strength = s[p[2]].strength /\ p[1] < p[2]}
             o == Sorted(all, R)
  <1>1. n \in Nat /\ all = 1 .. n /\ \A k \in 1 .. n : s[k].strength \in Int
    <2>1. n \in Nat /\ all = 1 .. n /\ \A k \in 1 .. n : s[k] \in FoundZones
      OBVIOUS
    <2>2. \A z \in FoundZones : z.strength \in Int
      BY DEF FoundZones
    <2> HIDE DEF all
    <2> QED BY <2>1, <2>2
  <1>2. ByStrength(s) = [k \in all |-> s[o[k]]]
    BY DEF ByStrength
  <1> DEFINE h == [k \in 1 .. n |-> s[k].strength]
  <1>3. h \in [1 .. n -> Int]
    BY <1>1
  <1>4. \A x, y \in all : <<x, y>> \in R <=> (h[x] > h[y] \/ (h[x] = h[y] /\ x < y))
    BY <1>1
  <1> HIDE DEF all, R, h
  <1>5. StrictOrder(R, all)
    <2>1. \A x \in all : <<x, x>> \notin R
      BY <1>1, <1>3, <1>4
    <2>2. ASSUME NEW x \in all, NEW y \in all
          PROVE  x = y \/ <<x, y>> \in R \/ <<y, x>> \in R
      <3> DEFINE a == h[x]
                 b == h[y]
      <3>1. a \in Int /\ b \in Int /\ x \in Int /\ y \in Int
        BY <1>1, <1>3
      <3> HIDE DEF a, b
      <3>2. x = y \/ (a > b \/ (a = b /\ x < y)) \/ (b > a \/ (b = a /\ y < x))
        BY <3>1
      <3> QED BY <1>4, <3>2 DEF a, b
    <2>3. ASSUME NEW x \in all, NEW y \in all, NEW z \in all, <<x, y>> \in R, <<y, z>> \in R
          PROVE  <<x, z>> \in R
      <3>1. h[x] \in Int /\ h[y] \in Int /\ h[z] \in Int /\ x \in Int /\ y \in Int /\ z \in Int
        BY <1>1, <1>3
      <3>2. (h[x] > h[y] \/ (h[x] = h[y] /\ x < y)) /\ (h[y] > h[z] \/ (h[y] = h[z] /\ y < z))
        BY <1>4, <2>3
      <3> DEFINE a == h[x]
                 b == h[y]
                 c == h[z]
      <3> HIDE DEF a, b, c
      <3>3. a > c \/ (a = c /\ x < z)
        BY <3>1, <3>2 DEF a, b, c
      <3> QED BY <1>4, <3>3 DEF a, c
    <2> QED BY <2>1, <2>2, <2>3 DEF StrictOrder
  <1>6. IsFiniteSet(all) /\ Cardinality(all) = n
    <2>2. n \in Nat
      BY <1>1
    <2>1. IsFiniteSet(1 .. n) /\ Cardinality(1 .. n) = n
      BY <2>2, CountUpTo
    <2> QED BY <1>1, <2>1
  <1>7. o \in [1 .. n -> all]
    BY <1>5, <1>6, SortedIs
  <1>8. PICK r \in [all -> 1 .. n] : (\A x \in all : o[r[x]] = x) /\ \A k \in 1 .. n : r[o[k]] = k
    BY <1>5, <1>6, SortedIs
  <1> HIDE DEF o
  <1>9. Places(o, r, 1 .. n, n) /\ InOrder(ByStrength(s), s, o, n)
    BY <1>1, <1>2, <1>7, <1>8 DEF Places, InOrder
  <1> QED BY <1>9

LEMMA StrengthMirrored ==
  ASSUME NEW s, NEW t, Rearranged(s, t)
  PROVE  Rearranged(ByStrength(s), ByStrength(t)) /\ Len(ByStrength(s)) = Len(s)
  <1> DEFINE n == Len(s)
             a == ByStrength(s)
             b == ByStrength(t)
  <1>1. /\ s \in Seq(FoundZones) /\ t \in Seq(FoundZones) /\ n \in Nat /\ Len(t) = n
        /\ DOMAIN s = 1 .. n /\ DOMAIN t = 1 .. n
    BY DEF Rearranged
  <1>2. PICK f, g : Matching(f, g, s, t)
    BY DEF Rearranged
  <1>3. Across(f, g, 1 .. n, 1 .. n) /\ \A k \in 1 .. n : t[f[k]] = MirrorZone(s[k])
    BY <1>2 DEF Matching, Across
  <1>4. PICK o, r : Places(o, r, 1 .. n, n) /\ InOrder(a, s, o, n)
    BY <1>1, StrengthPlaces
  <1>5. PICK q, u : Places(q, u, 1 .. n, n) /\ InOrder(b, t, q, n)
    BY <1>1, StrengthPlaces
  <1> HIDE DEF n, a, b
  <1>6. ZonesAcross(s, t, f, 1 .. n)
    BY <1>1, <1>3 DEF ZonesAcross
  <1>7. Rearranged(a, b)
    BY <1>3, <1>4, <1>5, <1>6, Reordered
  <1>8. Len(a) = n
    <2>1. o \in [1 .. n -> 1 .. n]
      BY <1>4 DEF Places
    <2>2. a \in [1 .. n -> FoundZones]
      BY <1>1, <1>4, <2>1 DEF InOrder
    <2> QED BY <1>1, <2>2
  <1> QED BY <1>7, <1>8 DEF a, b, n

\* The stretches of bars are the same ones.
LEMMA SameStretches ==
  ASSUME NEW B, NEW C, Capsized(B, C)
  PROVE  /\ Last(B) = B[Len(B)] /\ Last(C) = C[Len(B)] /\ Today(C) = Today(B)
         /\ \A hours : InHours(C, hours) = InHours(B, hours) /\ InHours(B, hours) \subseteq 1 .. Len(B)
         /\ DayBefore(C) = DayBefore(B) /\ DayBefore(B) \subseteq 1 .. Len(B)
         /\ Week(C) = Week(B) /\ Week(B) \subseteq 1 .. Len(B)
  <1> DEFINE n == Len(B)
  <1>1. /\ n \in Nat /\ n >= 2 /\ Len(C) = n /\ DOMAIN B = 1 .. n /\ DOMAIN C = 1 .. n
        /\ \A i \in 1 .. n : C[i].day = B[i].day /\ C[i].hour = B[i].hour
    BY DEF Capsized
  <1> HIDE DEF n
  <1>2. Last(B) = B[n] /\ Last(C) = C[n]
    BY <1>1 DEF Last, n
  <1>3. n \in 1 .. n
    BY <1>1
  <1>4. Today(C) = Today(B)
    BY <1>1, <1>2, <1>3 DEF Today
  <1>5. Earlier(C) = Earlier(B) /\ Earlier(B) \subseteq 1 .. n
    BY <1>1, <1>4 DEF Earlier
  <1>6. ASSUME NEW hours PROVE InHours(C, hours) = InHours(B, hours) /\ InHours(B, hours) \subseteq 1 .. n
    BY <1>1, <1>4 DEF InHours
  <1>7. DayBefore(C) = DayBefore(B) /\ DayBefore(B) \subseteq 1 .. n
    BY <1>1, <1>5 DEF DayBefore
  <1>8. Week(C) = Week(B) /\ Week(B) \subseteq 1 .. n
    BY <1>1, <1>4, <1>5 DEF Week
  <1> QED BY <1>2, <1>4, <1>6, <1>7, <1>8 DEF n

LEMMA PairMirrored ==
  ASSUME NEW a \in FoundZones, NEW b \in FoundZones
  PROVE  Rearranged(<<a, b>>, <<MirrorZone(b), MirrorZone(a)>>)
  <1> DEFINE c == MirrorZone(b)
             d == MirrorZone(a)
             s == <<a, b>>
             t == <<c, d>>
             f == [k \in 1 .. 2 |-> 3 - k]
  <1>1. c \in FoundZones /\ d \in FoundZones
    BY MirrorBack
  <1>2. c = MirrorZone(b) /\ d = MirrorZone(a)
    OBVIOUS
  <1> HIDE DEF c, d
  <1>3. /\ s \in Seq(FoundZones) /\ t \in Seq(FoundZones) /\ Len(s) = 2 /\ Len(t) = 2
        /\ DOMAIN s = 1 .. 2 /\ DOMAIN t = 1 .. 2
        /\ s[1] = a /\ s[2] = b /\ t[1] = c /\ t[2] = d
    BY <1>1
  <1> HIDE DEF s, t
  <1>4. f \in [1 .. 2 -> 1 .. 2] /\ f[1] = 2 /\ f[2] = 1
    OBVIOUS
  <1> HIDE DEF f
  <1>5. \A k \in 1 .. 2 : k = 1 \/ k = 2
    OBVIOUS
  <1>6. Matching(f, f, s, t)
    BY <1>2, <1>3, <1>4, <1>5 DEF Matching
  <1>7. Rearranged(s, t)
    BY <1>3, <1>6 DEF Rearranged
  <1> QED BY <1>7 DEF s, t, c, d

LEMMA EndsMirrored ==
  ASSUME NEW B, NEW C, Capsized(B, C), NEW at, at \subseteq 1 .. Len(B), NEW strength \in Int,
         NEW high \in ZoneKinds, NEW low \in ZoneKinds, Flip(high) = low, Flip(low) = high
  PROVE  Rearranged(Ends(B, at, high, low, strength), Ends(C, at, high, low, strength))
  <1>1. CASE at = {}
    <2>1. Ends(B, at, high, low, strength) = <<>> /\ Ends(C, at, high, low, strength) = <<>>
      BY <1>1 DEF Ends
    <2> QED BY <2>1, NoZones
  <1>2. CASE at # {}
    <2> DEFINE x == Max(Highs(B, at))
               y == Min(Lows(B, at))
               u == Max(Highs(C, at))
               v == Min(Lows(C, at))
               a == Zone(x, high, strength)
               b == Zone(y, low, strength)
               c == Zone(u, high, strength)
               d == Zone(v, low, strength)
    <2>1. u = 50 - y /\ v = 50 - x /\ x \in Int /\ y \in Int
      BY <1>2, EndsTurned
    <2>2. Ends(B, at, high, low, strength) = <<a, b>> /\ Ends(C, at, high, low, strength) = <<c, d>>
      BY <1>2 DEF Ends
    <2> HIDE DEF x, y, u, v
    <2>3. a \in FoundZones /\ b \in FoundZones
      BY <2>1 DEF Zone, FoundZones
    <2>4. c = MirrorZone(b)
      <3>1. MirrorZone(b) = Zone(50 - y, Flip(low), strength)
        BY ZoneMirrored
      <3> QED BY <2>1, <3>1
    <2>5. d = MirrorZone(a)
      <3>1. MirrorZone(a) = Zone(50 - x, Flip(high), strength)
        BY ZoneMirrored
      <3> QED BY <2>1, <3>1
    <2> HIDE DEF a, b, c, d
    <2>6. Rearranged(<<a, b>>, <<MirrorZone(b), MirrorZone(a)>>)
      BY <2>3, PairMirrored
    <2> QED BY <2>2, <2>4, <2>5, <2>6
  <1> QED BY <1>1, <1>2

\* A level is reached by the bars that reach it in the other market.
LEMMA ReachedTurned ==
  ASSUME NEW B, NEW C, Capsized(B, C), NEW p \in Int
  PROVE  /\ LevelReached(C, 50 - p) = LevelReached(B, p)
         /\ LevelReached(B, p) \subseteq 1 .. Len(B)
         /\ IsFiniteSet(LevelReached(B, p)) /\ Cardinality(LevelReached(B, p)) \in Nat
  <1>1. /\ DOMAIN B = 1 .. Len(B) /\ DOMAIN C = 1 .. Len(B) /\ Len(B) \in Nat
        /\ \A i \in 1 .. Len(B) : /\ B[i].high \in Int /\ B[i].low \in Int
                                  /\ C[i].high = 50 - B[i].low /\ C[i].low = 50 - B[i].high
    BY DEF Capsized, HourBar
  <1>2. LevelReached(B, p) \subseteq 1 .. Len(B)
    BY <1>1 DEF LevelReached
  <1>3. LevelReached(C, 50 - p) = LevelReached(B, p)
    <2>1. ASSUME NEW i \in 1 .. Len(B)
          PROVE  (C[i].low - 2 <= 50 - p /\ 50 - p <= C[i].high + 2) <=> (B[i].low - 2 <= p /\ p <= B[i].high + 2)
      <3> DEFINE h == B[i].high
                 l == B[i].low
      <3>1. h \in Int /\ l \in Int /\ C[i].high = 50 - l /\ C[i].low = 50 - h
        BY <1>1
      <3> HIDE DEF h, l
      <3>2. (50 - h - 2 <= 50 - p /\ 50 - p <= 50 - l + 2) <=> (l - 2 <= p /\ p <= h + 2)
        BY <3>1
      <3> QED BY <3>1, <3>2 DEF h, l
    <2> QED BY <1>1, <2>1 DEF LevelReached
  <1>4. IsFiniteSet(LevelReached(B, p))
    <2>1. IsFiniteSet(1 .. Len(B))
      BY <1>1, CountUpTo
    <2>2. LevelReached(B, p) \in SUBSET (1 .. Len(B))
      BY <1>2
    <2> QED BY <2>1, <2>2, FS_Subset
  <1>5. Cardinality(LevelReached(B, p)) \in Nat
    BY <1>4, FS_CardinalityType
  <1> QED BY <1>2, <1>3, <1>4, <1>5

\* Zones by their own levels.
LEMMA LevelsListed ==
  ASSUME NEW D, IsFiniteSet(D), D \in SUBSET Int, NEW E, E = {50 - p : p \in D}, NEW X, DOMAIN X = D,
         NEW Y, DOMAIN Y = E, \A p \in D : X[p] \in FoundZones, \A p \in D : Y[50 - p] = MirrorZone(X[p])
  PROVE  Rearranged(ZonesOf(X), ZonesOf(Y))
  <1> DEFINE m == [p \in D |-> 50 - p]
             w == [p \in E |-> 50 - p]
  <1>1. /\ \A p \in D : p \in Int /\ 50 - p \in E /\ 50 - (50 - p) = p
        /\ \A q \in E : q \in Int /\ 50 - q \in D /\ 50 - (50 - q) = q
    <2>1. \A p \in D : p \in Int /\ 50 - p \in E /\ 50 - (50 - p) = p
      OBVIOUS
    <2>2. ASSUME NEW q \in E PROVE q \in Int /\ 50 - q \in D /\ 50 - (50 - q) = q
      <3>1. PICK p \in D : q = 50 - p
        OBVIOUS
      <3>2. p \in Int
        OBVIOUS
      <3>3. q \in Int /\ 50 - q = p /\ 50 - (50 - q) = q
        BY <3>1, <3>2
      <3> QED BY <3>3
    <2> QED BY <2>1, <2>2
  <1>2. Across(m, w, D, E)
    <2>1. m \in [D -> E] /\ w \in [E -> D]
      BY <1>1
    <2>2. \A x \in D : w[m[x]] = x
      BY <1>1
    <2>3. \A y \in E : m[w[y]] = y
      BY <1>1
    <2> HIDE DEF m, w
    <2> QED BY <2>1, <2>2, <2>3 DEF Across
  <1>3. m \in Surjection(D, E)
    <2>1. m \in [D -> E] /\ \A y \in E : \E x \in D : m[x] = y
      BY <1>1
    <2> HIDE DEF m
    <2> QED BY <2>1 DEF Surjection
  <1>4. ZonesAcross(X, Y, m, D)
    BY DEF ZonesAcross
  <1>5. E \subseteq Int /\ D \subseteq Int
    BY <1>1
  <1> HIDE DEF m, w
  <1>6. IsFiniteSet(E)
    BY <1>3, FS_Surjection
  <1> QED BY <1>2, <1>4, <1>5, <1>6, ListedMirrored

\* What division by fifty makes of a level turned.
LEMMA FiftiesTurned ==
  ASSUME NEW x \in Int
  PROVE  (50 - x) \div 50 = 1 - ((x + 49) \div 50) /\ (99 - x) \div 50 = 1 - (x \div 50)
         /\ x \div 50 \in Int /\ (x + 49) \div 50 \in Int
  OBVIOUS

LEMMA PsychologicalMirrored ==
  ASSUME NEW B, NEW C, Capsized(B, C)
  PROVE  Rearranged(Psychological(B), Psychological(C))
  <1> DEFINE all == 1 .. Len(B)
             hi == Max(Highs(B, all))
             lo == Min(Lows(B, all))
             a == lo \div 50
             b == (hi + 49) \div 50
             Round == {50 * k : k \in a .. b}
             D == {p \in Round : Cardinality(LevelReached(B, p)) >= 2}
             E == {p \in {50 * k : k \in (1 - b) .. (1 - a)} : Cardinality(LevelReached(C, p)) >= 2}
             X == [p \in D |-> Zone(p, "psychological", Min({270, 150 + 30 * (Cardinality(LevelReached(B, p)) - 1)}))]
             Y == [p \in E |-> Zone(p, "psychological", Min({270, 150 + 30 * (Cardinality(LevelReached(C, p)) - 1)}))]
  <1>1. DOMAIN B = all /\ DOMAIN C = all /\ 1 \in all
    BY DEF Capsized
  <1>2. Max(Highs(C, all)) = 50 - lo /\ Min(Lows(C, all)) = 50 - hi /\ hi \in Int /\ lo \in Int
    <2>1. all \subseteq 1 .. Len(B) /\ all # {}
      BY <1>1
    <2> HIDE DEF all
    <2> QED BY <2>1, EndsTurned
  <1>3. Psychological(B) = ZonesOf(X)
    BY <1>1 DEF Psychological
  <1> HIDE DEF hi, lo
  <1>4. (50 - hi) \div 50 = 1 - b /\ (50 - lo + 49) \div 50 = 1 - a /\ a \in Int /\ b \in Int
    <2>1. 50 - lo + 49 = 99 - lo
      BY <1>2
    <2> QED BY <1>2, <2>1, FiftiesTurned
  <1>5. Psychological(C) = ZonesOf(Y)
    <2> DEFINE u == Min(Lows(C, all))
               v == Max(Highs(C, all))
               Z == {p \in {50 * k : k \in (u \div 50) .. ((v + 49) \div 50)} : Cardinality(LevelReached(C, p)) >= 2}
    <2>1. Psychological(C) = ZonesOf([p \in Z |->
             Zone(p, "psychological", Min({270, 150 + 30 * (Cardinality(LevelReached(C, p)) - 1)}))])
      BY <1>1 DEF Psychological
    <2>2. u = 50 - hi /\ v = 50 - lo
      BY <1>2
    <2> HIDE DEF u, v, a, b
    <2>3. u \div 50 = 1 - b /\ (v + 49) \div 50 = 1 - a
      BY <1>4, <2>2
    <2>4. Z = E
      BY <2>3
    <2> HIDE DEF Z, E
    <2> QED BY <2>1, <2>4
  <1> HIDE DEF a, b
  <1>6. IsFiniteSet(D) /\ D \in SUBSET Int
    <2> DEFINE f == [k \in a .. b |-> 50 * k]
    <2>1. f \in Surjection(a .. b, Round)
      <3>1. f \in [a .. b -> Round] /\ \A y \in Round : \E k \in a .. b : f[k] = y
        OBVIOUS
      <3> HIDE DEF f, Round
      <3> QED BY <3>1 DEF Surjection
    <2>2. Round \in SUBSET Int
      BY <1>4
    <2>3. D \in SUBSET Round
      OBVIOUS
    <2> HIDE DEF f, Round, D
    <2>4. IsFiniteSet(a .. b)
      BY <1>4, FS_Interval
    <2>5. IsFiniteSet(Round)
      BY <2>1, <2>4, FS_Surjection
    <2>6. IsFiniteSet(D)
      BY <2>3, <2>5, FS_Subset
    <2> QED BY <2>2, <2>3, <2>6
  <1>7. ASSUME NEW p \in Int
        PROVE  (\E k \in a .. b : p = 50 * k) <=> \E k \in (1 - b) .. (1 - a) : 50 - p = 50 * k
    <2>1. ASSUME NEW k \in a .. b, p = 50 * k
          PROVE  1 - k \in (1 - b) .. (1 - a) /\ 50 - p = 50 * (1 - k)
      BY <1>4, <2>1
    <2>2. ASSUME NEW k \in (1 - b) .. (1 - a), 50 - p = 50 * k
          PROVE  1 - k \in a .. b /\ p = 50 * (1 - k)
      BY <1>4, <2>2
    <2> QED BY <2>1, <2>2
  <1>8. E = {50 - p : p \in D}
    <2>1. \A p \in Int : p \in D <=> (\E k \in a .. b : p = 50 * k) /\ Cardinality(LevelReached(B, p)) >= 2
      OBVIOUS
    <2>2. \A p \in Int : p \in E <=> (\E k \in (1 - b) .. (1 - a) : p = 50 * k) /\ Cardinality(LevelReached(C, p)) >= 2
      OBVIOUS
    <2>3. E \subseteq Int /\ D \subseteq Int
      BY <1>4
    <2> HIDE DEF D, E
    <2>4. \A p \in Int : LevelReached(C, 50 - p) = LevelReached(B, p)
      BY ReachedTurned
    <2>5. \A p \in Int : p \in D <=> 50 - p \in E
      BY <1>7, <2>1, <2>2, <2>4
    <2>6. \A q \in E : 50 - q \in D /\ q = 50 - (50 - q)
      <3> TAKE q \in E
      <3>1. q \in Int /\ 50 - q \in Int /\ 50 - (50 - q) = q
        BY <2>3
      <3> QED BY <2>5, <3>1
    <2>7. \A p \in D : 50 - p \in E
      BY <2>3, <2>5
    <2> QED BY <2>6, <2>7
  <1>9. ASSUME NEW p \in D PROVE X[p] \in FoundZones /\ Y[50 - p] = MirrorZone(X[p])
    <2> DEFINE c == Cardinality(LevelReached(B, p))
               s == Min({270, 150 + 30 * (c - 1)})
    <2>1. p \in Int
      BY <1>6
    <2>2. c \in Nat /\ LevelReached(C, 50 - p) = LevelReached(B, p)
      BY <2>1, ReachedTurned
    <2>3. 50 - p \in E
      BY <1>8
    <2>4. X[p] = Zone(p, "psychological", s)
      BY <1>9
    <2>5. Y[50 - p] = Zone(50 - p, "psychological", s)
      BY <2>2, <2>3
    <2>6. s \in Int
      <3> DEFINE x == 150 + 30 * (c - 1)
      <3>1. x \in Int
        BY <2>2
      <3> DEFINE y == 270
      <3>2. y \in Int
        OBVIOUS
      <3> HIDE DEF x, y
      <3>3. Min({y, x}) \in Int
        BY <3>1, <3>2, MinOfTwo
      <3> QED BY <3>3 DEF x, y
    <2> HIDE DEF X, Y, s, D, E
    <2>7. X[p] \in FoundZones
      BY <2>1, <2>4, <2>6 DEF Zone, FoundZones, ZoneKinds
    <2>8. MirrorZone(Zone(p, "psychological", s)) = Zone(50 - p, Flip("psychological"), s)
      BY ZoneMirrored
    <2>9. Flip("psychological") = "psychological"
      BY DEF Flip
    <2> QED BY <2>4, <2>5, <2>7, <2>8, <2>9
  <1>10. DOMAIN X = D /\ DOMAIN Y = E
    OBVIOUS
  <1> HIDE DEF X, Y, D, E
  <1>11. Rearranged(ZonesOf(X), ZonesOf(Y))
    <2>1. (\A p \in D : X[p] \in FoundZones) /\ \A p \in D : Y[50 - p] = MirrorZone(X[p])
      BY <1>9
    <2> QED BY <1>6, <1>8, <1>10, <2>1, LevelsListed
  <1> QED BY <1>3, <1>5, <1>11

LEMMA BinTurned ==
  ASSUME NEW p \in Int
  PROVE  Bin(50 - p) = 50 - Bin(p) /\ Bin(p) \in Int
  <1>1. (50 - p + 2) \div 5 = 10 - ((p + 2) \div 5) /\ (p + 2) \div 5 \in Int
    OBVIOUS
  <1> QED BY <1>1 DEF Bin

LEMMA EqualMirrored ==
  ASSUME NEW n \in Nat, NEW e, DOMAIN e = 1 .. n, NEW h, DOMAIN h = 1 .. n, \A i \in 1 .. n : e[i] \in Int,
         \A i \in 1 .. n : h[i] = 50 - e[i],
         NEW kind \in ZoneKinds, NEW other \in ZoneKinds, Flip(kind) = other
  PROVE  Rearranged(Equal(e, kind), Equal(h, other))
  <1> DEFINE In(f, p) == {i \in DOMAIN f : Bin(f[i]) = p}
             Bins(f) == {Bin(f[i]) : i \in DOMAIN f}
             D == {p \in Bins(e) : Cardinality(In(e, p)) >= 3}
             E == {p \in Bins(h) : Cardinality(In(h, p)) >= 3}
             X == [p \in D |-> Zone(p, kind, 270)]
             Y == [p \in E |-> Zone(p, other, 270)]
  <1>1. Equal(e, kind) = ZonesOf(X) /\ Equal(h, other) = ZonesOf(Y)
    BY DEF Equal
  <1>2. \A i \in 1 .. n : Bin(e[i]) \in Int /\ Bin(h[i]) = 50 - Bin(e[i])
    BY BinTurned
  <1>3. \A p \in Int : In(h, 50 - p) = In(e, p)
    BY <1>2
  <1>4. Bins(e) \in SUBSET Int /\ IsFiniteSet(Bins(e))
    <2> DEFINE f == [i \in 1 .. n |-> Bin(e[i])]
    <2>1. f \in [1 .. n -> Bins(e)] /\ \A y \in Bins(e) : \E k \in 1 .. n : f[k] = y
      OBVIOUS
    <2>2. Bins(e) \in SUBSET Int
      BY <1>2
    <2> HIDE DEF f, Bins
    <2>3. f \in Surjection(1 .. n, Bins(e))
      BY <2>1 DEF Surjection
    <2>4. IsFiniteSet(1 .. n)
      BY CountUpTo
    <2>5. IsFiniteSet(Bins(e))
      BY <2>3, <2>4, FS_Surjection
    <2> QED BY <2>2, <2>5
  <1>5. IsFiniteSet(D) /\ D \in SUBSET Int
    <2>1. D \in SUBSET Bins(e)
      OBVIOUS
    <2> HIDE DEF D, Bins
    <2>2. IsFiniteSet(D)
      BY <1>4, <2>1, FS_Subset
    <2> QED BY <1>4, <2>1, <2>2
  <1>6. \A p \in Int : p \in Bins(e) <=> 50 - p \in Bins(h)
    <2>1. ASSUME NEW p \in Int, p \in Bins(e) PROVE 50 - p \in Bins(h)
      <3>1. PICK i \in 1 .. n : p = Bin(e[i])
        BY <2>1
      <3>2. Bin(h[i]) = 50 - p
        BY <1>2, <3>1
      <3> QED BY <3>2
    <2>2. ASSUME NEW p \in Int, 50 - p \in Bins(h) PROVE p \in Bins(e)
      <3>1. PICK i \in 1 .. n : 50 - p = Bin(h[i])
        BY <2>2
      <3> DEFINE b == Bin(e[i])
      <3>2. b \in Int /\ 50 - p = 50 - b
        BY <1>2, <3>1
      <3> HIDE DEF b
      <3>3. b = p
        BY <3>2
      <3> QED BY <3>3 DEF b
    <2> QED BY <2>1, <2>2
  <1>7. Bins(h) \subseteq Int
    BY <1>2
  <1>8. E = {50 - p : p \in D}
    <2>1. D = {p \in Bins(e) : Cardinality(In(e, p)) >= 3} /\ E = {p \in Bins(h) : Cardinality(In(h, p)) >= 3}
      OBVIOUS
    <2> HIDE DEF D, E, Bins, In
    <2>2. \A p \in Int : p \in D <=> 50 - p \in E
      BY <1>3, <1>6, <2>1
    <2>3. E \subseteq Int
      BY <1>7, <2>1
    <2>4. \A q \in E : 50 - q \in D /\ q = 50 - (50 - q)
      <3> TAKE q \in E
      <3>1. q \in Int /\ 50 - q \in Int /\ 50 - (50 - q) = q
        BY <2>3
      <3> QED BY <2>2, <3>1
    <2>5. \A p \in D : 50 - p \in E
      BY <1>5, <2>2
    <2> QED BY <2>4, <2>5
  <1>9. ASSUME NEW p \in D PROVE X[p] \in FoundZones /\ Y[50 - p] = MirrorZone(X[p])
    <2>1. p \in Int /\ 50 - p \in E
      BY <1>5, <1>8
    <2>2. X[p] = Zone(p, kind, 270) /\ Y[50 - p] = Zone(50 - p, other, 270)
      BY <2>1
    <2> HIDE DEF X, Y, D, E
    <2>3. X[p] \in FoundZones
      BY <2>1, <2>2 DEF Zone, FoundZones
    <2>4. MirrorZone(Zone(p, kind, 270)) = Zone(50 - p, Flip(kind), 270)
      BY ZoneMirrored
    <2> QED BY <2>2, <2>3, <2>4
  <1>10. DOMAIN X = D /\ DOMAIN Y = E
    OBVIOUS
  <1> HIDE DEF X, Y, D, E
  <1>11. (\A p \in D : X[p] \in FoundZones) /\ \A p \in D : Y[50 - p] = MirrorZone(X[p])
    BY <1>9
  <1>12. Rearranged(ZonesOf(X), ZonesOf(Y))
    BY <1>5, <1>8, <1>10, <1>11, LevelsListed
  <1> QED BY <1>1, <1>12

\* Zones by the bars they are made of.
LEMMA BarsListed ==
  ASSUME NEW D, IsFiniteSet(D), D \in SUBSET Int, NEW X, DOMAIN X = D, NEW Y, DOMAIN Y = D,
         \A d \in D : X[d] \in FoundZones, \A d \in D : Y[d] = MirrorZone(X[d])
  PROVE  Rearranged(ZonesOf(X), ZonesOf(Y))
  <1> DEFINE m == [d \in D |-> d]
  <1>1. Across(m, m, D, D) /\ ZonesAcross(X, Y, m, D)
    BY DEF Across, ZonesAcross
  <1>2. D \subseteq Int
    OBVIOUS
  <1> HIDE DEF m
  <1> QED BY <1>1, <1>2, ListedMirrored

\* What broke out upwards broke out downwards in the other market.
LEMMA BrokeTurned ==
  ASSUME NEW B, NEW C, Capsized(B, C)
  PROVE  Broke(C).down = Broke(B).up /\ Broke(B).up \subseteq 1 .. Len(B)
  <1> DEFINE n == Len(B)
  <1>1. /\ n \in Nat /\ Len(C) = n /\ \A i \in 1 .. n : B[i].close \in Int /\ C[i].close = 50 - B[i].close
    BY DEF Capsized, HourBar
  <1>2. Block \in Nat /\ Block >= 1
    BY ContextAssumption
  <1> HIDE DEF n
  <1>3. ASSUME NEW i \in Block + 1 .. n
        PROVE  /\ i \in 1 .. n
               /\ C[i].close < Min(Lows(C, Before(i))) - 2 <=> B[i].close > Max(Highs(B, Before(i))) + 2
    <2> DEFINE x == Max(Highs(B, Before(i)))
               y == Min(Lows(C, Before(i)))
               c == B[i].close
               d == C[i].close
    <2>1. i \in 1 .. n /\ Before(i) \subseteq 1 .. n /\ i - 1 \in Before(i)
      BY <1>1, <1>2 DEF Before
    <2>2. Before(i) \subseteq 1 .. Len(B) /\ Before(i) # {}
      BY <2>1 DEF n
    <2>3. y = 50 - x /\ x \in Int
      BY <2>2, EndsTurned
    <2>4. c \in Int /\ d = 50 - c
      BY <1>1, <2>1
    <2> HIDE DEF x, y, c, d
    <2>5. d < y - 2 <=> c > x + 2
      BY <2>3, <2>4
    <2> QED BY <2>1, <2>5 DEF x, y, c, d
  <1>4. Broke(C).down = {i \in Block + 1 .. n : C[i].close < Min(Lows(C, Before(i))) - 2}
    BY <1>1 DEF Broke
  <1>5. Broke(B).up = {i \in Block + 1 .. n : B[i].close > Max(Highs(B, Before(i))) + 2}
    BY DEF Broke, n
  <1>6. Broke(C).down = Broke(B).up
    BY <1>3, <1>4, <1>5
  <1>7. Broke(B).up \subseteq 1 .. n
    BY <1>3, <1>5
  <1> QED BY <1>6, <1>7 DEF n

UpBlocks(B) == ZonesOf([i \in Broke(B).up |-> Zone(B[i].low, "order_block", Fading(B, i))])
DownBlocks(B) == ZonesOf([i \in Broke(B).down |-> Zone(B[i].high, "order_block", Fading(B, i))])

LEMMA BlocksMirrored ==
  ASSUME NEW B, NEW C, Capsized(B, C)
  PROVE  Rearranged(UpBlocks(B), DownBlocks(C))
  <1> DEFINE n == Len(B)
             D == Broke(B).up
             X == [i \in D |-> Zone(B[i].low, "order_block", Fading(B, i))]
             Y == [i \in D |-> Zone(C[i].high, "order_block", Fading(C, i))]
  <1>1. Broke(C).down = D /\ D \subseteq 1 .. n
    BY BrokeTurned
  <1>2. UpBlocks(B) = ZonesOf(X) /\ DownBlocks(C) = ZonesOf(Y)
    BY <1>1 DEF UpBlocks, DownBlocks
  <1>3. /\ n \in Nat /\ n >= 2 /\ Len(C) = n
        /\ \A i \in 1 .. n : /\ B[i].low \in Int /\ C[i].high = 50 - B[i].low
                             /\ B[i].day \in Nat /\ B[i].hour \in Int
                             /\ C[i].day = B[i].day /\ C[i].hour = B[i].hour
    <2>1. \A k \in HourBar : k.low \in Int /\ k.day \in Nat /\ k.hour \in Int
      BY DEF HourBar
    <2>2. /\ n \in Nat /\ n >= 2 /\ Len(C) = n
          /\ \A i \in 1 .. n : /\ B[i] \in HourBar /\ C[i].high = 50 - B[i].low
                               /\ C[i].day = B[i].day /\ C[i].hour = B[i].hour
      BY DEF Capsized
    <2> HIDE DEF n
    <2> QED BY <2>1, <2>2
  <1>4. IsFiniteSet(D)
    <2>1. D \in SUBSET (1 .. n)
      BY <1>1
    <2> HIDE DEF D, n
    <2>2. n \in Nat
      BY <1>3
    <2>3. IsFiniteSet(1 .. n)
      BY <2>2, CountUpTo
    <2> QED BY <2>1, <2>3, FS_Subset
  <1>5. D \in SUBSET Int
    BY <1>1
  <1> HIDE DEF D
  <1>6. ASSUME NEW i \in D PROVE X[i] \in FoundZones /\ Y[i] = MirrorZone(X[i])
    <2> DEFINE s == Fading(B, i)
               l == B[i].low
    <2>1. i \in 1 .. n /\ n \in 1 .. n
      BY <1>1, <1>3
    <2>2. At(C, i) = At(B, i) /\ At(C, n) = At(B, n) /\ At(B, i) \in Int /\ At(B, n) \in Int
      <3> HIDE DEF n
      <3>1. \A k \in 1 .. n : At(C, k) = At(B, k) /\ At(B, k) \in Int
        BY <1>3 DEF At
      <3> QED BY <2>1, <3>1
    <2>3. Fading(C, i) = s
      BY <1>3, <2>2 DEF Fading
    <2>4. s \in Int
      <3> DEFINE x == 10 * (24 - (At(B, n) - At(B, i)))
                 y == 0
      <3>1. x \in Int /\ y \in Int
        BY <2>2
      <3> HIDE DEF x, y
      <3>2. Max({y, x}) \in Int
        BY <3>1, MaxOfTwo
      <3> QED BY <3>2 DEF x, y, Fading
    <2>5. l \in Int /\ C[i].high = 50 - l
      BY <1>3, <2>1
    <2>6. X[i] = Zone(l, "order_block", s) /\ Y[i] = Zone(50 - l, "order_block", s)
      BY <2>3, <2>5
    <2> HIDE DEF X, Y, s, l
    <2>7. X[i] \in FoundZones
      BY <2>4, <2>5, <2>6 DEF Zone, FoundZones, ZoneKinds
    <2>8. MirrorZone(Zone(l, "order_block", s)) = Zone(50 - l, Flip("order_block"), s)
      BY ZoneMirrored
    <2>9. Flip("order_block") = "order_block"
      BY DEF Flip
    <2> QED BY <2>6, <2>7, <2>8, <2>9
  <1>7. DOMAIN X = D /\ DOMAIN Y = D
    OBVIOUS
  <1> HIDE DEF X, Y
  <1>8. (\A d \in D : X[d] \in FoundZones) /\ \A d \in D : Y[d] = MirrorZone(X[d])
    BY <1>6
  <1>9. Rearranged(ZonesOf(X), ZonesOf(Y))
    BY <1>4, <1>5, <1>7, <1>8, BarsListed
  <1> QED BY <1>2, <1>9

LEMMA OrderBlocksMirrored ==
  ASSUME NEW B, NEW C, Capsized(B, C)
  PROVE  Rearranged(OrderBlocks(B), OrderBlocks(C))
  <1> DEFINE a == UpBlocks(B)
             b == DownBlocks(B)
             c == UpBlocks(C)
             d == DownBlocks(C)
             e == <<>>
  <1>1. OrderBlocks(B) = a \o b /\ OrderBlocks(C) = c \o d
    BY DEF OrderBlocks, UpBlocks, DownBlocks
  <1>2. Rearranged(a, d)
    BY BlocksMirrored
  <1>3. Rearranged(b, c)
    <2>1. Rearranged(c, b)
      BY CapsizedBack, BlocksMirrored
    <2> QED BY <2>1, RearrangedBack
  <1>4. Rearranged(e, e)
    BY NoZones
  <1> HIDE DEF a, b, c, d
  <1>5. a \in Seq(FoundZones) /\ c \in Seq(FoundZones)
    BY <1>2, <1>3 DEF Rearranged
  <1>6. e \o a = a /\ e \o c = c
    BY <1>5
  <1> HIDE DEF e
  <1>7. Rearranged((e \o a) \o b, (e \o c) \o d)
    BY <1>2, <1>3, <1>4, JoinedSwapped
  <1> QED BY <1>1, <1>6, <1>7

\* All zones of a market, before the strongest are kept.
Found(B) ==
  Ends(B, InHours(B, 7 .. 11), "session_high", "session_low", 225)
    \o Ends(B, InHours(B, 16 .. 20), "session_high", "session_low", 225)
    \o Ends(B, DayBefore(B), "previous_day_high", "previous_day_low", 255)
    \o Ends(B, Week(B), "weekly_high", "weekly_low", 270)
    \o Psychological(B)
    \o Equal([i \in DOMAIN B |-> B[i].high], "equal_highs")
    \o Equal([i \in DOMAIN B |-> B[i].low], "equal_lows")
    \o OrderBlocks(B)

LEMMA EqualsMirrored ==
  ASSUME NEW B, NEW C, Capsized(B, C)
  PROVE  Rearranged(Equal([i \in DOMAIN B |-> B[i].high], "equal_highs"), Equal([i \in DOMAIN C |-> C[i].low], "equal_lows"))
  <1> DEFINE n == Len(B)
             e == [i \in DOMAIN B |-> B[i].high]
             h == [i \in DOMAIN C |-> C[i].low]
             kind == "equal_highs"
             other == "equal_lows"
  <1>1. /\ n \in Nat /\ DOMAIN B = 1 .. n /\ DOMAIN C = 1 .. n
        /\ \A i \in 1 .. n : B[i].high \in Int /\ C[i].low = 50 - B[i].high
    <2>1. \A k \in HourBar : k.high \in Int
      BY DEF HourBar
    <2> QED BY <2>1 DEF Capsized
  <1>2. kind \in ZoneKinds /\ other \in ZoneKinds /\ Flip(kind) = other
    BY DEF ZoneKinds, Flip
  <1> HIDE DEF n, kind, other
  <1>3. /\ DOMAIN e = 1 .. n /\ DOMAIN h = 1 .. n
        /\ \A i \in 1 .. n : e[i] \in Int
        /\ \A i \in 1 .. n : h[i] = 50 - e[i]
    BY <1>1
  <1> HIDE DEF e, h
  <1>4. n \in Nat
    BY <1>1
  <1>5. Rearranged(Equal(e, kind), Equal(h, other))
    BY <1>2, <1>3, <1>4, EqualMirrored
  <1> QED BY <1>5 DEF e, h, kind, other

LEMMA FoundMirrored ==
  ASSUME NEW B, NEW C, Capsized(B, C)
  PROVE  Rearranged(Found(B), Found(C))
  <1> DEFINE b1 == Ends(B, InHours(B, 7 .. 11), "session_high", "session_low", 225)
             b2 == Ends(B, InHours(B, 16 .. 20), "session_high", "session_low", 225)
             b3 == Ends(B, DayBefore(B), "previous_day_high", "previous_day_low", 255)
             b4 == Ends(B, Week(B), "weekly_high", "weekly_low", 270)
             b5 == Psychological(B)
             b6 == Equal([i \in DOMAIN B |-> B[i].high], "equal_highs")
             b7 == Equal([i \in DOMAIN B |-> B[i].low], "equal_lows")
             b8 == OrderBlocks(B)
             c1 == Ends(C, InHours(C, 7 .. 11), "session_high", "session_low", 225)
             c2 == Ends(C, InHours(C, 16 .. 20), "session_high", "session_low", 225)
             c3 == Ends(C, DayBefore(C), "previous_day_high", "previous_day_low", 255)
             c4 == Ends(C, Week(C), "weekly_high", "weekly_low", 270)
             c5 == Psychological(C)
             c6 == Equal([i \in DOMAIN C |-> C[i].high], "equal_highs")
             c7 == Equal([i \in DOMAIN C |-> C[i].low], "equal_lows")
             c8 == OrderBlocks(C)
  <1>1. /\ "session_high" \in ZoneKinds /\ "session_low" \in ZoneKinds
        /\ Flip("session_high") = "session_low" /\ Flip("session_low") = "session_high"
    BY DEF ZoneKinds, Flip
  <1>2. /\ "previous_day_high" \in ZoneKinds /\ "previous_day_low" \in ZoneKinds
        /\ Flip("previous_day_high") = "previous_day_low" /\ Flip("previous_day_low") = "previous_day_high"
    BY DEF ZoneKinds, Flip
  <1>3. /\ "weekly_high" \in ZoneKinds /\ "weekly_low" \in ZoneKinds
        /\ Flip("weekly_high") = "weekly_low" /\ Flip("weekly_low") = "weekly_high"
    BY DEF ZoneKinds, Flip
  <1>4. ASSUME NEW at, at \subseteq 1 .. Len(B)
        PROVE  /\ Rearranged(Ends(B, at, "session_high", "session_low", 225), Ends(C, at, "session_high", "session_low", 225))
               /\ Rearranged(Ends(B, at, "previous_day_high", "previous_day_low", 255),
                             Ends(C, at, "previous_day_high", "previous_day_low", 255))
               /\ Rearranged(Ends(B, at, "weekly_high", "weekly_low", 270), Ends(C, at, "weekly_high", "weekly_low", 270))
    <2> DEFINE s == 225
               p == 255
               w == 270
    <2>1. s \in Int /\ p \in Int /\ w \in Int
      OBVIOUS
    <2> HIDE DEF s, p, w
    <2>2. Rearranged(Ends(B, at, "session_high", "session_low", s), Ends(C, at, "session_high", "session_low", s))
      BY <1>1, <1>4, <2>1, EndsMirrored
    <2>3. Rearranged(Ends(B, at, "previous_day_high", "previous_day_low", p),
                     Ends(C, at, "previous_day_high", "previous_day_low", p))
      BY <1>2, <1>4, <2>1, EndsMirrored
    <2>4. Rearranged(Ends(B, at, "weekly_high", "weekly_low", w), Ends(C, at, "weekly_high", "weekly_low", w))
      BY <1>3, <1>4, <2>1, EndsMirrored
    <2> QED BY <2>2, <2>3, <2>4 DEF s, p, w
  <1>5. Rearranged(b1, c1)
    <2> DEFINE hours == 7 .. 11
    <2> HIDE DEF hours
    <2>1. InHours(C, hours) = InHours(B, hours) /\ InHours(B, hours) \subseteq 1 .. Len(B)
      BY SameStretches
    <2>2. InHours(C, 7 .. 11) = InHours(B, 7 .. 11) /\ InHours(B, 7 .. 11) \subseteq 1 .. Len(B)
      BY <2>1 DEF hours
    <2> QED BY <1>4, <2>2
  <1>6. Rearranged(b2, c2)
    <2> DEFINE hours == 16 .. 20
    <2> HIDE DEF hours
    <2>1. InHours(C, hours) = InHours(B, hours) /\ InHours(B, hours) \subseteq 1 .. Len(B)
      BY SameStretches
    <2>2. InHours(C, 16 .. 20) = InHours(B, 16 .. 20) /\ InHours(B, 16 .. 20) \subseteq 1 .. Len(B)
      BY <2>1 DEF hours
    <2> QED BY <1>4, <2>2
  <1>7. Rearranged(b3, c3)
    <2>1. DayBefore(C) = DayBefore(B) /\ DayBefore(B) \subseteq 1 .. Len(B)
      BY SameStretches
    <2> QED BY <1>4, <2>1
  <1>8. Rearranged(b4, c4)
    <2>1. Week(C) = Week(B) /\ Week(B) \subseteq 1 .. Len(B)
      BY SameStretches
    <2> QED BY <1>4, <2>1
  <1>9. Rearranged(b5, c5)
    BY PsychologicalMirrored
  <1>10. Rearranged(b6, c7)
    BY EqualsMirrored
  <1>11. Rearranged(b7, c6)
    <2>1. Rearranged(c6, b7)
      BY CapsizedBack, EqualsMirrored
    <2> HIDE DEF c6, b7
    <2> QED BY <2>1, RearrangedBack
  <1>12. Rearranged(b8, c8)
    BY OrderBlocksMirrored
  <1>13. /\ Found(B) = ((((((b1 \o b2) \o b3) \o b4) \o b5) \o b6) \o b7) \o b8
         /\ Found(C) = ((((((c1 \o c2) \o c3) \o c4) \o c5) \o c6) \o c7) \o c8
    BY DEF Found
  <1> HIDE DEF b1, b2, b3, b4, b5, b6, b7, b8, c1, c2, c3, c4, c5, c6, c7, c8
  <1>14. Rearranged(b1 \o b2, c1 \o c2)
    BY <1>5, <1>6, JoinedZones
  <1>15. Rearranged((b1 \o b2) \o b3, (c1 \o c2) \o c3)
    BY <1>7, <1>14, JoinedZones
  <1>16. Rearranged(((b1 \o b2) \o b3) \o b4, ((c1 \o c2) \o c3) \o c4)
    BY <1>8, <1>15, JoinedZones
  <1>17. Rearranged((((b1 \o b2) \o b3) \o b4) \o b5, (((c1 \o c2) \o c3) \o c4) \o c5)
    BY <1>9, <1>16, JoinedZones
  <1> DEFINE x == (((b1 \o b2) \o b3) \o b4) \o b5
             y == (((c1 \o c2) \o c3) \o c4) \o c5
  <1>18. Rearranged((x \o b6) \o b7, (y \o c6) \o c7)
    <2> HIDE DEF x, y
    <2>1. Rearranged(x, y)
      BY <1>17 DEF x, y
    <2> QED BY <1>10, <1>11, <2>1, JoinedSwapped
  <1> DEFINE u == (x \o b6) \o b7
             v == (y \o c6) \o c7
  <1>19. Rearranged(u \o b8, v \o c8)
    <2> HIDE DEF u, v
    <2>1. Rearranged(u, v)
      BY <1>18 DEF u, v
    <2> QED BY <1>12, <2>1, JoinedZones
  <1> QED BY <1>13, <1>19

LEMMA ZonesMirrored ==
  ASSUME NEW B, NEW C, Capsized(B, C), Len(DetectZones(B)) < Strongest
  PROVE  Rearranged(DetectZones(B), DetectZones(C))
  <1> DEFINE s == Found(B)
             t == Found(C)
             a == ByStrength(s)
             b == ByStrength(t)
             n == Len(s)
             k == Min({Strongest, n})
  <1>1. DetectZones(B) = SubSeq(a, 1, k) /\ DetectZones(C) = SubSeq(b, 1, Min({Strongest, Len(t)}))
    BY Zenon DEF DetectZones, Found
  <1>2. Rearranged(s, t)
    BY FoundMirrored
  <1> HIDE DEF s, t
  <1>3. Rearranged(a, b) /\ Len(a) = n
    BY <1>2, StrengthMirrored
  <1>4. n \in Nat /\ Len(t) = n
    BY <1>2 DEF Rearranged
  <1> HIDE DEF a, b, n
  <1>5. a \in Seq(FoundZones) /\ b \in Seq(FoundZones) /\ Len(b) = n
    BY <1>3 DEF Rearranged
  <1>6. Strongest \in Int
    BY ContextAssumption
  <1>12. n \in Int
    BY <1>4
  <1>7. k \in Int /\ k <= n /\ k \in {Strongest, n}
    <2> DEFINE g == Strongest
    <2>1. g \in Int
      BY <1>6
    <2> HIDE DEF g
    <2>2. Min({g, n}) \in Int /\ Min({g, n}) <= n /\ Min({g, n}) \in {g, n}
      BY <1>12, <2>1, MinOfTwo
    <2> QED BY <2>2 DEF g
  <1>8. k = n
    <2> HIDE DEF k
    <2>1. CASE k = Strongest
      <3>1. k >= 1
        BY <2>1, ContextAssumption
      <3>2. Len(SubSeq(a, 1, k)) = k
        BY <1>3, <1>4, <1>5, <1>7, <3>1
      <3> QED BY <1>1, <1>6, <2>1, <3>2
    <2> QED BY <1>7, <2>1
  <1>9. SubSeq(a, 1, n) = a /\ SubSeq(b, 1, n) = b
    BY <1>3, <1>4, <1>5
  <1>10. DetectZones(B) = a
    BY <1>1, <1>8, <1>9
  <1>11. DetectZones(C) = b
    BY <1>1, <1>4, <1>8, <1>9
  <1> QED BY <1>3, <1>10, <1>11

\* The zones of the one market are those of the other, turned.
LEMMA ZonesAsSets ==
  ASSUME NEW s, NEW t, Rearranged(s, t)
  PROVE  ToSet(t) = {MirrorZone(z) : z \in ToSet(s)}
  <1> DEFINE n == Len(s)
  <1>1. n \in Nat /\ DOMAIN s = 1 .. n /\ DOMAIN t = 1 .. n
    BY DEF Rearranged
  <1>2. PICK f, g : Matching(f, g, s, t)
    BY DEF Rearranged
  <1>3. /\ f \in [1 .. n -> 1 .. n] /\ g \in [1 .. n -> 1 .. n]
        /\ \A k \in 1 .. n : g[f[k]] = k /\ f[g[k]] = k /\ t[f[k]] = MirrorZone(s[k])
    BY <1>2 DEF Matching
  <1> HIDE DEF n
  <1>4. ToSet(s) = {s[k] : k \in 1 .. n} /\ ToSet(t) = {t[k] : k \in 1 .. n}
    BY <1>1 DEF ToSet
  <1>5. ASSUME NEW k \in 1 .. n PROVE t[k] \in {MirrorZone(z) : z \in ToSet(s)}
    <2>1. g[k] \in 1 .. n /\ t[k] = MirrorZone(s[g[k]])
      BY <1>3
    <2> QED BY <1>4, <2>1
  <1>6. ASSUME NEW k \in 1 .. n PROVE MirrorZone(s[k]) \in ToSet(t)
    <2>1. f[k] \in 1 .. n /\ t[f[k]] = MirrorZone(s[k])
      BY <1>3
    <2> QED BY <1>4, <2>1
  <1> QED BY <1>4, <1>5, <1>6

\* As many bars touch the zones.
LEMMA TouchesTurned ==
  ASSUME NEW B, NEW C, Capsized(B, C), NEW s, NEW t, Rearranged(s, t)
  PROVE  Cardinality(Touches(C, t)) = Cardinality(Touches(B, s))
  <1> DEFINE n == Len(s)
             m == Len(B)
             at == Recent(B)
             F == Touches(B, s)
             G == Touches(C, t)
  <1>1. /\ s \in Seq(FoundZones) /\ n \in Nat /\ DOMAIN s = 1 .. n /\ DOMAIN t = 1 .. n
    BY DEF Rearranged
  <1>2. m \in Nat /\ DOMAIN B = 1 .. m /\ DOMAIN C = 1 .. m
    BY DEF Capsized
  <1>16. Recent(C) = at /\ at \subseteq 1 .. m
    <2>1. Len(C) = m
      BY DEF Capsized
    <2> HIDE DEF m
    <2>2. Len(B) = m
      BY DEF m
    <2> QED BY <1>2, <2>1, <2>2 DEF Recent
  <1>3. PICK f, g : Matching(f, g, s, t)
    BY DEF Rearranged
  <1>4. /\ f \in [1 .. n -> 1 .. n] /\ g \in [1 .. n -> 1 .. n]
        /\ \A k \in 1 .. n : g[f[k]] = k /\ f[g[k]] = k /\ t[f[k]] = MirrorZone(s[k])
    BY <1>3 DEF Matching
  <1>5. /\ \A p \in F : p = <<p[1], p[2]>> /\ p[1] \in 1 .. n /\ p[2] \in at
        /\ \A p \in G : p = <<p[1], p[2]>> /\ p[1] \in 1 .. n /\ p[2] \in at
    <2> HIDE DEF n, m, at
    <2> QED BY <1>1, <1>16 DEF Touches, at
  <1>6. /\ \A k \in 1 .. n, i \in at : <<k, i>> \in F <=> i \in LevelReached(B, s[k].level)
        /\ \A k \in 1 .. n, i \in at : <<k, i>> \in G <=> i \in LevelReached(C, t[k].level)
    <2> HIDE DEF n, m, at
    <2> QED BY <1>1, <1>16 DEF Touches, at
  <1>7. ASSUME NEW k \in 1 .. n
        PROVE  LevelReached(C, t[f[k]].level) = LevelReached(B, s[k].level)
    <2> DEFINE l == s[k].level
    <2>1. s[k] \in FoundZones
      BY <1>1
    <2>2. l \in Int /\ t[f[k]].level = 50 - l
      BY <1>4, <2>1, ZoneIs, MirrorBack
    <2> HIDE DEF l
    <2>3. LevelReached(C, 50 - l) = LevelReached(B, l)
      BY <2>2, ReachedTurned
    <2> QED BY <2>2, <2>3 DEF l
  <1>8. F \subseteq (1 .. n) \X (at)
    <2> HIDE DEF n, m, at
    <2> QED BY <1>1, <1>16 DEF Touches, at
  <1> HIDE DEF F, G, n, m, at
  <1>9. IsFiniteSet(F)
    <2>4. IsFiniteSet(1 .. n) /\ IsFiniteSet(1 .. m)
      BY <1>1, <1>2, CountUpTo
    <2>5. at \in SUBSET (1 .. m)
      BY <1>16
    <2>1. IsFiniteSet(1 .. n) /\ IsFiniteSet(at)
      BY <2>4, <2>5, FS_Subset
    <2>2. IsFiniteSet((1 .. n) \X (at))
      BY <2>1, FS_Product
    <2>3. F \in SUBSET ((1 .. n) \X (at))
      BY <1>8
    <2> QED BY <2>2, <2>3, FS_Subset
  <1> DEFINE h == [p \in F |-> <<f[p[1]], p[2]>>]
  <1>10. ASSUME NEW p \in F PROVE h[p] \in G
    <2>1. p = <<p[1], p[2]>> /\ p[1] \in 1 .. n /\ p[2] \in at
      BY <1>5
    <2>2. p[2] \in LevelReached(B, s[p[1]].level)
      BY <1>6, <2>1
    <2>3. f[p[1]] \in 1 .. n /\ p[2] \in LevelReached(C, t[f[p[1]]].level)
      BY <1>4, <1>7, <2>1, <2>2
    <2> QED BY <1>6, <2>1, <2>3
  <1>11. h \in [F -> G]
    BY <1>10
  <1>12. ASSUME NEW p \in F, NEW q \in F, h[p] = h[q] PROVE p = q
    <2>1. p = <<p[1], p[2]>> /\ q = <<q[1], q[2]>> /\ p[1] \in 1 .. n /\ q[1] \in 1 .. n
      BY <1>5
    <2>2. f[p[1]] = f[q[1]] /\ p[2] = q[2]
      BY <1>12
    <2>3. p[1] = q[1]
      <3>1. g[f[p[1]]] = p[1] /\ g[f[q[1]]] = q[1]
        BY <1>4, <2>1
      <3> QED BY <2>2, <3>1
    <2> QED BY <2>1, <2>2, <2>3
  <1>13. ASSUME NEW q \in G PROVE \E p \in F : h[p] = q
    <2>1. q = <<q[1], q[2]>> /\ q[1] \in 1 .. n /\ q[2] \in at
      BY <1>5
    <2> DEFINE k == g[q[1]]
    <2>2. k \in 1 .. n /\ f[k] = q[1]
      BY <1>4, <2>1
    <2>3. q[2] \in LevelReached(C, t[f[k]].level)
      BY <1>6, <2>1, <2>2
    <2>4. <<k, q[2]>> \in F
      <3> HIDE DEF k
      <3> QED BY <1>6, <1>7, <2>1, <2>2, <2>3
    <2>5. h[<<k, q[2]>>] = <<f[k], q[2]>>
      <3> HIDE DEF k
      <3> QED BY <2>4
    <2> HIDE DEF h, k
    <2> QED BY <2>1, <2>2, <2>4, <2>5
  <1> HIDE DEF h
  <1>14. h \in Bijection(F, G)
    <2>1. h \in Injection(F, G)
      BY <1>11, <1>12 DEF Injection, IsInjective
    <2>2. h \in Surjection(F, G)
      BY <1>11, <1>13 DEF Surjection
    <2> QED BY <2>1, <2>2 DEF Bijection
  <1>15. Cardinality(F) = Cardinality(G)
    BY <1>9, <1>14, FS_Bijection DEF ExistsBijection
  <1> QED BY <1>15 DEF F, G

LEMMA DistanceIs ==
  ASSUME NEW a \in Int, NEW b \in Int
  PROVE  /\ Distance(a, b) \in Int /\ Distance(50 - a, 50 - b) = Distance(a, b)
         /\ \A c \in Int : Distance(a, b) = Distance(c, b) => a = c \/ c - b = b - a
  BY DEF Distance

\* The zone nearest to a price is one of the zones, and none is nearer.
LEMMA NearestIs ==
  ASSUME NEW s \in Seq(FoundZones), NEW n, n = Len(s), n # 0, NEW p \in Int
  PROVE  \E k \in 1 .. n : /\ NearestOf(s, p) = s[k]
                           /\ \A j \in 1 .. n : Distance(s[k].level, p) <= Distance(s[j].level, p)
  <1> DEFINE d == [k \in 1 .. n |-> Distance(s[k].level, p)]
             e == [k \in 1 .. n |-> 0 - d[k]]
  <1>1. n \in Nat \ {0} /\ DOMAIN s = 1 .. n /\ \A k \in 1 .. n : s[k] \in FoundZones
    OBVIOUS
  <1>2. ASSUME NEW k \in 1 .. n PROVE d[k] \in Int
    <2> DEFINE l == s[k].level
    <2>1. l \in Int
      BY <1>1, ZoneIs
    <2> HIDE DEF l
    <2>2. Distance(l, p) \in Int
      BY <2>1, DistanceIs
    <2> QED BY <2>2 DEF l
  <1>3. \A k \in 1 .. n : d[k] = Distance(s[k].level, p)
    OBVIOUS
  <1> HIDE DEF d
  <1>4. \A k \in 1 .. n : e[k] \in Int /\ e[k] = 0 - d[k]
    BY <1>2
  <1> HIDE DEF e
  <1>14. \A k \in 1 .. n : e[k] \in Int
    BY <1>4
  <1>15. n \in Nat \ {0}
    BY <1>1
  <1>5. PICK m \in 1 .. n : \A k \in 1 .. n : e[k] <= e[m]
    BY <1>14, <1>15, Highest
  <1>6. \A k \in 1 .. n : d[m] <= d[k]
    BY <1>2, <1>4, <1>5
  <1> DEFINE S == {k \in 1 .. n : d[k] = d[m]}
             first == Min(S)
  <1>7. first \in S /\ first \in Int /\ \A x \in S : first <= x
    <2>1. S \in SUBSET (1 .. n) /\ S \in SUBSET Int /\ m \in S
      BY <1>15
    <2> HIDE DEF S
    <2>2. IsFiniteSet(1 .. n)
      BY <1>15, CountUpTo
    <2>3. IsFiniteSet(S)
      BY <2>1, <2>2, FS_Subset
    <2>4. S # {}
      BY <2>1
    <2> QED BY <2>1, <2>3, <2>4, MinIs
  <1> HIDE DEF first
  <1> DEFINE Best(k) == \A j \in 1 .. n : d[k] < d[j] \/ (d[k] = d[j] /\ k <= j)
  <1>8. first \in 1 .. n /\ Best(first)
    <2>1. first \in 1 .. n /\ d[first] = d[m]
      BY <1>7
    <2>2. ASSUME NEW j \in 1 .. n PROVE d[first] < d[j] \/ (d[first] = d[j] /\ first <= j)
      <3> DEFINE a == d[first]
                 b == d[j]
      <3>1. a \in Int /\ b \in Int /\ a <= b
        BY <1>2, <1>6, <2>1
      <3>2. a = b => first <= j
        BY <1>7, <2>1
      <3> HIDE DEF a, b
      <3>3. a < b \/ (a = b /\ first <= j)
        BY <3>1, <3>2
      <3> QED BY <3>3 DEF a, b
    <2> QED BY <2>1, <2>2
  <1> DEFINE k == CHOOSE i \in DOMAIN s :
                    \A j \in DOMAIN s : \/ Distance(s[i].level, p) < Distance(s[j].level, p)
                                        \/ /\ Distance(s[i].level, p) = Distance(s[j].level, p)
                                           /\ i <= j
  <1>9. NearestOf(s, p) = s[k]
    BY DEF NearestOf
  <1>10. \A i \in 1 .. n : Best(i) <=> \A j \in DOMAIN s : \/ Distance(s[i].level, p) < Distance(s[j].level, p)
                                        \/ /\ Distance(s[i].level, p) = Distance(s[j].level, p)
                                           /\ i <= j
    BY <1>1, <1>3
  <1>11. k \in 1 .. n /\ Best(k)
    <2> HIDE DEF Best
    <2> QED BY <1>1, <1>8, <1>10
  <1> HIDE DEF k
  <1>12. \A j \in 1 .. n : d[k] <= d[j]
    BY <1>2, <1>11
  <1>13. \A j \in 1 .. n : Distance(s[k].level, p) <= Distance(s[j].level, p)
    BY <1>3, <1>11, <1>12
  <1> QED BY <1>9, <1>11, <1>13

\* A price has no zone at its level, and none as far on the other side as its nearest.
Decided(s, p) ==
  /\ NearestOf(s, p).level # p
  /\ \A k \in DOMAIN s : s[k].level - p # p - NearestOf(s, p).level

LEMMA NearestTurned ==
  ASSUME NEW s, NEW t, Rearranged(s, t), s # <<>>, NEW p \in Int, Decided(s, p)
  PROVE  /\ NearestOf(s, p).level \in Int /\ NearestOf(s, p).level # p
         /\ NearestOf(t, 50 - p).level = 50 - NearestOf(s, p).level
  <1> DEFINE n == Len(s)
             q == 50 - p
  <1>1. /\ s \in Seq(FoundZones) /\ t \in Seq(FoundZones) /\ n \in Nat /\ n = Len(s) /\ n = Len(t)
        /\ DOMAIN s = 1 .. n
    BY DEF Rearranged
  <1>2. n # 0 /\ q \in Int
    BY <1>1
  <1>3. PICK f, g : Matching(f, g, s, t)
    BY DEF Rearranged
  <1>4. /\ f \in [1 .. n -> 1 .. n] /\ g \in [1 .. n -> 1 .. n]
        /\ \A k \in 1 .. n : g[f[k]] = k /\ f[g[k]] = k /\ t[f[k]] = MirrorZone(s[k])
    BY <1>3 DEF Matching
  <1> HIDE DEF n, q
  <1>5. PICK k \in 1 .. n : /\ NearestOf(s, p) = s[k]
                            /\ \A j \in 1 .. n : Distance(s[k].level, p) <= Distance(s[j].level, p)
    BY <1>1, <1>2, NearestIs
  <1>6. PICK j \in 1 .. n : /\ NearestOf(t, q) = t[j]
                            /\ \A i \in 1 .. n : Distance(t[j].level, q) <= Distance(t[i].level, q)
    BY <1>1, <1>2, NearestIs
  <1> DEFINE a == s[k].level
             c == s[g[j]].level
  <1>7. g[j] \in 1 .. n /\ f[g[j]] = j /\ f[k] \in 1 .. n
    BY <1>4
  <1>8. a \in Int /\ c \in Int
    BY <1>1, <1>7, ZoneIs
  <1>9. t[j].level = 50 - c /\ t[f[k]].level = 50 - a
    <2>1. s[k] \in FoundZones /\ s[g[j]] \in FoundZones
      BY <1>1, <1>7
    <2>2. t[j] = MirrorZone(s[g[j]]) /\ t[f[k]] = MirrorZone(s[k])
      BY <1>4, <1>7
    <2> QED BY <2>1, <2>2, MirrorBack
  <1>10. Distance(a, p) <= Distance(c, p)
    BY <1>5, <1>7
  <1>11. Distance(50 - c, q) <= Distance(50 - a, q)
    BY <1>6, <1>7, <1>9
  <1>12. a # p /\ c - p # p - a
    BY <1>1, <1>5, <1>7 DEF Decided
  <1>16. NearestOf(s, p).level = a /\ NearestOf(t, q).level = 50 - c
    BY <1>5, <1>6, <1>9
  <1> HIDE DEF a, c
  <1>13. /\ Distance(50 - c, q) = Distance(c, p) /\ Distance(50 - a, q) = Distance(a, p)
         /\ Distance(c, p) \in Int /\ Distance(a, p) \in Int
    BY <1>8, DistanceIs DEF q
  <1>14. Distance(a, p) = Distance(c, p)
    BY <1>10, <1>11, <1>13
  <1>15. a = c
    BY <1>8, <1>12, <1>14, DistanceIs
  <1> QED BY <1>8, <1>12, <1>15, <1>16 DEF q

\* An intent the other way round.
FlippedIntent(i, j) == "move" \in DOMAIN i /\ j = [i EXCEPT !.move = Flip(@)] /\ j.move = Flip(i.move)

LEMMA IntentTurned ==
  ASSUME NEW p, NEW m, NEW c, NEW w, w = Flip(m)
  PROVE  FlippedIntent(Intent(p, m, c), Intent(p, w, c))
  <1> DEFINE i == Intent(p, m, c)
             j == Intent(p, w, c)
  <1>1. i = [phase |-> p, move |-> m, confidence |-> c] /\ j = [phase |-> p, move |-> w, confidence |-> c]
    BY DEF Intent
  <1> HIDE DEF i, j
  <1>2. "move" \in DOMAIN i /\ i.move = m /\ j.move = w
    BY <1>1
  <1>3. [i EXCEPT !.move = w] = j
    BY <1>1
  <1>4. FlippedIntent(i, j)
    BY <1>2, <1>3 DEF FlippedIntent
  <1> QED BY <1>4 DEF i, j

LEMMA SignalTurned ==
  ASSUME NEW i, NEW j, FlippedIntent(i, j)
  PROVE  LiquiditySignal(j) = Flip(LiquiditySignal(i))
  <1> DEFINE m == i.move
             w == j.move
  <1>1. w = Flip(m)
    BY DEF FlippedIntent
  <1>2. /\ LiquiditySignal(i) = (CASE m = "up" -> "BUY" [] m = "down" -> "SELL" [] OTHER -> "NEUTRAL")
        /\ LiquiditySignal(j) = (CASE w = "up" -> "BUY" [] w = "down" -> "SELL" [] OTHER -> "NEUTRAL")
    BY DEF LiquiditySignal
  <1> HIDE DEF m, w
  <1>3. (w = "up" <=> m = "down") /\ (w = "down" <=> m = "up")
    BY <1>1 DEF Flip
  <1>4. Flip("BUY") = "SELL" /\ Flip("SELL") = "BUY" /\ Flip("NEUTRAL") = "NEUTRAL"
    BY DEF Flip
  <1> QED BY <1>2, <1>3, <1>4

\* A price that went over a zone, and one that went under it.
WentOver(zones, was, close) == \E k \in DOMAIN zones : was <= zones[k].level + 10 /\ close > zones[k].level + 10
WentUnder(zones, was, close) == \E k \in DOMAIN zones : was >= zones[k].level - 10 /\ close < zones[k].level - 10

LEMMA WentOverTurned ==
  ASSUME NEW s, NEW t, Rearranged(s, t), NEW was \in Int, NEW close \in Int
  PROVE  WentUnder(t, 50 - was, 50 - close) <=> WentOver(s, was, close)
  <1> DEFINE n == Len(s)
  <1>1. s \in Seq(FoundZones) /\ n \in Nat /\ DOMAIN s = 1 .. n /\ DOMAIN t = 1 .. n
    BY DEF Rearranged
  <1>2. PICK f, g : Matching(f, g, s, t)
    BY DEF Rearranged
  <1>3. /\ f \in [1 .. n -> 1 .. n] /\ g \in [1 .. n -> 1 .. n]
        /\ \A k \in 1 .. n : g[f[k]] = k /\ f[g[k]] = k /\ t[f[k]] = MirrorZone(s[k])
    BY <1>2 DEF Matching
  <1> HIDE DEF n
  <1>4. ASSUME NEW k \in 1 .. n
        PROVE  /\ f[k] \in 1 .. n
               /\ (50 - was >= t[f[k]].level - 10 /\ 50 - close < t[f[k]].level - 10)
                    <=> (was <= s[k].level + 10 /\ close > s[k].level + 10)
    <2> DEFINE l == s[k].level
               m == t[f[k]].level
    <2>1. s[k] \in FoundZones /\ f[k] \in 1 .. n /\ t[f[k]] = MirrorZone(s[k])
      BY <1>1, <1>3
    <2>2. l \in Int /\ m = 50 - l
      BY <2>1, ZoneIs, MirrorBack
    <2> HIDE DEF l, m
    <2>3. (50 - was >= m - 10 /\ 50 - close < m - 10) <=> (was <= l + 10 /\ close > l + 10)
      BY <2>2
    <2> QED BY <2>1, <2>3 DEF l, m
  <1>5. ASSUME WentOver(s, was, close) PROVE WentUnder(t, 50 - was, 50 - close)
    <2>1. PICK k \in 1 .. n : was <= s[k].level + 10 /\ close > s[k].level + 10
      BY <1>1, <1>5 DEF WentOver
    <2>2. f[k] \in 1 .. n /\ 50 - was >= t[f[k]].level - 10 /\ 50 - close < t[f[k]].level - 10
      BY <1>4, <2>1
    <2> QED BY <1>1, <2>2 DEF WentUnder
  <1>6. ASSUME WentUnder(t, 50 - was, 50 - close) PROVE WentOver(s, was, close)
    <2>1. PICK j \in 1 .. n : 50 - was >= t[j].level - 10 /\ 50 - close < t[j].level - 10
      BY <1>1, <1>6 DEF WentUnder
    <2>2. g[j] \in 1 .. n /\ f[g[j]] = j
      BY <1>3
    <2>3. was <= s[g[j]].level + 10 /\ close > s[g[j]].level + 10
      BY <1>4, <2>1, <2>2
    <2> QED BY <1>1, <2>2, <2>3 DEF WentOver
  <1> QED BY <1>5, <1>6

LEMMA NotBothWays ==
  ASSUME NEW s \in Seq(FoundZones), NEW was \in Int, NEW close \in Int, WentOver(s, was, close)
  PROVE  ~WentUnder(s, was, close)
  <1>1. \A k \in DOMAIN s : s[k].level \in Int
    <2>1. \A k \in DOMAIN s : s[k] \in FoundZones
      OBVIOUS
    <2> QED BY <2>1, ZoneIs
  <1>2. PICK k \in DOMAIN s : was <= s[k].level + 10 /\ close > s[k].level + 10
    BY DEF WentOver
  <1>3. was < close
    <2> DEFINE l == s[k].level
    <2>1. l \in Int /\ was <= l + 10 /\ close > l + 10
      BY <1>1, <1>2
    <2> HIDE DEF l
    <2> QED BY <2>1
  <1>4. ASSUME NEW j \in DOMAIN s, was >= s[j].level - 10, close < s[j].level - 10 PROVE FALSE
    <2> DEFINE l == s[j].level
    <2>1. l \in Int /\ was >= l - 10 /\ close < l - 10
      BY <1>1, <1>4
    <2> HIDE DEF l
    <2> QED BY <1>3, <2>1
  <1> QED BY <1>4 DEF WentUnder

\* The two bars a market ends with, and those of the other.
LastPair(B, C, n) ==
  /\ Last(B) = B[n] /\ Last(Front(B)) = B[n - 1]
  /\ Last(C) = C[n] /\ Last(Front(C)) = C[n - 1]
  /\ \A i \in {n - 1, n} :
       /\ B[i].high \in Int /\ B[i].low \in Int /\ B[i].open \in Int /\ B[i].close \in Int
       /\ C[i].high = 50 - B[i].low /\ C[i].low = 50 - B[i].high
       /\ C[i].open = 50 - B[i].open /\ C[i].close = 50 - B[i].close

LEMMA LastTwo ==
  ASSUME NEW B, NEW C, Capsized(B, C), NEW n, n = Len(B)
  PROVE  /\ n \in Nat /\ n >= 2 /\ n \in 1 .. n /\ n - 1 \in 1 .. n
         /\ Last(B) = B[n] /\ Last(Front(B)) = B[n - 1]
         /\ Last(C) = C[n] /\ Last(Front(C)) = C[n - 1]
         /\ B[n - 1].close \in Int /\ B[n].close \in Int
         /\ C[n - 1].close = 50 - B[n - 1].close /\ C[n].close = 50 - B[n].close
         /\ LastPair(B, C, n)
  <1>1. n \in Nat /\ n >= 2 /\ Len(C) = n
    BY DEF Capsized
  <1>2. n \in 1 .. n /\ n - 1 \in 1 .. n
    BY <1>1
  <1>3. Last(B) = B[n] /\ Last(C) = C[n]
    BY <1>1 DEF Last
  <1>4. /\ Front(B) = SubSeq(B, 1, n - 1) /\ Front(C) = SubSeq(C, 1, n - 1)
    BY <1>1 DEF Front
  <1>5. ASSUME NEW S, Len(S) = n, DOMAIN S = 1 .. n, \A i \in 1 .. n : S[i] \in HourBar,
               Front(S) = SubSeq(S, 1, n - 1)
        PROVE  Last(Front(S)) = S[n - 1]
    <2>1. SubSeq(S, 1, n - 1) = [i \in 1 .. n - 1 |-> S[i]]
      BY <1>1, <1>5, SMT DEF SubSeq
    <2> DEFINE F == [i \in 1 .. n - 1 |-> S[i]]
    <2>2. F \in [1 .. n - 1 -> HourBar] /\ F[n - 1] = S[n - 1]
      BY <1>1, <1>5
    <2> HIDE DEF F
    <2>3. n - 1 \in Nat
      BY <1>1
    <2>4. Len(F) = n - 1
      BY <2>2, <2>3
    <2>5. Last(F) = F[n - 1]
      BY <2>4 DEF Last
    <2> QED BY <1>5, <2>1, <2>2, <2>5 DEF F
  <1>6. \A i \in 1 .. n : B[i] \in HourBar /\ C[i] \in HourBar
    BY DEF Capsized
  <1>7. DOMAIN B = 1 .. n /\ DOMAIN C = 1 .. n
    BY DEF Capsized
  <1>8. Last(Front(B)) = B[n - 1] /\ Last(Front(C)) = C[n - 1]
    <2>1. Len(B) = n
      OBVIOUS
    <2> QED BY <1>1, <1>4, <1>5, <1>6, <1>7, <2>1
  <1>9. \A i \in 1 .. n : /\ C[i].high = 50 - B[i].low /\ C[i].low = 50 - B[i].high
                          /\ C[i].open = 50 - B[i].open /\ C[i].close = 50 - B[i].close
    BY DEF Capsized
  <1>10. \A b \in HourBar : b.high \in Int /\ b.low \in Int /\ b.open \in Int /\ b.close \in Int
    BY DEF HourBar
  <1>11. \A i \in {n - 1, n} :
           /\ B[i].high \in Int /\ B[i].low \in Int /\ B[i].open \in Int /\ B[i].close \in Int
           /\ C[i].high = 50 - B[i].low /\ C[i].low = 50 - B[i].high
           /\ C[i].open = 50 - B[i].open /\ C[i].close = 50 - B[i].close
    BY <1>2, <1>6, <1>9, <1>10
  <1>12. LastPair(B, C, n)
    BY <1>3, <1>8, <1>11 DEF LastPair
  <1> QED BY <1>1, <1>2, <1>3, <1>8, <1>11, <1>12

LEMMA StructureTurned ==
  ASSUME NEW B, NEW C, Capsized(B, C), NEW s, NEW t, Rearranged(s, t), NEW session, NEW rush \in BOOLEAN
  PROVE  FlippedIntent(Structure(B, s, session, rush), Structure(C, t, session, rush))
  <1> DEFINE n == Len(B)
             was == B[n - 1].close
             close == B[n].close
             vas == C[n - 1].close
             klose == C[n].close
             h == Max(Highs(B, Recent(B)))
             l == Min(Lows(B, Recent(B)))
             i == Max(Highs(C, Recent(C)))
             m == Min(Lows(C, Recent(C)))
             many == Cardinality(Touches(B, s))
             nany == Cardinality(Touches(C, t))
             points == 40 + Min({15, n})
             pace == Momentum100(session)
             up == WentOver(s, was, close)
             dips == WentUnder(s, was, close)
             vp == WentOver(t, vas, klose)
             dovn == WentUnder(t, vas, klose)
  <1>1. /\ Last(B) = B[n] /\ Last(Front(B)) = B[n - 1] /\ Last(C) = C[n] /\ Last(Front(C)) = C[n - 1]
        /\ was \in Int /\ close \in Int /\ vas = 50 - was /\ klose = 50 - close
        /\ n \in Nat /\ n >= 2
    BY LastTwo
  <1>2. DOMAIN B = 1 .. n /\ DOMAIN C = 1 .. n /\ Len(C) = n
    BY DEF Capsized
  <1>3. i = 50 - l /\ m = 50 - h /\ h \in Int /\ l \in Int
    <2> DEFINE at == Recent(B)
    <2>1. at # {} /\ at \subseteq 1 .. n /\ Recent(C) = at
      <3>1. n \in 1 .. n /\ n > n - 15 /\ Len(B) = n
        BY <1>1
      <3> HIDE DEF n
      <3>2. n \in at /\ at \subseteq 1 .. n
        BY <1>2, <3>1 DEF Recent
      <3>3. Recent(C) = at
        BY <1>2, <3>1 DEF Recent
      <3> QED BY <3>2, <3>3
    <2> HIDE DEF at
    <2>2. /\ Max(Highs(C, at)) = 50 - Min(Lows(B, at)) /\ Min(Lows(C, at)) = 50 - Max(Highs(B, at))
          /\ Max(Highs(B, at)) \in Int /\ Min(Lows(B, at)) \in Int
      BY <2>1, EndsTurned
    <2> QED BY <2>1, <2>2 DEF at
  <1>4. nany = many
    BY TouchesTurned
  <1>5. dovn <=> up
    BY <1>1, WentOverTurned
  <1>6. vp <=> dips
    <2>1. Rearranged(t, s)
      BY RearrangedBack
    <2>2. vas \in Int /\ klose \in Int /\ was = 50 - vas /\ close = 50 - klose
      BY <1>1
    <2> HIDE DEF was, close, vas, klose
    <2>3. WentUnder(s, 50 - vas, 50 - klose) <=> WentOver(t, vas, klose)
      BY <2>1, <2>2, WentOverTurned
    <2> QED BY <2>2, <2>3
  <1>7. up => ~dips
    <2>1. s \in Seq(FoundZones)
      BY DEF Rearranged
    <2> QED BY <1>1, <2>1, NotBothWays
  <1>8. Structure(B, s, session, rush) =
          IF h - l < 10 /\ many >= 2 THEN Intent("compression", "breakout_pending", points)
          ELSE IF up /\ rush THEN Intent("momentum", "up", pace)
          ELSE IF dips /\ rush THEN Intent("momentum", "down", pace)
          ELSE IF session = "asian" THEN Intent("accumulation", "range", 40)
          ELSE Intent("unknown", "range", 30)
    BY <1>1 DEF Structure, WentOver, WentUnder
  <1>9. Structure(C, t, session, rush) =
          IF i - m < 10 /\ nany >= 2 THEN Intent("compression", "breakout_pending", points)
          ELSE IF vp /\ rush THEN Intent("momentum", "up", pace)
          ELSE IF dovn /\ rush THEN Intent("momentum", "down", pace)
          ELSE IF session = "asian" THEN Intent("accumulation", "range", 40)
          ELSE Intent("unknown", "range", 30)
    BY <1>1, <1>2 DEF Structure, WentOver, WentUnder
  <1> HIDE DEF up, dips, vp, dovn, h, l, i, m, many, nany, points, pace
  <1>10. i - m = h - l
    BY <1>3
  <1>11. /\ Flip("breakout_pending") = "breakout_pending" /\ Flip("range") = "range"
         /\ Flip("up") = "down" /\ Flip("down") = "up"
    BY DEF Flip
  <1>12. /\ FlippedIntent(Intent("compression", "breakout_pending", points), Intent("compression", "breakout_pending", points))
         /\ FlippedIntent(Intent("momentum", "up", pace), Intent("momentum", "down", pace))
         /\ FlippedIntent(Intent("momentum", "down", pace), Intent("momentum", "up", pace))
         /\ FlippedIntent(Intent("accumulation", "range", 40), Intent("accumulation", "range", 40))
         /\ FlippedIntent(Intent("unknown", "range", 30), Intent("unknown", "range", 30))
    <2> DEFINE x == 40
               y == 30
    <2> HIDE DEF x, y
    <2>1. /\ FlippedIntent(Intent("accumulation", "range", x), Intent("accumulation", "range", x))
          /\ FlippedIntent(Intent("unknown", "range", y), Intent("unknown", "range", y))
      BY <1>11, IntentTurned
    <2>2. /\ FlippedIntent(Intent("momentum", "up", pace), Intent("momentum", "down", pace))
          /\ FlippedIntent(Intent("momentum", "down", pace), Intent("momentum", "up", pace))
          /\ FlippedIntent(Intent("compression", "breakout_pending", points), Intent("compression", "breakout_pending", points))
      BY <1>11, IntentTurned
    <2> QED BY <2>1, <2>2 DEF x, y
  <1> QED BY <1>4, <1>5, <1>6, <1>7, <1>8, <1>9, <1>10, <1>12

LEMMA PairTurned ==
  ASSUME NEW a \in Int, NEW b \in Int
  PROVE  /\ Max({50 - a, 50 - b}) = 50 - Min({a, b})
         /\ Min({50 - a, 50 - b}) = 50 - Max({a, b})
         /\ Min({a, b}) \in Int /\ Max({a, b}) \in Int
  <1> DEFINE x == 50 - a
             y == 50 - b
  <1>1. x \in Int /\ y \in Int
    OBVIOUS
  <1>2. x = 50 - a /\ y = 50 - b
    OBVIOUS
  <1> HIDE DEF x, y
  <1>3. Max({x, y}) \in Int /\ Max({x, y}) >= x /\ Max({x, y}) >= y /\ Max({x, y}) \in {x, y}
    BY <1>1, MaxOfTwo
  <1>4. Min({x, y}) \in Int /\ Min({x, y}) <= x /\ Min({x, y}) <= y /\ Min({x, y}) \in {x, y}
    BY <1>1, MinOfTwo
  <1>5. Max({a, b}) \in Int /\ Max({a, b}) >= a /\ Max({a, b}) >= b /\ Max({a, b}) \in {a, b}
    BY MaxOfTwo
  <1>6. Min({a, b}) \in Int /\ Min({a, b}) <= a /\ Min({a, b}) <= b /\ Min({a, b}) \in {a, b}
    BY MinOfTwo
  <1>7. Max({x, y}) = 50 - Min({a, b})
    BY <1>2, <1>3, <1>6
  <1>8. Min({x, y}) = 50 - Max({a, b})
    BY <1>2, <1>4, <1>5
  <1> QED BY <1>5, <1>6, <1>7, <1>8 DEF x, y

\* A bar and the same bar from below, and the one before it.
TurnedBar(b, c) ==
  /\ b.high \in Int /\ b.low \in Int /\ b.open \in Int /\ b.close \in Int
  /\ c.high = 50 - b.low /\ c.low = 50 - b.high /\ c.open = 50 - b.open /\ c.close = 50 - b.close

\* What is counted for a sweep from above is counted from below.
LEMMA SweepTurned ==
  ASSUME NEW b, NEW c, TurnedBar(b, c), NEW p, NEW q, TurnedBar(p, q), NEW l \in Int
  PROVE  Upper(c, q, 50 - l) = Lower(b, p, l) /\ Lower(c, q, 50 - l) = Upper(b, p, l)
  <1> DEFINE o == b.open
             k == b.close
             u == c.open
             w == c.close
             m == 50 - l
  <1>1. /\ b.high \in Int /\ b.low \in Int /\ o \in Int /\ k \in Int
        /\ c.high = 50 - b.low /\ c.low = 50 - b.high /\ u = 50 - o /\ w = 50 - k
        /\ p.high \in Int /\ p.low \in Int /\ q.high = 50 - p.low /\ q.low = 50 - p.high
    BY DEF TurnedBar
  <1>2. /\ Max({u, w}) = 50 - Min({o, k}) /\ Min({u, w}) = 50 - Max({o, k})
        /\ Min({o, k}) \in Int /\ Max({o, k}) \in Int
    <2> HIDE DEF o, k
    <2>1. /\ Max({50 - o, 50 - k}) = 50 - Min({o, k}) /\ Min({50 - o, 50 - k}) = 50 - Max({o, k})
          /\ Min({o, k}) \in Int /\ Max({o, k}) \in Int
      BY <1>1, PairTurned
    <2> QED BY <1>1, <2>1
  <1>3. Distance(u, w) = Distance(o, k)
    <2> HIDE DEF o, k
    <2>1. Distance(50 - o, 50 - k) = Distance(o, k)
      BY <1>1, DistanceIs
    <2> QED BY <1>1, <2>1
  <1>4. Upper(c, q, m) = Counting(c.high - m, c.high - Max({u, w}), Distance(u, w), q.high - w, q.high - q.low)
    BY DEF Upper
  <1>5. Lower(b, p, l) = Counting(l - b.low, Min({o, k}) - b.low, Distance(o, k), k - p.low, p.high - p.low)
    BY DEF Lower
  <1>6. Lower(c, q, m) = Counting(m - c.low, Min({u, w}) - c.low, Distance(u, w), w - q.low, q.high - q.low)
    BY DEF Lower
  <1>7. Upper(b, p, l) = Counting(b.high - l, b.high - Max({o, k}), Distance(o, k), p.high - k, p.high - p.low)
    BY DEF Upper
  <1> DEFINE hi == Max({o, k})
             lo == Min({o, k})
  <1>8. hi \in Int /\ lo \in Int /\ Max({u, w}) = 50 - lo /\ Min({u, w}) = 50 - hi
    BY <1>2
  <1>9. m = 50 - l
    OBVIOUS
  <1> HIDE DEF o, k, u, w, m, hi, lo
  <1>10. /\ c.high - m = l - b.low /\ c.high - Max({u, w}) = lo - b.low
         /\ q.high - w = k - p.low /\ q.high - q.low = p.high - p.low
    BY <1>1, <1>8, <1>9
  <1>11. /\ m - c.low = b.high - l /\ Min({u, w}) - c.low = b.high - hi
         /\ w - q.low = p.high - k
    BY <1>1, <1>8, <1>9
  <1>12. Upper(c, q, m) = Lower(b, p, l)
    BY <1>3, <1>4, <1>5, <1>10 DEF lo
  <1>13. Lower(c, q, m) = Upper(b, p, l)
    BY <1>3, <1>6, <1>7, <1>10, <1>11 DEF hi
  <1> QED BY <1>12, <1>13 DEF m

LEMMA AssessTurned ==
  ASSUME NEW B, NEW C, Capsized(B, C), NEW s, NEW t, Rearranged(s, t), NEW session, NEW rush \in BOOLEAN,
         s # <<>> => Decided(s, Last(B).close)
  PROVE  FlippedIntent(Assess(B, s, session, rush), Assess(C, t, session, rush))
  <1> DEFINE n == Len(B)
  <1>20. LastPair(B, C, n)
    BY LastTwo
  <1> HIDE DEF n
  <1> DEFINE b == B[n]
             p == B[n - 1]
             c == C[n]
             q == C[n - 1]
             l == NearestOf(s, b.close).level
             k == NearestOf(t, c.close).level
             x == Structure(B, s, session, rush)
             y == Structure(C, t, session, rush)
             shut == session \in {"weekend", "holiday"}
             Swept(points, move, rest) == IF points >= 3 THEN Intent("liquidity_sweep", move, 85)
                                          ELSE IF points = 2 THEN Intent("possible_sweep", move, 55)
                                          ELSE rest
  <1>1. Last(B) = b /\ Last(Front(B)) = p /\ Last(C) = c /\ Last(Front(C)) = q
    BY <1>20 DEF LastPair
  <1>2. TurnedBar(b, c) /\ TurnedBar(p, q)
    BY <1>20 DEF LastPair, TurnedBar
  <1>3. FlippedIntent(x, y)
    BY StructureTurned
  <1>4. Assess(B, s, session, rush) =
          IF shut THEN NeutralIntent
          ELSE IF s = <<>> THEN x
          ELSE IF b.high > l /\ b.close <= l THEN Swept(Upper(b, p, l), "down", x)
          ELSE IF b.low < l /\ b.close >= l THEN Swept(Lower(b, p, l), "up", x)
          ELSE x
    <2> HIDE DEF b, p, n
    <2> QED BY <1>1 DEF Assess
  <1>5. Assess(C, t, session, rush) =
          IF shut THEN NeutralIntent
          ELSE IF t = <<>> THEN y
          ELSE IF c.high > k /\ c.close <= k THEN Swept(Upper(c, q, k), "down", y)
          ELSE IF c.low < k /\ c.close >= k THEN Swept(Lower(c, q, k), "up", y)
          ELSE y
    <2> HIDE DEF c, q, n
    <2> QED BY <1>1 DEF Assess
  <1>6. t = <<>> <=> s = <<>>
    <2>1. s \in Seq(FoundZones) /\ t \in Seq(FoundZones) /\ Len(t) = Len(s)
      BY DEF Rearranged
    <2>2. ASSUME NEW z \in Seq(FoundZones) PROVE z = <<>> <=> Len(z) = 0
      OBVIOUS
    <2> QED BY <2>1, <2>2
  <1>7. /\ b.high \in Int /\ b.low \in Int /\ b.open \in Int /\ b.close \in Int
        /\ c.high = 50 - b.low /\ c.low = 50 - b.high /\ c.close = 50 - b.close
    BY <1>2 DEF TurnedBar
  <1>8. s # <<>> => l \in Int /\ l # b.close /\ k = 50 - l
    <2> DEFINE v == b.close
    <2>1. v \in Int /\ c.close = 50 - v /\ (s # <<>> => Decided(s, v))
      BY <1>1, <1>7
    <2> HIDE DEF v
    <2>2. s # <<>> => /\ NearestOf(s, v).level \in Int /\ NearestOf(s, v).level # v
                      /\ NearestOf(t, 50 - v).level = 50 - NearestOf(s, v).level
      BY <2>1, NearestTurned
    <2> QED BY <2>1, <2>2 DEF v
  <1> HIDE DEF b, c, p, q, l, k, x, y, shut
  <1>9. FlippedIntent(NeutralIntent, NeutralIntent)
    <2> DEFINE z == 0
    <2>1. Flip("range") = "range"
      BY DEF Flip
    <2> HIDE DEF z
    <2>2. FlippedIntent(Intent("unknown", "range", z), Intent("unknown", "range", z))
      BY <2>1, IntentTurned
    <2> QED BY <2>2 DEF z, NeutralIntent
  <1>10. ASSUME NEW points
         PROVE  /\ FlippedIntent(Swept(points, "down", x), Swept(points, "up", y))
                /\ FlippedIntent(Swept(points, "up", x), Swept(points, "down", y))
    <2> DEFINE v == 85
               w == 55
               three == points >= 3
               two == points = 2
    <2>1. Flip("up") = "down" /\ Flip("down") = "up"
      BY DEF Flip
    <2> HIDE DEF v, w, three, two
    <2>2. /\ FlippedIntent(Intent("liquidity_sweep", "down", v), Intent("liquidity_sweep", "up", v))
          /\ FlippedIntent(Intent("liquidity_sweep", "up", v), Intent("liquidity_sweep", "down", v))
      BY <2>1, IntentTurned
    <2>3. /\ FlippedIntent(Intent("possible_sweep", "down", w), Intent("possible_sweep", "up", w))
          /\ FlippedIntent(Intent("possible_sweep", "up", w), Intent("possible_sweep", "down", w))
      BY <2>1, IntentTurned
    <2>4. \A move, rest : Swept(points, move, rest) = IF three THEN Intent("liquidity_sweep", move, v)
                                                      ELSE IF two THEN Intent("possible_sweep", move, w) ELSE rest
      BY DEF v, w, three, two
    <2> HIDE DEF Swept
    <2>5. CASE three
      BY <2>2, <2>4, <2>5
    <2>6. CASE ~three /\ two
      BY <2>3, <2>4, <2>6
    <2>7. CASE ~three /\ ~two
      BY <1>3, <2>4, <2>7
    <2> QED BY <2>5, <2>6, <2>7
  <1> DEFINE over == b.high > l /\ b.close <= l
             under == b.low < l /\ b.close >= l
             above == c.high > k /\ c.close <= k
             below == c.low < k /\ c.close >= k
  <1>11. CASE shut
    BY <1>4, <1>5, <1>9, <1>11
  <1>12. CASE ~shut /\ s = <<>>
    BY <1>3, <1>4, <1>5, <1>6, <1>12
  <1>13. CASE ~shut /\ s # <<>>
    <2>1. l \in Int /\ l # b.close /\ k = 50 - l
      BY <1>8, <1>13
    <2>2. (above <=> under) /\ (below <=> over) /\ ~(over /\ under)
      BY <1>7, <2>1
    <2>3. Upper(c, q, k) = Lower(b, p, l) /\ Lower(c, q, k) = Upper(b, p, l)
      BY <1>2, <2>1, SweepTurned
    <2>4. Assess(B, s, session, rush) =
            IF over THEN Swept(Upper(b, p, l), "down", x)
            ELSE IF under THEN Swept(Lower(b, p, l), "up", x) ELSE x
      BY <1>4, <1>13
    <2>5. Assess(C, t, session, rush) =
            IF above THEN Swept(Lower(b, p, l), "down", y)
            ELSE IF below THEN Swept(Upper(b, p, l), "up", y) ELSE y
      BY <1>5, <1>6, <1>13, <2>3
    <2> HIDE DEF Swept, over, under, above, below
    <2>6. CASE over
      BY <1>10, <2>2, <2>4, <2>5, <2>6
    <2>7. CASE under
      BY <1>10, <2>2, <2>4, <2>5, <2>7
    <2>8. CASE ~over /\ ~under
      BY <1>3, <2>2, <2>4, <2>5, <2>8
    <2> QED BY <2>6, <2>7, <2>8
  <1> QED BY <1>11, <1>12, <1>13

LEMMA ReadingTurned ==
  ASSUME NEW v \in MarketView, Len(DetectZones(v.bars)) < Strongest
  PROVE  /\ Liquidity(MirrorView(v)).zones = {MirrorZone(z) : z \in Liquidity(v).zones}
         /\ ~Undecided(v) => /\ FlippedIntent(Liquidity(v).intent, Liquidity(MirrorView(v)).intent)
                             /\ Liquidity(MirrorView(v)).signal = Flip(Liquidity(v).signal)
  <1> DEFINE B == v.bars
             C == MirrorView(v).bars
             r == v.rush
             s == DetectZones(B)
             t == DetectZones(C)
             e == SessionAt(Today(B), Last(B).hour)
             i == Assess(B, s, e, r)
             j == Assess(C, t, e, r)
  <1>1. Capsized(B, C) /\ MirrorView(v).rush = r
    BY ViewTurned
  <1>2. r \in BOOLEAN
    BY DEF MarketView
  <1>3. Liquidity(v) = [zones |-> ToSet(s), intent |-> i, signal |-> LiquiditySignal(i)]
    BY DEF Liquidity
  <1>4. SessionAt(Today(C), Last(C).hour) = e
    <2> HIDE DEF C
    <2>1. Last(B) = B[Len(B)] /\ Last(C) = C[Len(B)] /\ Today(C) = Today(B)
      BY <1>1, SameStretches
    <2>2. C[Len(B)].hour = B[Len(B)].hour
      BY <1>1 DEF Capsized
    <2> QED BY <2>1, <2>2
  <1>5. Liquidity(MirrorView(v)) = [zones |-> ToSet(t), intent |-> j, signal |-> LiquiditySignal(j)]
    BY <1>1, <1>4 DEF Liquidity
  <1> HIDE DEF C
  <1>6. Rearranged(s, t)
    <2> HIDE DEF B
    <2> QED BY <1>1, ZonesMirrored DEF B
  <1>7. ToSet(t) = {MirrorZone(z) : z \in ToSet(s)}
    <2> HIDE DEF s, t
    <2> QED BY <1>6, ZonesAsSets
  <1>8. ASSUME ~Undecided(v) PROVE FlippedIntent(i, j)
    <2>1. s # <<>> => Decided(s, Last(B).close)
      BY <1>8 DEF Undecided, Decided
    <2> HIDE DEF B, s, t, e, r
    <2>2. FlippedIntent(Assess(B, s, e, r), Assess(C, t, e, r))
      BY <1>1, <1>2, <1>6, <2>1, AssessTurned
    <2> QED BY <2>2
  <1> HIDE DEF i, j, s, t
  <1>9. FlippedIntent(i, j) => LiquiditySignal(j) = Flip(LiquiditySignal(i))
    BY SignalTurned
  <1>10. /\ Liquidity(v).zones = ToSet(s) /\ Liquidity(v).intent = i /\ Liquidity(v).signal = LiquiditySignal(i)
         /\ Liquidity(MirrorView(v)).zones = ToSet(t) /\ Liquidity(MirrorView(v)).intent = j
         /\ Liquidity(MirrorView(v)).signal = LiquiditySignal(j)
    BY <1>3, <1>5
  <1> QED BY <1>7, <1>8, <1>9, <1>10

\* What is left in the metadata was read from the market that is looked at.
ContextInv ==
  /\ view \in MarketView \/ "bars" \notin DOMAIN view
  /\ \/ context = Blank
     \/ view \in MarketView /\ context = [kind |-> "liquidity", read |-> Liquidity(view)]
     \/ context = [kind |-> "doubt", read |-> AssessDoubt(view)]

LEMMA ContextStarts == ContextInit => ContextInv
  BY ContextAssumption DEF ContextInit, ContextStart, ContextInv

LEMMA ContextStep == ContextInv /\ [ContextNext]_contextVars => ContextInv'
  <1> SUFFICES ASSUME ContextInv, [ContextNext]_contextVars
               PROVE  ContextInv'
    OBVIOUS
  <1>1. CASE Analyze
    <2>1. view' = view /\ view \in MarketView /\ context' = [kind |-> "liquidity", read |-> Liquidity(view)]
      BY <1>1 DEF Analyze, ContextInv
    <2> DEFINE R == Liquidity(view)
    <2>2. Liquidity(view') = R
      BY <2>1
    <2> HIDE DEF R
    <2> QED BY <2>1, <2>2 DEF ContextInv, R
  <1>2. CASE AssessUncertainty
    <2>1. view' = view /\ context' = [kind |-> "doubt", read |-> AssessDoubt(view)]
      BY <1>2 DEF AssessUncertainty
    <2> QED BY <2>1 DEF ContextInv
  <1>3. CASE UNCHANGED contextVars
    BY <1>3 DEF contextVars, ContextInv
  <1> QED BY <1>1, <1>2, <1>3 DEF ContextNext

LEMMA IntentAlike == ContextInv => IntentMirrored
  <1> SUFFICES ASSUME ContextInv, context.kind = "liquidity", Len(DetectZones(view.bars)) < Strongest
               PROVE  /\ Liquidity(MirrorView(view)).zones =
                           {[z EXCEPT !.level = 50 - @, !.kind = Flip(@)] : z \in context.read.zones}
                      /\ ~Undecided(view) =>
                           /\ Liquidity(MirrorView(view)).intent = [context.read.intent EXCEPT !.move = Flip(@)]
                           /\ Liquidity(MirrorView(view)).signal = Flip(context.read.signal)
    BY DEF IntentMirrored
  <1>1. view \in MarketView /\ context.read = Liquidity(view)
    <2>1. context # Blank /\ context # [kind |-> "doubt", read |-> AssessDoubt(view)]
      BY DEF Blank
    <2> QED BY <2>1 DEF ContextInv
  <1> DEFINE R == Liquidity(view)
             M == Liquidity(MirrorView(view))
  <1>2. /\ M.zones = {MirrorZone(z) : z \in R.zones}
        /\ ~Undecided(view) => FlippedIntent(R.intent, M.intent) /\ M.signal = Flip(R.signal)
    BY <1>1, ReadingTurned
  <1> HIDE DEF R, M
  <1>3. M.zones = {[z EXCEPT !.level = 50 - @, !.kind = Flip(@)] : z \in R.zones}
    BY <1>2 DEF MirrorZone
  <1>4. ~Undecided(view) => M.intent = [R.intent EXCEPT !.move = Flip(@)] /\ M.signal = Flip(R.signal)
    BY <1>2 DEF FlippedIntent
  <1> QED BY <1>1, <1>3, <1>4 DEF R, M

(* Both sides of the market are served alike. *)

\* What is proposed is looked at as long as it is.
LEMMA ProposalStays ==
  AssessedIs /\ proposal \in Proposals /\ [SizingNext]_sizingVars => (AssessedIs /\ proposal \in Proposals)'
  <1> SUFFICES ASSUME AssessedIs, proposal \in Proposals, [SizingNext]_sizingVars
               PROVE  (AssessedIs /\ proposal \in Proposals)'
    OBVIOUS
  <1>1. AssessedIs'
    BY AssessedStep
  <1>2. proposal' = proposal
    BY DEF SizingNext, AssessTrade, EnhanceSafety, sizingVars
  <1> QED BY <1>1, <1>2

\* In a market turned upside down the strategies signal the other side and the
\* vote of the arbiter turns with them, the bias of a chart, its levels and the
\* verdict of its timeframes point the other way, the intent read off the
\* liquidity zones moves the other way with the same confidence, a trade gets
\* the same distances to its stop and its target and the same lots, and a thesis
\* starts with the confidence its opposite had: no bull is believed sooner than
\* a bear.  Mirrored leaves out what the code decides by the order it looks in:
\* a market oversold by one measure and overbought by another, a drawn vote, a
\* chart that does not move, two zones equally near to the price or one it
\* closed on, and more zones than are kept; and the head and shoulders and the
\* confidence of a channel, which have one side only.
THEOREM MirrorsAgree ==
  ChoiceSpec /\ ChartSpec /\ ContextSpec /\ SizingSpec /\ WorldSpec => []Mirrored
  <1>1. ChoiceSpec => []Impartial
    BY ChoiceStarts, ChoiceStep, NobodyFavoured, PTL DEF ChoiceSpec
  <1>2. ChartSpec => []ChartsMirrored
    BY ChartStarts, ChartStep, ChartsAlike, PTL DEF ChartSpec
  <1>3. ContextSpec => []IntentMirrored
    BY ContextStarts, ContextStep, IntentAlike, PTL DEF ContextSpec
  <1>4. SizingInit => AssessedIs /\ proposal \in Proposals
    BY SizingBegins DEF SizingInit, SizingStart, AssessedIs
  <1>5. SizingSpec => []SizingMirrored
    BY <1>4, ProposalStays, TradesMirrored, PTL DEF SizingSpec
  <1>6. WorldInit => LeadingInv
    <2>1. Leading(BlankWorld)
      <3>1. DOMAIN BlankWorld = {"price", "spread", "bias", "rsi", "adx", "hist", "mtf", "direction",
                                 "regime", "session", "rates", "allowed", "soon", "trades"}
        BY Zenon DEF BlankWorld
      <3>2. /\ BlankWorld.bias = "neutral" /\ BlankWorld.mtf = "neutral"
            /\ BlankWorld.direction = "neutral" /\ BlankWorld.rsi = 500 /\ BlankWorld.hist = 0
        BY Zenon DEF BlankWorld
      <3>3. "neutral" \in DOMAIN Turn
        BY Zenon DEF Turn
      <3> QED BY <3>1, <3>2, <3>3 DEF Leading
    <2>2. Worded(<< >>)
      BY DEF Worded
    <2> QED BY <2>1, <2>2 DEF WorldInit, LeadingInv
  <1>7. WorldSpec => []ThesesMirrored
    BY <1>6, LeadingStep, ThesesAlike, PTL DEF WorldSpec
  <1>8. Impartial /\ ChartsMirrored /\ IntentMirrored /\ SizingMirrored /\ ThesesMirrored => Mirrored
    BY DEF Mirrored
  <1> QED BY <1>1, <1>2, <1>3, <1>5, <1>7, <1>8, PTL
=============================================================================
