-------------------------- MODULE Backtest_proofs --------------------------
(* The reports of Backtest look at no bar ahead, gain nothing from costs    *)
(* and hide no loss, for any candles, strategy, levels, lookback and folds. *)
(* The replays, the balance and the drawdown are recursive functions of the *)
(* number of bars or trades; what holds of all of them is shown by          *)
(* induction over that number, as a statement about sets of numbers.        *)
EXTENDS Backtest, FiniteSetTheorems, SequenceTheorems, WellFoundedInduction, TLAPS

LEMMA LeastNumber ==
  ASSUME NEW T \in SUBSET Nat, T # {}
  PROVE  \E x \in T : \A y \in T : x <= y
  <1> DEFINE R == {ss \in Nat \X Nat : ss[1] < ss[2]}
  <1>1. IsWellFoundedOn(R, Nat)
    BY NatLessThanWellFounded DEF OpToRel
  <1>2. \A x \in Nat : \A y \in Nat : <<y, x>> \in R <=> y < x
    OBVIOUS
  <1> HIDE DEF R
  <1>3. PICK x \in T : \A y \in T : ~ (<<y, x>> \in R)
    BY <1>1, WFMin
  <1>4. \A y \in T : ~(y < x)
    BY <1>2, <1>3
  <1> QED BY <1>4

LEMMA EveryNumber ==
  ASSUME NEW S, 0 \in S, \A n \in Nat : n \in S => n + 1 \in S
  PROVE  Nat \subseteq S
  <1> DEFINE T == {n \in Nat : n \notin S}
  <1>1. ASSUME T # {} PROVE FALSE
    <2>1. T \in SUBSET Nat
      OBVIOUS
    <2> HIDE DEF T
    <2>2. PICK n \in T : \A m \in T : n <= m
      BY <1>1, <2>1, LeastNumber
    <2>3. n \in Nat /\ n \notin S
      BY DEF T
    <2>4. n # 0
      BY <2>3
    <2>5. n - 1 \in Nat /\ n - 1 \notin T
      BY <2>2, <2>3, <2>4, <2>1
    <2>6. n - 1 \in S
      BY <2>5 DEF T
    <2>7. (n - 1) + 1 = n
      BY <2>3
    <2> QED BY <2>3, <2>5, <2>6, <2>7
  <1> QED BY <1>1

BalancesAre(pnls, n, f) ==
  f = [k \in 0 .. n |-> IF k = 0 THEN 0 ELSE f[k - 1] + pnls[k]]

\* The balance after every trade exists.
LEMMA BalancesExist ==
  ASSUME NEW pnls, NEW n \in Nat
  PROVE  \E f : BalancesAre(pnls, n, f)
  <1> DEFINE S == {m \in Nat : \E f : BalancesAre(pnls, m, f)}
  <1>1. 0 \in S
    <2>1. BalancesAre(pnls, 0, [k \in 0 .. 0 |-> 0])
      BY DEF BalancesAre
    <2> QED BY <2>1
  <1>2. ASSUME NEW m \in Nat, m \in S PROVE m + 1 \in S
    <2>1. PICK f : BalancesAre(pnls, m, f)
      BY <1>2
    <2>2. \A k \in 0 .. m : f[k] = IF k = 0 THEN 0 ELSE f[k - 1] + pnls[k]
      BY <2>1 DEF BalancesAre
    <2> DEFINE last == f[m] + pnls[m + 1]
               g == [k \in 0 .. m + 1 |-> IF k = m + 1 THEN last ELSE f[k]]
    <2>3. \A k \in 0 .. m + 1 : g[k] = IF k = 0 THEN 0 ELSE g[k - 1] + pnls[k]
      <3> HIDE DEF last
      <3> TAKE k \in 0 .. m + 1
      <3>1. CASE k = 0
        BY <2>2, <3>1
      <3>2. CASE k = m + 1
        <4>1. g[k] = last /\ k - 1 = m /\ g[m] = f[m] /\ k # 0
          BY <3>2
        <4> QED BY <3>2, <4>1 DEF last
      <3>3. CASE k # 0 /\ k # m + 1
        <4>1. k \in 0 .. m /\ k - 1 \in 0 .. m
          BY <3>3
        <4>2. g[k] = f[k] /\ g[k - 1] = f[k - 1]
          BY <3>3, <4>1
        <4> QED BY <2>2, <3>3, <4>1, <4>2
      <3> QED BY <3>1, <3>2, <3>3
    <2>4. g = [k \in 0 .. m + 1 |-> g[k]]
      OBVIOUS
    <2> HIDE DEF g
    <2>5. BalancesAre(pnls, m + 1, g)
      BY <2>3, <2>4 DEF BalancesAre
    <2> QED BY <2>5
  <1>3. n \in S
    <2> HIDE DEF S
    <2> QED BY <1>1, <1>2, EveryNumber
  <1> QED BY <1>3

LEMMA BalancesIs ==
  ASSUME NEW pnls, Len(pnls) \in Nat
  PROVE  /\ Balances(pnls)[0] = 0
         /\ \A k \in 1 .. Len(pnls) : Balances(pnls)[k] = Balances(pnls)[k - 1] + pnls[k]
         /\ DOMAIN Balances(pnls) = 0 .. Len(pnls)
  <1> DEFINE f == Balances(pnls)
  <1>1. BalancesAre(pnls, Len(pnls), f)
    <2>1. f = CHOOSE g : BalancesAre(pnls, Len(pnls), g)
      BY DEF Balances, BalancesAre
    <2> HIDE DEF f
    <2> QED BY <2>1, BalancesExist
  <1> HIDE DEF f
  <1>2. DOMAIN f = 0 .. Len(pnls) /\ \A k \in 0 .. Len(pnls) : f[k] = IF k = 0 THEN 0 ELSE f[k - 1] + pnls[k]
    BY <1>1 DEF BalancesAre
  <1>3. 0 \in 0 .. Len(pnls) /\ \A k \in 1 .. Len(pnls) : k \in 0 .. Len(pnls) /\ k # 0
    OBVIOUS
  <1>4. f[0] = 0 /\ \A k \in 1 .. Len(pnls) : f[k] = f[k - 1] + pnls[k]
    BY <1>2, <1>3
  <1> QED BY <1>2, <1>4 DEF f

FallsAre(pnls, n, f) ==
  f = [k \in 0 .. n |-> IF k = 0 THEN [sum |-> 0, peak |-> 0, most |-> 0] ELSE FallBy(f[k - 1], pnls[k])]

\* So does the deepest fall up to every trade.
LEMMA FallsExist ==
  ASSUME NEW pnls, NEW n \in Nat
  PROVE  \E f : FallsAre(pnls, n, f)
  <1> DEFINE S == {m \in Nat : \E f : FallsAre(pnls, m, f)}
  <1>1. 0 \in S
    <2>1. FallsAre(pnls, 0, [k \in 0 .. 0 |-> [sum |-> 0, peak |-> 0, most |-> 0]])
      BY DEF FallsAre
    <2> QED BY <2>1
  <1>2. ASSUME NEW m \in Nat, m \in S PROVE m + 1 \in S
    <2>1. PICK f : FallsAre(pnls, m, f)
      BY <1>2
    <2>2. \A k \in 0 .. m : f[k] = IF k = 0 THEN [sum |-> 0, peak |-> 0, most |-> 0] ELSE FallBy(f[k - 1], pnls[k])
      BY <2>1 DEF FallsAre
    <2> DEFINE last == FallBy(f[m], pnls[m + 1])
               g == [k \in 0 .. m + 1 |-> IF k = m + 1 THEN last ELSE f[k]]
    <2>3. \A k \in 0 .. m + 1 : g[k] = IF k = 0 THEN [sum |-> 0, peak |-> 0, most |-> 0] ELSE FallBy(g[k - 1], pnls[k])
      <3> HIDE DEF last
      <3> TAKE k \in 0 .. m + 1
      <3>1. CASE k = 0
        BY <2>2, <3>1
      <3>2. CASE k = m + 1
        <4>1. g[k] = last /\ k - 1 = m /\ g[m] = f[m] /\ k # 0
          BY <3>2
        <4> QED BY <3>2, <4>1 DEF last
      <3>3. CASE k # 0 /\ k # m + 1
        <4>1. k \in 0 .. m /\ k - 1 \in 0 .. m
          BY <3>3
        <4>2. g[k] = f[k] /\ g[k - 1] = f[k - 1]
          BY <3>3, <4>1
        <4> QED BY <2>2, <3>3, <4>1, <4>2
      <3> QED BY <3>1, <3>2, <3>3
    <2>4. g = [k \in 0 .. m + 1 |-> g[k]]
      OBVIOUS
    <2> HIDE DEF g
    <2>5. FallsAre(pnls, m + 1, g)
      BY <2>3, <2>4 DEF FallsAre
    <2> QED BY <2>5
  <1>3. n \in S
    <2> HIDE DEF S
    <2> QED BY <1>1, <1>2, EveryNumber
  <1> QED BY <1>3

LEMMA FallsIs ==
  ASSUME NEW pnls, Len(pnls) \in Nat
  PROVE  /\ Falls(pnls)[0] = [sum |-> 0, peak |-> 0, most |-> 0]
         /\ \A k \in 1 .. Len(pnls) : Falls(pnls)[k] = FallBy(Falls(pnls)[k - 1], pnls[k])
         /\ DOMAIN Falls(pnls) = 0 .. Len(pnls)
  <1> DEFINE f == Falls(pnls)
  <1>1. FallsAre(pnls, Len(pnls), f)
    <2>1. f = CHOOSE g : FallsAre(pnls, Len(pnls), g)
      BY DEF Falls, FallsAre
    <2> HIDE DEF f
    <2> QED BY <2>1, FallsExist
  <1> HIDE DEF f
  <1>2. DOMAIN f = 0 .. Len(pnls) /\ \A k \in 0 .. Len(pnls) : f[k] = IF k = 0 THEN [sum |-> 0, peak |-> 0, most |-> 0] ELSE FallBy(f[k - 1], pnls[k])
    BY <1>1 DEF FallsAre
  <1>3. 0 \in 0 .. Len(pnls) /\ \A k \in 1 .. Len(pnls) : k \in 0 .. Len(pnls) /\ k # 0
    OBVIOUS
  <1>4. f[0] = [sum |-> 0, peak |-> 0, most |-> 0] /\ \A k \in 1 .. Len(pnls) : f[k] = FallBy(f[k - 1], pnls[k])
    BY <1>2, <1>3
  <1> QED BY <1>2, <1>4 DEF f

ReplaysAre(bars, filter, costs, n, f) ==
  f = [k \in 0 .. n |-> IF k = 0 THEN [open |-> <<>>, trades |-> <<>>] ELSE ReplayBar(bars, filter, costs, f[k - 1], Lookback + k)]

\* What an engine has after every bar exists: the analytics engine,
LEMMA ReplaysExist ==
  ASSUME NEW bars, NEW filter, NEW costs, NEW n \in Nat
  PROVE  \E f : ReplaysAre(bars, filter, costs, n, f)
  <1> DEFINE S == {m \in Nat : \E f : ReplaysAre(bars, filter, costs, m, f)}
  <1>1. 0 \in S
    <2>1. ReplaysAre(bars, filter, costs, 0, [k \in 0 .. 0 |-> [open |-> <<>>, trades |-> <<>>]])
      BY DEF ReplaysAre
    <2> QED BY <2>1
  <1>2. ASSUME NEW m \in Nat, m \in S PROVE m + 1 \in S
    <2>1. PICK f : ReplaysAre(bars, filter, costs, m, f)
      BY <1>2
    <2>2. \A k \in 0 .. m : f[k] = IF k = 0 THEN [open |-> <<>>, trades |-> <<>>] ELSE ReplayBar(bars, filter, costs, f[k - 1], Lookback + k)
      BY <2>1 DEF ReplaysAre
    <2> DEFINE last == ReplayBar(bars, filter, costs, f[m], Lookback + (m + 1))
               g == [k \in 0 .. m + 1 |-> IF k = m + 1 THEN last ELSE f[k]]
    <2>3. \A k \in 0 .. m + 1 : g[k] = IF k = 0 THEN [open |-> <<>>, trades |-> <<>>] ELSE ReplayBar(bars, filter, costs, g[k - 1], Lookback + k)
      <3> HIDE DEF last
      <3> TAKE k \in 0 .. m + 1
      <3>1. CASE k = 0
        BY <2>2, <3>1
      <3>2. CASE k = m + 1
        <4>1. g[k] = last /\ k - 1 = m /\ g[m] = f[m] /\ k # 0
          BY <3>2
        <4> QED BY <3>2, <4>1 DEF last
      <3>3. CASE k # 0 /\ k # m + 1
        <4>1. k \in 0 .. m /\ k - 1 \in 0 .. m
          BY <3>3
        <4>2. g[k] = f[k] /\ g[k - 1] = f[k - 1]
          BY <3>3, <4>1
        <4> QED BY <2>2, <3>3, <4>1, <4>2
      <3> QED BY <3>1, <3>2, <3>3
    <2>4. g = [k \in 0 .. m + 1 |-> g[k]]
      OBVIOUS
    <2> HIDE DEF g
    <2>5. ReplaysAre(bars, filter, costs, m + 1, g)
      BY <2>3, <2>4 DEF ReplaysAre
    <2> QED BY <2>5
  <1>3. n \in S
    <2> HIDE DEF S
    <2> QED BY <1>1, <1>2, EveryNumber
  <1> QED BY <1>3

LEMMA ReplaysIs ==
  ASSUME NEW bars, NEW filter, NEW costs, NEW n \in Nat
  PROVE  /\ Replaying(bars, filter, costs, n)[0] = [open |-> <<>>, trades |-> <<>>]
         /\ \A k \in 1 .. n : Replaying(bars, filter, costs, n)[k] = ReplayBar(bars, filter, costs, Replaying(bars, filter, costs, n)[k - 1], Lookback + k)
         /\ DOMAIN Replaying(bars, filter, costs, n) = 0 .. n
  <1> DEFINE f == Replaying(bars, filter, costs, n)
  <1>1. ReplaysAre(bars, filter, costs, n, f)
    <2>1. f = CHOOSE g : ReplaysAre(bars, filter, costs, n, g)
      BY DEF Replaying, ReplaysAre
    <2> HIDE DEF f
    <2> QED BY <2>1, ReplaysExist
  <1> HIDE DEF f
  <1>2. DOMAIN f = 0 .. n /\ \A k \in 0 .. n : f[k] = IF k = 0 THEN [open |-> <<>>, trades |-> <<>>] ELSE ReplayBar(bars, filter, costs, f[k - 1], Lookback + k)
    BY <1>1 DEF ReplaysAre
  <1>3. 0 \in 0 .. n /\ \A k \in 1 .. n : k \in 0 .. n /\ k # 0
    OBVIOUS
  <1>4. f[0] = [open |-> <<>>, trades |-> <<>>] /\ \A k \in 1 .. n : f[k] = ReplayBar(bars, filter, costs, f[k - 1], Lookback + k)
    BY <1>2, <1>3
  <1> QED BY <1>2, <1>4 DEF f

OfflinesAre(bars, warmup, n, f) ==
  f = [k \in 0 .. n |-> IF k = 0 THEN <<>> ELSE OfflineBar(bars, f[k - 1], warmup + k)]

\* and the offline one.
LEMMA OfflinesExist ==
  ASSUME NEW bars, NEW warmup, NEW n \in Nat
  PROVE  \E f : OfflinesAre(bars, warmup, n, f)
  <1> DEFINE S == {m \in Nat : \E f : OfflinesAre(bars, warmup, m, f)}
  <1>1. 0 \in S
    <2>1. OfflinesAre(bars, warmup, 0, [k \in 0 .. 0 |-> <<>>])
      BY DEF OfflinesAre
    <2> QED BY <2>1
  <1>2. ASSUME NEW m \in Nat, m \in S PROVE m + 1 \in S
    <2>1. PICK f : OfflinesAre(bars, warmup, m, f)
      BY <1>2
    <2>2. \A k \in 0 .. m : f[k] = IF k = 0 THEN <<>> ELSE OfflineBar(bars, f[k - 1], warmup + k)
      BY <2>1 DEF OfflinesAre
    <2> DEFINE last == OfflineBar(bars, f[m], warmup + (m + 1))
               g == [k \in 0 .. m + 1 |-> IF k = m + 1 THEN last ELSE f[k]]
    <2>3. \A k \in 0 .. m + 1 : g[k] = IF k = 0 THEN <<>> ELSE OfflineBar(bars, g[k - 1], warmup + k)
      <3> HIDE DEF last
      <3> TAKE k \in 0 .. m + 1
      <3>1. CASE k = 0
        BY <2>2, <3>1
      <3>2. CASE k = m + 1
        <4>1. g[k] = last /\ k - 1 = m /\ g[m] = f[m] /\ k # 0
          BY <3>2
        <4> QED BY <3>2, <4>1 DEF last
      <3>3. CASE k # 0 /\ k # m + 1
        <4>1. k \in 0 .. m /\ k - 1 \in 0 .. m
          BY <3>3
        <4>2. g[k] = f[k] /\ g[k - 1] = f[k - 1]
          BY <3>3, <4>1
        <4> QED BY <2>2, <3>3, <4>1, <4>2
      <3> QED BY <3>1, <3>2, <3>3
    <2>4. g = [k \in 0 .. m + 1 |-> g[k]]
      OBVIOUS
    <2> HIDE DEF g
    <2>5. OfflinesAre(bars, warmup, m + 1, g)
      BY <2>3, <2>4 DEF OfflinesAre
    <2> QED BY <2>5
  <1>3. n \in S
    <2> HIDE DEF S
    <2> QED BY <1>1, <1>2, EveryNumber
  <1> QED BY <1>3

LEMMA OfflinesIs ==
  ASSUME NEW bars, NEW warmup, NEW n \in Nat
  PROVE  /\ Offlining(bars, warmup, n)[0] = <<>>
         /\ \A k \in 1 .. n : Offlining(bars, warmup, n)[k] = OfflineBar(bars, Offlining(bars, warmup, n)[k - 1], warmup + k)
         /\ DOMAIN Offlining(bars, warmup, n) = 0 .. n
  <1> DEFINE f == Offlining(bars, warmup, n)
  <1>1. OfflinesAre(bars, warmup, n, f)
    <2>1. f = CHOOSE g : OfflinesAre(bars, warmup, n, g)
      BY DEF Offlining, OfflinesAre
    <2> HIDE DEF f
    <2> QED BY <2>1, OfflinesExist
  <1> HIDE DEF f
  <1>2. DOMAIN f = 0 .. n /\ \A k \in 0 .. n : f[k] = IF k = 0 THEN <<>> ELSE OfflineBar(bars, f[k - 1], warmup + k)
    BY <1>1 DEF OfflinesAre
  <1>3. 0 \in 0 .. n /\ \A k \in 1 .. n : k \in 0 .. n /\ k # 0
    OBVIOUS
  <1>4. f[0] = <<>> /\ \A k \in 1 .. n : f[k] = OfflineBar(bars, f[k - 1], warmup + k)
    BY <1>2, <1>3
  <1> QED BY <1>2, <1>4 DEF f

\* What is known of the balances and the falls after k trades.
FallsKnown(b, f, k) ==
  /\ b[k] \in Int /\ f[k].sum = b[k] /\ f[k].peak \in Int /\ f[k].most \in Int
  /\ \E i \in 0 .. k : f[k].peak = b[i]
  /\ \A i \in 0 .. k : b[i] <= f[k].peak
  /\ \E i \in 0 .. k : \E j \in i .. k : f[k].most = b[i] - b[j]
  /\ \A i \in 0 .. k : \A j \in i .. k : b[i] - b[j] <= f[k].most

\* The running sum, peak and fall are what they are named for, after every
\* number of trades.
LEMMA FallsAreKnown ==
  ASSUME NEW pnls \in Seq(Int)
  PROVE  \A k \in 0 .. Len(pnls) : Balances(pnls)[k] \in Int /\ FallsKnown(Balances(pnls), Falls(pnls), k)
  <1> DEFINE b == Balances(pnls)
             f == Falls(pnls)
             n == Len(pnls)
             S == {k \in Nat : k <= n => FallsKnown(b, f, k)}
  <1>1. n \in Nat /\ \A k \in 1 .. n : pnls[k] \in Int
    BY LenProperties, ElementOfSeq
  <1>2. /\ b[0] = 0 /\ \A k \in 1 .. n : b[k] = b[k - 1] + pnls[k]
        /\ f[0] = [sum |-> 0, peak |-> 0, most |-> 0]
        /\ \A k \in 1 .. n : f[k] = FallBy(f[k - 1], pnls[k])
    BY <1>1, BalancesIs, FallsIs
  <1> HIDE DEF b, f, n
  <1>3. 0 \in S
    <2>1. f[0].sum = 0 /\ f[0].peak = 0 /\ f[0].most = 0 /\ b[0] = 0
      BY <1>2
    <2>2. \A i \in 0 .. 0 : i = 0
      OBVIOUS
    <2>3. 0 \in 0 .. 0
      OBVIOUS
    <2> QED BY <2>1, <2>2, <2>3 DEF FallsKnown
  <1>4. ASSUME NEW k \in Nat, k \in S PROVE k + 1 \in S
    <2> SUFFICES ASSUME k + 1 <= n PROVE FallsKnown(b, f, k + 1)
      OBVIOUS
    <2> DEFINE c == b[k + 1]
               p == pnls[k + 1]
               o == f[k]
               w == f[k + 1]
    <2>1. FallsKnown(b, f, k)
      BY <1>1, <1>4
    <2>2. k + 1 \in 1 .. n /\ (k + 1) - 1 = k
      BY <1>1
    <2>3. c = b[k] + p /\ p \in Int /\ w = FallBy(o, p)
      BY <1>1, <1>2, <2>2
    <2>4. o.sum = b[k] /\ o.peak \in Int /\ o.most \in Int /\ b[k] \in Int
      BY <2>1 DEF FallsKnown
    <2>5. /\ w.sum = o.sum + p
          /\ w.peak = IF o.sum + p > o.peak THEN o.sum + p ELSE o.peak
          /\ w.most = IF w.peak - (o.sum + p) > o.most THEN w.peak - (o.sum + p) ELSE o.most
      BY <2>3 DEF FallBy
    <2> HIDE DEF c, p, o, w
    <2>6. /\ c \in Int /\ w.sum = c /\ w.peak \in Int /\ w.most \in Int
          /\ w.peak \in {c, o.peak} /\ c <= w.peak /\ o.peak <= w.peak
          /\ w.most \in {w.peak - c, o.most} /\ w.peak - c <= w.most /\ o.most <= w.most
      <3>1. c \in Int /\ w.sum = c
        BY <2>3, <2>4, <2>5
      <3>2. w.peak = IF c > o.peak THEN c ELSE o.peak
        BY <2>3, <2>4, <2>5
      <3>3. w.most = IF w.peak - c > o.most THEN w.peak - c ELSE o.most
        BY <2>3, <2>4, <2>5
      <3>4. w.peak \in Int /\ w.peak \in {c, o.peak} /\ c <= w.peak /\ o.peak <= w.peak
        BY <3>1, <3>2, <2>4
      <3> QED BY <3>1, <3>3, <3>4, <2>4
    <2>7. \A i \in 0 .. k + 1 : i \in 0 .. k \/ i = k + 1
      OBVIOUS
    <2>8. k + 1 \in 0 .. k + 1 /\ \A i \in 0 .. k : i \in 0 .. k + 1
      OBVIOUS
    <2>9. \A i \in 0 .. k : b[i] <= o.peak /\ b[i] \in Int
      <3>1. \A i \in 0 .. k : b[i] <= o.peak
        BY <2>1 DEF FallsKnown, o
      <3>2. \A i \in 0 .. k : b[i] \in Int
        <4> DEFINE T == {i \in Nat : i <= k => b[i] \in Int}
        <4>1. 0 \in T
          BY <1>2
        <4>2. ASSUME NEW i \in Nat, i \in T PROVE i + 1 \in T
          <5> SUFFICES ASSUME i + 1 <= k PROVE b[i + 1] \in Int
            OBVIOUS
          <5>1. b[i] \in Int
            BY <4>2
          <5>2. i + 1 \in 1 .. n /\ (i + 1) - 1 = i
            BY <1>1
          <5>3. b[i + 1] = b[(i + 1) - 1] + pnls[i + 1]
            BY <1>2, <5>2
          <5> QED BY <1>1, <5>1, <5>2, <5>3
        <4> HIDE DEF T
        <4>3. Nat \subseteq T
          BY <4>1, <4>2, EveryNumber
        <4> QED BY <4>3 DEF T
      <3> QED BY <3>1, <3>2
    <2>10. \E i \in 0 .. k + 1 : w.peak = b[i]
      <3>1. PICK i \in 0 .. k : o.peak = b[i]
        BY <2>1 DEF FallsKnown, o
      <3> QED BY <2>6, <2>8, <3>1 DEF c
    <2>11. \A i \in 0 .. k + 1 : b[i] <= w.peak /\ b[i] \in Int
      <3> TAKE i \in 0 .. k + 1
      <3>1. CASE i = k + 1
        BY <3>1, <2>6 DEF c
      <3>2. CASE i \in 0 .. k
        BY <3>2, <2>6, <2>9, <2>4
      <3> QED BY <2>7, <3>1, <3>2
    <2>12. \E i \in 0 .. k + 1 : \E j \in i .. k + 1 : w.most = b[i] - b[j]
      <3>1. CASE w.most = o.most
        <4>1. PICK i \in 0 .. k : \E j \in i .. k : o.most = b[i] - b[j]
          BY <2>1 DEF FallsKnown, o
        <4>2. PICK j \in i .. k : o.most = b[i] - b[j]
          BY <4>1
        <4>3. i \in 0 .. k + 1 /\ j \in i .. k + 1
          OBVIOUS
        <4> QED BY <3>1, <4>2, <4>3
      <3>2. CASE w.most = w.peak - c
        <4>1. PICK i \in 0 .. k + 1 : w.peak = b[i]
          BY <2>10
        <4>2. k + 1 \in i .. k + 1
          OBVIOUS
        <4> QED BY <3>2, <4>1, <4>2 DEF c
      <3> QED BY <2>6, <3>1, <3>2
    <2>13. \A i \in 0 .. k + 1 : \A j \in i .. k + 1 : b[i] - b[j] <= w.most
      <3> TAKE i \in 0 .. k + 1
      <3> TAKE j \in i .. k + 1
      <3>1. CASE j = k + 1
        <4>1. b[i] - c <= w.peak - c
          BY <2>11, <2>6
        <4> QED BY <3>1, <4>1, <2>6, <2>11 DEF c
      <3>2. CASE j # k + 1
        <4>1. i \in 0 .. k /\ j \in i .. k /\ j \in 0 .. k
          BY <3>2
        <4>2. b[i] - b[j] <= o.most
          BY <2>1, <4>1 DEF FallsKnown, o
        <4>3. b[i] \in Int /\ b[j] \in Int /\ o.most <= w.most /\ o.most \in Int /\ w.most \in Int
          BY <4>1, <2>4, <2>6, <2>9
        <4> QED BY <4>2, <4>3
      <3> QED BY <3>1, <3>2
    <2>14. /\ b[k + 1] \in Int /\ f[k + 1].sum = b[k + 1]
           /\ f[k + 1].peak \in Int /\ f[k + 1].most \in Int
      BY <2>6 DEF c, w
    <2>15. \A i \in 0 .. k + 1 : b[i] <= f[k + 1].peak
      BY <2>11 DEF w
    <2> QED BY <2>10, <2>12, <2>13, <2>14, <2>15 DEF FallsKnown, w
  <1>5. n \in Nat /\ Nat \subseteq S
    <2> HIDE DEF S
    <2> QED BY <1>1, <1>3, <1>4, EveryNumber
  <1>6. \A k \in 0 .. n : FallsKnown(b, f, k)
    BY <1>5
  <1> QED BY <1>6 DEF FallsKnown, b, f, n

\* The balances of all trades but the first.
LEMMA TailBalances ==
  ASSUME NEW pnls \in Seq(Int), pnls # <<>>
  PROVE  /\ Tail(pnls) \in Seq(Int) /\ Len(Tail(pnls)) = Len(pnls) - 1 /\ Len(pnls) \in Nat \ {0}
         /\ \A k \in 0 .. Len(pnls) - 1 : Balances(Tail(pnls))[k] = Balances(pnls)[k + 1] - pnls[1]
  <1> DEFINE q == Tail(pnls)
             n == Len(pnls)
             b == Balances(pnls)
             c == Balances(q)
             S == {k \in Nat : k <= n - 1 => c[k] = b[k + 1] - pnls[1]}
  <1>1. q \in Seq(Int) /\ Len(q) = n - 1 /\ n \in Nat \ {0} /\ \A k \in 1 .. n - 1 : q[k] = pnls[k + 1]
    BY HeadTailProperties, EmptySeq
  <1>2. \A k \in 1 .. n : pnls[k] \in Int
    BY ElementOfSeq
  <1>3. /\ b[0] = 0 /\ \A k \in 1 .. n : b[k] = b[k - 1] + pnls[k]
        /\ c[0] = 0 /\ \A k \in 1 .. n - 1 : c[k] = c[k - 1] + q[k]
        /\ \A k \in 0 .. n : b[k] \in Int
    <2>1. n - 1 \in Nat
      BY <1>1
    <2> HIDE DEF q
    <2> QED BY <1>1, <2>1, BalancesIs, FallsAreKnown
  <1> HIDE DEF q, n, b, c
  <1>4. 0 \in S
    <2>1. 1 \in 1 .. n /\ 1 - 1 = 0
      BY <1>1
    <2>2. b[1] = b[0] + pnls[1]
      BY <1>3, <2>1
    <2> QED BY <1>2, <1>3, <2>1, <2>2
  <1>5. ASSUME NEW k \in Nat, k \in S PROVE k + 1 \in S
    <2> SUFFICES ASSUME k + 1 <= n - 1 PROVE c[k + 1] = b[(k + 1) + 1] - pnls[1]
      OBVIOUS
    <2>1. c[k] = b[k + 1] - pnls[1]
      BY <1>1, <1>5
    <2>2. k + 1 \in 1 .. n - 1 /\ (k + 1) + 1 \in 1 .. n /\ (k + 1) - 1 = k /\ ((k + 1) + 1) - 1 = k + 1 /\ 1 \in 1 .. n /\ k + 1 \in 0 .. n
      BY <1>1
    <2>3. c[k + 1] = c[k] + pnls[(k + 1) + 1] /\ b[(k + 1) + 1] = b[k + 1] + pnls[(k + 1) + 1]
      BY <1>1, <1>3, <2>2
    <2> QED BY <1>2, <1>3, <2>1, <2>2, <2>3
  <1>6. Nat \subseteq S
    <2> HIDE DEF S
    <2> QED BY <1>4, <1>5, EveryNumber
  <1> QED BY <1>1, <1>6 DEF q, n, b, c

\* The greatest element of a set is the one no other exceeds.
LEMMA MaxIs ==
  ASSUME NEW T \in SUBSET Int, NEW m \in T, \A x \in T : x <= m
  PROVE  Max(T) = m
  <1>1. \A y \in T : (\A x \in T : y >= x) => y = m
    OBVIOUS
  <1>2. m \in T /\ \A x \in T : m >= x
    OBVIOUS
  <1> QED BY <1>1, <1>2 DEF Max

\* The falls of the balances from a trade on, as DrawdownExact lists them.
FallsFrom(pnls, first) ==
  LET balance == <<0>> \o Equity(pnls)
  IN  {balance[w[1]] - balance[w[2]] :
         w \in {v \in (first .. Len(balance)) \X (first .. Len(balance)) : v[1] <= v[2]}}

\* They are the differences of the balances.
LEMMA FallsListed ==
  ASSUME NEW pnls \in Seq(Int), NEW first \in Nat \ {0}
  PROVE  \A x : x \in FallsFrom(pnls, first)
                 <=> \E i \in first - 1 .. Len(pnls) : \E j \in i .. Len(pnls) : x = Balances(pnls)[i] - Balances(pnls)[j]
  <1> DEFINE n == Len(pnls)
             b == Balances(pnls)
             balance == <<0>> \o Equity(pnls)
             P == {v \in (first .. Len(balance)) \X (first .. Len(balance)) : v[1] <= v[2]}
  <1>1. n \in Nat /\ DOMAIN pnls = 1 .. n /\ \A k \in 1 .. n : pnls[k] \in Int
    BY LenProperties, ElementOfSeq
  <1>2. b[0] = 0 /\ \A k \in 0 .. n : b[k] \in Int
    BY <1>1, BalancesIs, FallsAreKnown
  <1>4. Len(balance) = n + 1 /\ \A k \in 1 .. n + 1 : balance[k] = b[k - 1]
    <2>1. \A k \in 1 .. n : b[k] \in Int
      BY <1>1, <1>2
    <2>2. Equity(pnls) = [k \in 1 .. n |-> b[k]]
      BY <1>1 DEF Equity
    <2>3. Equity(pnls) \in Seq(Int) /\ Len(Equity(pnls)) = n /\ \A k \in 1 .. n : Equity(pnls)[k] = b[k]
      <3> HIDE DEF b
      <3> QED BY <1>1, <2>1, <2>2
    <2>4. <<0>> \in Seq(Int) /\ Len(<<0>>) = 1 /\ <<0>>[1] = 0
      OBVIOUS
    <2> DEFINE e == Equity(pnls)
               z == <<0>>
    <2> HIDE DEF e, z, b
    <2>5. /\ z \o e \in Seq(Int) /\ Len(z \o e) = 1 + n
          /\ \A k \in 1 .. 1 + n : (z \o e)[k] = IF k <= 1 THEN z[k] ELSE e[k - 1]
      BY <2>3, <2>4, ConcatProperties DEF e, z
    <2>6. Len(z \o e) = n + 1
      BY <1>1, <2>5
    <2>7. ASSUME NEW k \in 1 .. n + 1 PROVE (z \o e)[k] = b[k - 1]
      <3>1. CASE k = 1
        BY <3>1, <2>5, <2>4, <1>2, <1>1 DEF z
      <3>2. CASE k # 1
        <4>1. k - 1 \in 1 .. n /\ k \in 1 .. 1 + n /\ ~(k <= 1)
          BY <3>2, <1>1
        <4> QED BY <4>1, <2>5, <2>3 DEF e
      <3> QED BY <3>1, <3>2
    <2> QED BY <2>6, <2>7 DEF e, z
  <1>5. FallsFrom(pnls, first) = {balance[w[1]] - balance[w[2]] : w \in P}
    BY DEF FallsFrom
  <1> HIDE DEF balance, b, n
  <1>6. ASSUME NEW x, x \in FallsFrom(pnls, first)
        PROVE  \E i \in first - 1 .. n : \E j \in i .. n : x = b[i] - b[j]
    <2>1. PICK w \in P : x = balance[w[1]] - balance[w[2]]
      BY <1>5, <1>6
    <2> DEFINE i == w[1]
               j == w[2]
    <2>2. i \in first .. n + 1 /\ j \in first .. n + 1 /\ i <= j /\ x = balance[i] - balance[j]
      BY <1>4, <2>1
    <2> HIDE DEF i, j
    <2>3. i - 1 \in first - 1 .. n /\ j - 1 \in i - 1 .. n /\ i \in 1 .. n + 1 /\ j \in 1 .. n + 1
      BY <1>1, <2>2
    <2>4. x = b[i - 1] - b[j - 1]
      BY <1>4, <2>2, <2>3
    <2> QED BY <2>3, <2>4
  <1>7. ASSUME NEW i \in first - 1 .. n, NEW j \in i .. n
        PROVE  b[i] - b[j] \in FallsFrom(pnls, first)
    <2>1. /\ i + 1 \in first .. n + 1 /\ j + 1 \in first .. n + 1 /\ i + 1 <= j + 1
          /\ (i + 1) - 1 = i /\ (j + 1) - 1 = j /\ i + 1 \in 1 .. n + 1 /\ j + 1 \in 1 .. n + 1
      BY <1>1
    <2>2. balance[i + 1] = b[i] /\ balance[j + 1] = b[j]
      BY <1>4, <2>1
    <2>3. <<i + 1, j + 1>> \in P
      BY <1>4, <2>1
    <2>4. b[i] - b[j] = balance[<<i + 1, j + 1>>[1]] - balance[<<i + 1, j + 1>>[2]]
      BY <2>2
    <2> HIDE DEF P
    <2> QED BY <1>5, <2>3, <2>4
  <1> QED BY <1>6, <1>7 DEF b, n

\* The drawdown is the greatest fall, the harness's the greatest after the first trade.
LEMMA DrawdownIsExact ==
  ASSUME NEW pnls \in Seq(Int)
  PROVE  /\ Drawdown(pnls) = Max(FallsFrom(pnls, 1))
         /\ HarnessDrawdown(pnls) = Max({0} \cup FallsFrom(pnls, 2))
  <1> DEFINE n == Len(pnls)
             b == Balances(pnls)
             m == Drawdown(pnls)
             F == FallsFrom(pnls, 1)
             G == {0} \cup FallsFrom(pnls, 2)
  <1>1. n \in Nat
    BY LenProperties
  <1>2. \A k \in 0 .. n : b[k] \in Int
    BY <1>1, FallsAreKnown
  <1>3. /\ m \in Int
        /\ \E i \in 0 .. n : \E j \in i .. n : m = b[i] - b[j]
        /\ \A i \in 0 .. n : \A j \in i .. n : b[i] - b[j] <= m
    <2>1. n \in 0 .. n
      BY <1>1
    <2>2. FallsKnown(b, Falls(pnls), n)
      BY <2>1, FallsAreKnown
    <2> QED BY <2>2 DEF FallsKnown, Drawdown
  <1>4. /\ \A x : x \in F <=> \E i \in 0 .. n : \E j \in i .. n : x = b[i] - b[j]
        /\ \A x : x \in FallsFrom(pnls, 2) <=> \E i \in 1 .. n : \E j \in i .. n : x = b[i] - b[j]
    <2>1. 1 \in Nat \ {0} /\ 2 \in Nat \ {0} /\ 1 - 1 = 0 /\ 2 - 1 = 1
      OBVIOUS
    <2>2. \A first \in Nat \ {0} : \A x : x \in FallsFrom(pnls, first)
            <=> \E i \in first - 1 .. n : \E j \in i .. n : x = b[i] - b[j]
      BY FallsListed
    <2> HIDE DEF b, n
    <2>3. \A x : x \in F <=> \E i \in 1 - 1 .. n : \E j \in i .. n : x = b[i] - b[j]
      BY <2>1, <2>2
    <2>4. \A x : x \in FallsFrom(pnls, 2) <=> \E i \in 2 - 1 .. n : \E j \in i .. n : x = b[i] - b[j]
      BY <2>1, <2>2
    <2> QED BY <2>1, <2>3, <2>4
  <1> HIDE DEF b, n, m, F
  <1>5. Max(F) = m
    <2>1. \A x \in F : x \in Int /\ x <= m
      <3> TAKE x \in F
      <3>1. PICK i \in 0 .. n : \E j \in i .. n : x = b[i] - b[j]
        BY <1>4
      <3>2. PICK j \in i .. n : x = b[i] - b[j]
        BY <3>1
      <3>3. j \in 0 .. n
        BY <1>1
      <3> QED BY <1>2, <1>3, <3>2, <3>3
    <2>2. m \in F
      BY <1>3, <1>4
    <2>3. F \in SUBSET Int
      BY <2>1
    <2> QED BY <2>1, <2>2, <2>3, MaxIs
  <1>6. CASE pnls = <<>>
    <2>1. n = 0
      BY <1>6 DEF n
    <2>2. FallsFrom(pnls, 2) = {}
      <3>1. 1 .. n = {}
        BY <2>1
      <3> QED BY <1>4, <3>1
    <2>3. Max({0}) = 0
      <3> DEFINE T == {0}
      <3>1. T \in SUBSET Int /\ 0 \in T /\ \A x \in T : x <= 0
        OBVIOUS
      <3> HIDE DEF T
      <3>2. Max(T) = 0
        BY <3>1, MaxIs
      <3> QED BY <3>2 DEF T
    <2>4. {0} \cup FallsFrom(pnls, 2) = {0}
      BY <2>2
    <2> QED BY <1>5, <1>6, <2>3, <2>4 DEF HarnessDrawdown, F, m
  <1>7. CASE pnls # <<>>
    <2> DEFINE q == Tail(pnls)
               c == Balances(q)
               h == Drawdown(q)
    <2>1. /\ q \in Seq(Int) /\ Len(q) = n - 1 /\ n \in Nat \ {0}
          /\ \A k \in 0 .. n - 1 : c[k] = b[k + 1] - pnls[1]
      BY <1>7, TailBalances DEF n, b
    <2>2. pnls[1] \in Int
      BY <2>1, ElementOfSeq DEF n
    <2>3. /\ h \in Int
          /\ \E i \in 0 .. n - 1 : \E j \in i .. n - 1 : h = c[i] - c[j]
          /\ \A i \in 0 .. n - 1 : \A j \in i .. n - 1 : c[i] - c[j] <= h
      <3> HIDE DEF q
      <3>1. n - 1 \in 0 .. n - 1
        BY <2>1
      <3>2. FallsKnown(Balances(q), Falls(q), Len(q))
        BY <2>1, <3>1, FallsAreKnown
      <3> QED BY <2>1, <3>2 DEF FallsKnown, Drawdown
    <2>4. HarnessDrawdown(pnls) = h
      BY <1>7 DEF HarnessDrawdown
    <2> HIDE DEF q, c, h, G
    <2>5. ASSUME NEW i \in 1 .. n, NEW j \in i .. n PROVE b[i] - b[j] <= h /\ b[i] - b[j] \in Int
      <3>1. /\ i - 1 \in 0 .. n - 1 /\ j - 1 \in i - 1 .. n - 1 /\ j - 1 \in 0 .. n - 1
            /\ (i - 1) + 1 = i /\ (j - 1) + 1 = j /\ i \in 0 .. n /\ j \in 0 .. n
        BY <1>1
      <3>2. c[i - 1] = b[i] - pnls[1] /\ c[j - 1] = b[j] - pnls[1] /\ c[i - 1] - c[j - 1] <= h
        BY <2>1, <2>3, <3>1
      <3> QED BY <1>2, <2>2, <2>3, <3>1, <3>2
    <2>6. 0 <= h
      <3>1. 1 \in 1 .. n /\ 1 \in 0 .. n
        BY <2>1
      <3>2. b[1] - b[1] <= h
        BY <2>5, <3>1
      <3> QED BY <1>2, <2>3, <3>1, <3>2
    <2>7. h \in FallsFrom(pnls, 2)
      <3>1. PICK i \in 0 .. n - 1 : \E j \in i .. n - 1 : h = c[i] - c[j]
        BY <2>3
      <3>2. PICK j \in i .. n - 1 : h = c[i] - c[j]
        BY <3>1
      <3>3. /\ i + 1 \in 1 .. n /\ j + 1 \in i + 1 .. n /\ j \in 0 .. n - 1
            /\ i + 1 \in 0 .. n /\ j + 1 \in 0 .. n
        BY <2>1
      <3>4. h = b[i + 1] - b[j + 1]
        BY <1>2, <2>1, <2>2, <3>2, <3>3
      <3> QED BY <1>4, <3>3, <3>4
    <2>8. G \in SUBSET Int /\ h \in G /\ \A x \in G : x <= h
      <3>1. \A x \in FallsFrom(pnls, 2) : x \in Int /\ x <= h
        BY <1>4, <2>5
      <3>2. \A x \in G : x = 0 \/ x \in FallsFrom(pnls, 2)
        BY DEF G
      <3>3. h \in G
        BY <2>7 DEF G
      <3>4. \A x \in G : x \in Int /\ x <= h
        BY <2>3, <2>6, <3>1, <3>2
      <3> QED BY <3>3, <3>4
    <2>9. Max(G) = h
      BY <2>8, MaxIs
    <2> QED BY <1>5, <2>4, <2>9 DEF F, G, m
  <1> QED BY <1>6, <1>7

Trade ==
  [direction : {"BUY", "SELL"}, entry : Int, stop : Int, target : Int, slip : Int, bar : Int, at : Int,
   reason : {"open", "stop_loss", "take_profit", "end", "end_of_backtest"}, pnl : Int]

Candles(bars) ==
  /\ bars \in Seq(Candle)
  /\ \A i \in DOMAIN bars : bars[i].low <= bars[i].close /\ bars[i].close <= bars[i].high

Charged == {"realistic", "fixed"}

LEMMA SlipIs ==
  ASSUME NEW costs \in Charged, NEW bar \in Candle
  PROVE  Slip(costs, bar) \in Nat /\ Fee(costs) \in Nat
  <1> DEFINE R == {"normal", "elevated", "high", "extreme"}
  <1>1. VolatilityRegime(bar) \in R
    BY DEF VolatilityRegime, Candle
  <1>2. RealisticSlippage(bar) \in Nat
    <2> DEFINE v == VolatilityRegime(bar)
    <2> HIDE DEF v
    <2>1. [normal |-> 15, elevated |-> 25, high |-> 40, extreme |-> 70][v] \in Nat
      BY <1>1 DEF v
    <2> QED BY <2>1 DEF RealisticSlippage, v
  <1>3. Slip(costs, bar) \in Nat
    <2>1. CASE costs = "realistic"
      BY <1>2, <2>1 DEF Slip
    <2>2. CASE costs = "fixed"
      BY <2>2 DEF Slip
    <2> QED BY <2>1, <2>2 DEF Charged
  <1>4. Fee(costs) \in Nat
    BY BacktestAssumption DEF Fee
  <1> QED BY <1>3, <1>4

Fillable(d, price, slip, i) == d \in {"BUY", "SELL"} /\ price \in Int /\ slip \in Int /\ i \in Int
Endable(i, reason, pnl) ==
  i \in Int /\ reason \in {"stop_loss", "take_profit", "end", "end_of_backtest"} /\ pnl \in Int

\* A fill, for either direction.
LEMMA FillIs ==
  ASSUME NEW d, NEW price, NEW slip, NEW i, Fillable(d, price, slip, i),
         NEW t, t = SimulateFill(d, price, slip, i)
  PROVE  /\ t \in Trade /\ t.direction = d /\ t.slip = slip /\ t.bar = i /\ t.at = 0 /\ t.reason = "open"
         /\ d = "BUY" => /\ t.entry = price + slip /\ t.stop = price + slip - StopAway
                         /\ t.target = price + slip + TargetAway
         /\ d = "SELL" => /\ t.entry = price - slip /\ t.stop = price - slip + StopAway
                          /\ t.target = price - slip - TargetAway
  <1>0. /\ StopAway \in Nat /\ TargetAway \in Nat
        /\ d \in {"BUY", "SELL"} /\ price \in Int /\ slip \in Int /\ i \in Int
    BY BacktestAssumption DEF Fillable
  <1>1. CASE d = "BUY"
    <2>1. t = [direction |-> d, entry |-> price + 1 * slip, stop |-> price + 1 * (slip - StopAway),
               target |-> price + 1 * (slip + TargetAway), slip |-> slip, bar |-> i, at |-> 0,
               reason |-> "open", pnl |-> 0]
      BY <1>1 DEF SimulateFill, Side
    <2>2. /\ price + 1 * slip = price + slip /\ price + 1 * (slip - StopAway) = price + slip - StopAway
          /\ price + 1 * (slip + TargetAway) = price + slip + TargetAway
          /\ price + slip \in Int /\ price + slip - StopAway \in Int /\ price + slip + TargetAway \in Int
      BY <1>0
    <2> QED BY <1>0, <1>1, <2>1, <2>2 DEF Trade
  <1>2. CASE d = "SELL"
    <2>1. t = [direction |-> d, entry |-> price + (-1) * slip, stop |-> price + (-1) * (slip - StopAway),
               target |-> price + (-1) * (slip + TargetAway), slip |-> slip, bar |-> i, at |-> 0,
               reason |-> "open", pnl |-> 0]
      BY <1>2 DEF SimulateFill, Side
    <2>2. /\ price + (-1) * slip = price - slip /\ price + (-1) * (slip - StopAway) = price - slip + StopAway
          /\ price + (-1) * (slip + TargetAway) = price - slip - TargetAway
          /\ price - slip \in Int /\ price - slip + StopAway \in Int /\ price - slip - TargetAway \in Int
      BY <1>0
    <2> QED BY <1>0, <1>2, <2>1, <2>2 DEF Trade
  <1> QED BY <1>0, <1>1, <1>2

\* What a bar does to a position, for either direction.
LEMMA TouchedIs ==
  ASSUME NEW t \in Trade, NEW bar \in Candle
  PROVE  /\ Touched(t, bar) \in {"none", "stop_loss", "take_profit"}
         /\ t.direction = "BUY" =>
              /\ Touched(t, bar) = "stop_loss" <=> bar.low <= t.stop
              /\ Touched(t, bar) = "none" <=> t.stop < bar.low /\ bar.high < t.target
         /\ t.direction = "SELL" =>
              /\ Touched(t, bar) = "stop_loss" <=> t.stop <= bar.high
              /\ Touched(t, bar) = "none" <=> bar.high < t.stop /\ t.target < bar.low
  <1>1. t.stop \in Int /\ t.target \in Int /\ bar.low \in Int /\ bar.high \in Int /\ t.direction \in {"BUY", "SELL"}
    BY DEF Trade, Candle
  <1>2. CASE t.direction = "BUY"
    <2>1. Touched(t, bar) = IF 1 * bar.low <= 1 * t.stop THEN "stop_loss"
                            ELSE IF 1 * bar.high >= 1 * t.target THEN "take_profit" ELSE "none"
      BY <1>2 DEF Touched, Side
    <2>2. (1 * bar.low <= 1 * t.stop <=> bar.low <= t.stop) /\ (1 * bar.high >= 1 * t.target <=> ~(bar.high < t.target))
      BY <1>1
    <2> QED BY <1>1, <1>2, <2>1, <2>2
  <1>3. CASE t.direction = "SELL"
    <2>1. Touched(t, bar) = IF (-1) * bar.high <= (-1) * t.stop THEN "stop_loss"
                            ELSE IF (-1) * bar.low >= (-1) * t.target THEN "take_profit" ELSE "none"
      BY <1>3 DEF Touched, Side
    <2>2. ((-1) * bar.high <= (-1) * t.stop <=> t.stop <= bar.high) /\ ((-1) * bar.low >= (-1) * t.target <=> ~(t.target < bar.low))
      BY <1>1
    <2> QED BY <1>1, <1>3, <2>1, <2>2
  <1> QED BY <1>1, <1>2, <1>3

LEMMA GainIs ==
  ASSUME NEW t \in Trade, NEW price \in Int
  PROVE  /\ Gain(t, price) \in Int
         /\ t.direction = "BUY" => Gain(t, price) = price - t.entry
         /\ t.direction = "SELL" => Gain(t, price) = t.entry - price
  <1>1. t.entry \in Int /\ t.direction \in {"BUY", "SELL"}
    BY DEF Trade
  <1>2. CASE t.direction = "BUY"
    <2>1. Gain(t, price) = 1 * (price - t.entry)
      BY <1>2 DEF Gain, Side
    <2> QED BY <1>1, <1>2, <2>1
  <1>3. CASE t.direction = "SELL"
    <2>1. Gain(t, price) = (-1) * (price - t.entry)
      BY <1>3 DEF Gain, Side
    <2> QED BY <1>1, <1>3, <2>1
  <1> QED BY <1>1, <1>2, <1>3

\* To end a trade touches three of its fields.
LEMMA EndedIs ==
  ASSUME NEW t \in Trade, NEW i, NEW reason, NEW pnl, Endable(i, reason, pnl), NEW e, e = Ended(t, i, reason, pnl)
  PROVE  /\ e \in Trade /\ e.at = i /\ e.reason = reason /\ e.pnl = pnl
         /\ e.direction = t.direction /\ e.entry = t.entry /\ e.bar = t.bar /\ e.slip = t.slip
  BY DEF Ended, Endable, Trade

LEMMA CandlesAre ==
  ASSUME NEW bars, Candles(bars)
  PROVE  /\ Len(bars) \in Nat /\ DOMAIN bars = 1 .. Len(bars)
         /\ \A i \in 1 .. Len(bars) : /\ bars[i] \in Candle /\ bars[i].close \in Int /\ bars[i].open \in Int
                                      /\ bars[i].low \in Int /\ bars[i].high \in Int
                                      /\ bars[i].low <= bars[i].close /\ bars[i].close <= bars[i].high
  <1>1. Len(bars) \in Nat /\ DOMAIN bars = 1 .. Len(bars) /\ \A i \in 1 .. Len(bars) : bars[i] \in Candle
    BY LenProperties, ElementOfSeq DEF Candles
  <1>2. \A c \in Candle : c.close \in Int /\ c.open \in Int /\ c.low \in Int /\ c.high \in Int
    BY DEF Candle
  <1> QED BY <1>1, <1>2 DEF Candles

\* The order a trade began as.
OrderOf(bars, t) == SimulateFill(t.direction, bars[t.bar].close, t.slip, t.bar)

\* What a trade of the analytics engine is after bar i: still open, closed by a
\* bar at the first level that a bar touched, or left over at the last one.
Begun(bars, t, i) ==
  /\ t \in Trade /\ t.bar \in 1 .. i /\ t.slip \in Nat
Standing(bars, t, i) ==
  /\ Begun(bars, t, i) /\ t = OrderOf(bars, t)
  /\ \A j \in t.bar + 1 .. i : Touched(t, bars[j]) = "none"
Stopped(bars, costs, t, i) ==
  /\ Begun(bars, t, i) /\ t.at \in t.bar + 1 .. i
  /\ t.reason \in {"stop_loss", "take_profit"} /\ t.reason = Touched(OrderOf(bars, t), bars[t.at])
  /\ \A j \in t.bar + 1 .. t.at - 1 : Touched(OrderOf(bars, t), bars[j]) = "none"
  /\ t.pnl = Gain(OrderOf(bars, t), LevelOf(OrderOf(bars, t), t.reason)) - t.slip - Fee(costs)
LeftOver(bars, t, i) ==
  /\ Begun(bars, t, i) /\ t.reason = "end"
  /\ \A j \in t.bar + 1 .. i : Touched(OrderOf(bars, t), bars[j]) = "none"
  /\ t.pnl = Gain(OrderOf(bars, t), bars[i].close)

HasOpen(s, t) == s.open = <<t>>
Shaped(s) ==
  /\ s = [open |-> s.open, trades |-> s.trades]
  /\ s.open = <<>> \/ \E t \in Trade : HasOpen(s, t)
ReplayKnown(bars, costs, s, i) ==
  /\ s.trades \in Seq(Trade) /\ \A k \in DOMAIN s.trades : Stopped(bars, costs, s.trades[k], i)
  /\ Shaped(s) /\ \A t \in Trade : HasOpen(s, t) => Standing(bars, t, i)

\* What one bar does to an engine: nothing, or it ends the trade that is open,
\* or it opens one where there was none.
EndsTrade(bars, costs, s, r, i, t) ==
  LET reason == Touched(t, bars[i])
  IN  /\ reason # "none" /\ r.open = <<>>
      /\ r.trades = Append(s.trades, Ended(t, i, reason, Gain(t, LevelOf(t, reason)) - t.slip - Fee(costs)))
OpensTrade(bars, costs, s, r, i) ==
  /\ s.open = <<>> /\ r.trades = s.trades
  /\ \E d \in {"BUY", "SELL"} : HasOpen(r, SimulateFill(d, bars[i].close, Slip(costs, bars[i]), i))

Moves(bars, costs, s, r, i) ==
  \/ r = s /\ \A t \in Trade : HasOpen(s, t) => Touched(t, bars[i]) = "none"
  \/ \E t \in Trade : HasOpen(s, t) /\ EndsTrade(bars, costs, s, r, i, t)
  \/ OpensTrade(bars, costs, s, r, i)

LEMMA ReplayMoves ==
  ASSUME NEW bars, NEW filter, NEW costs, NEW i, NEW s, Shaped(s)
  PROVE  /\ Moves(bars, costs, s, ReplayBar(bars, filter, costs, s, i), i)
         /\ ReplayBar(bars, filter, costs, s, i)
              = [open |-> ReplayBar(bars, filter, costs, s, i).open,
                 trades |-> ReplayBar(bars, filter, costs, s, i).trades]
  <1> DEFINE r == ReplayBar(bars, filter, costs, s, i)
             seen == SeenAt(bars, costs, i)
             taken == /\ filter \in {"all", seen.strategy}
                      /\ seen.direction \in {"BUY", "SELL"} /\ seen.sure
             d == seen.direction
             o == SimulateFill(d, bars[i].close, Slip(costs, bars[i]), i)
  <1>1. s = [open |-> s.open, trades |-> s.trades] /\ (s.open = <<>> \/ \E t \in Trade : HasOpen(s, t))
    BY DEF Shaped
  <1>2. ASSUME NEW t \in Trade, HasOpen(s, t)
        PROVE  /\ \/ r = s /\ Touched(t, bars[i]) = "none"
                  \/ EndsTrade(bars, costs, s, r, i, t)
               /\ r = [open |-> r.open, trades |-> r.trades]
    <2> DEFINE reason == Touched(t, bars[i])
               e == Append(s.trades, Ended(t, i, reason, Gain(t, LevelOf(t, reason)) - t.slip - Fee(costs)))
    <2>1. s.open # <<>> /\ s.open[1] = t
      BY <1>2 DEF HasOpen
    <2>2. r = IF reason = "none" THEN s ELSE [open |-> <<>>, trades |-> e]
      BY <2>1 DEF ReplayBar, ReplayOn
    <2>3. CASE reason = "none"
      BY <1>1, <2>2, <2>3
    <2>4. CASE reason # "none"
      <3>1. r = [open |-> <<>>, trades |-> e]
        BY <2>2, <2>4
      <3> HIDE DEF r
      <3>2. r.open = <<>> /\ r.trades = e /\ r = [open |-> r.open, trades |-> r.trades]
        <4> HIDE DEF e
        <4> QED BY <3>1
      <3> QED BY <2>4, <3>2 DEF EndsTrade
    <2> QED BY <2>3, <2>4
  <1>3. ASSUME s.open = <<>>
        PROVE  /\ r = s \/ OpensTrade(bars, costs, s, r, i)
               /\ r = [open |-> r.open, trades |-> r.trades]
    <2>1. r = IF taken THEN [s EXCEPT !.open = <<o>>] ELSE s
      BY <1>3 DEF ReplayBar, ReplayOn
    <2>2. CASE taken
      <3>1. r = [s EXCEPT !.open = <<o>>] /\ d \in {"BUY", "SELL"}
        BY <2>1, <2>2
      <3> HIDE DEF o, d, r
      <3>2. r.trades = s.trades /\ r.open = <<o>> /\ r = [open |-> r.open, trades |-> r.trades]
        BY <1>1, <3>1
      <3> QED BY <1>3, <3>1, <3>2 DEF OpensTrade, HasOpen, o
    <2>3. CASE ~taken
      BY <1>1, <2>1, <2>3
    <2> QED BY <2>2, <2>3
  <1>4. \A t, u \in Trade : HasOpen(s, t) /\ HasOpen(s, u) => t = u
    BY DEF HasOpen
  <1>5. \A t \in Trade : HasOpen(s, t) => s.open # <<>>
    BY DEF HasOpen
  <1> HIDE DEF r
  <1>6. Moves(bars, costs, s, r, i) /\ r = [open |-> r.open, trades |-> r.trades]
    <2>1. CASE s.open = <<>>
      BY <1>3, <1>5, <2>1 DEF Moves
    <2>2. CASE s.open # <<>>
      <3>1. PICK t \in Trade : HasOpen(s, t)
        BY <1>1, <2>2
      <3> QED BY <1>2, <1>4, <3>1 DEF Moves
    <2> QED BY <2>1, <2>2
  <1> QED BY <1>6 DEF r

LEMMA MovesKnown ==
  ASSUME NEW bars, Candles(bars), NEW costs \in Charged, NEW i \in 1 .. Len(bars),
         NEW s, ReplayKnown(bars, costs, s, i - 1),
         NEW r, Moves(bars, costs, s, r, i), r = [open |-> r.open, trades |-> r.trades]
  PROVE  ReplayKnown(bars, costs, r, i)
  <1>1. Shaped(s) /\ s.trades \in Seq(Trade) /\ r = [open |-> r.open, trades |-> r.trades]
    BY DEF ReplayKnown
  <1>2. bars[i] \in Candle /\ bars[i].close \in Int /\ i \in Int /\ i > 0 /\ Slip(costs, bars[i]) \in Nat /\ Fee(costs) \in Nat
    BY CandlesAre, SlipIs
  <1>3. \A t : Stopped(bars, costs, t, i - 1) => Stopped(bars, costs, t, i)
    <2> SUFFICES ASSUME NEW t, Stopped(bars, costs, t, i - 1) PROVE Stopped(bars, costs, t, i)
      OBVIOUS
    <2>1. t.bar \in 1 .. i - 1 /\ t.at \in t.bar + 1 .. i - 1
      BY DEF Stopped, Begun
    <2>2. t.bar \in 1 .. i /\ t.at \in t.bar + 1 .. i
      BY <1>2, <2>1
    <2> QED BY <2>2 DEF Stopped, Begun
  <1>4. \A k \in DOMAIN s.trades : Stopped(bars, costs, s.trades[k], i)
    BY <1>3 DEF ReplayKnown
  <1>5. CASE r = s /\ \A t \in Trade : HasOpen(s, t) => Touched(t, bars[i]) = "none"
    <2>1. ASSUME NEW t \in Trade, HasOpen(s, t) PROVE Standing(bars, t, i)
      <3>1. Standing(bars, t, i - 1) /\ Touched(t, bars[i]) = "none"
        BY <1>5, <2>1 DEF ReplayKnown
      <3>2. t.bar \in 1 .. i - 1
        BY <3>1 DEF Standing, Begun
      <3>3. t.bar \in 1 .. i /\ \A j \in t.bar + 1 .. i : j \in t.bar + 1 .. i - 1 \/ j = i
        BY <1>2, <3>2
      <3> QED BY <3>1, <3>3 DEF Standing, Begun
    <2> QED BY <1>1, <1>4, <1>5, <2>1 DEF ReplayKnown, Shaped
  <1>6. ASSUME NEW t \in Trade, HasOpen(s, t), EndsTrade(bars, costs, s, r, i, t)
        PROVE  ReplayKnown(bars, costs, r, i)
    <2> DEFINE reason == Touched(t, bars[i])
               pnl == Gain(t, LevelOf(t, reason)) - t.slip - Fee(costs)
               e == Ended(t, i, reason, pnl)
    <2>1. Standing(bars, t, i - 1)
      BY <1>6 DEF ReplayKnown
    <2>2. t.bar \in 1 .. i - 1 /\ t.slip \in Nat /\ t = OrderOf(bars, t)
      BY <2>1 DEF Standing, Begun
    <2>3. reason \in {"stop_loss", "take_profit"}
      BY <1>2, <1>6, TouchedIs DEF EndsTrade
    <2>4. pnl \in Int
      <3>1. LevelOf(t, reason) \in Int
        BY DEF LevelOf, Trade
      <3> QED BY <1>2, <2>2, <3>1, GainIs
    <2>5. /\ e \in Trade /\ e.at = i /\ e.reason = reason /\ e.pnl = pnl
          /\ e.direction = t.direction /\ e.bar = t.bar /\ e.slip = t.slip
      <3>1. Endable(i, reason, pnl)
        BY <1>2, <2>3, <2>4 DEF Endable
      <3>2. e = Ended(t, i, reason, pnl)
        OBVIOUS
      <3> HIDE DEF reason, pnl, e
      <3> QED BY <3>1, <3>2, EndedIs
    <2>6. r.open = <<>> /\ r.trades = Append(s.trades, e)
      BY <1>6 DEF EndsTrade
    <2>7. OrderOf(bars, e) = t
      BY <2>2, <2>5 DEF OrderOf
    <2>8. Stopped(bars, costs, e, i)
      <3>1. e.bar \in 1 .. i /\ e.at \in e.bar + 1 .. i /\ e.at - 1 = i - 1
        BY <1>2, <2>2, <2>5
      <3>2. \A j \in e.bar + 1 .. e.at - 1 : Touched(t, bars[j]) = "none"
        BY <2>1, <2>5, <3>1 DEF Standing
      <3> HIDE DEF e
      <3> QED BY <2>2, <2>3, <2>5, <2>7, <3>1, <3>2 DEF Stopped, Begun
    <2> HIDE DEF e
    <2>9. /\ r.trades \in Seq(Trade) /\ Len(r.trades) = Len(s.trades) + 1 /\ r.trades[Len(s.trades) + 1] = e
          /\ \A k \in 1 .. Len(s.trades) : r.trades[k] = s.trades[k]
      BY <1>1, <2>5, <2>6, AppendProperties
    <2>10. \A k \in DOMAIN r.trades : k \in DOMAIN s.trades \/ k = Len(s.trades) + 1
      BY <1>1, <2>9, LenProperties
    <2>11. \A k \in DOMAIN r.trades : Stopped(bars, costs, r.trades[k], i)
      <3>1. DOMAIN s.trades = 1 .. Len(s.trades)
        BY <1>1, LenProperties
      <3> QED BY <1>4, <2>8, <2>9, <2>10, <3>1
    <2>12. \A u \in Trade : ~HasOpen(r, u)
      BY <2>6 DEF HasOpen
    <2> QED BY <1>1, <2>6, <2>9, <2>11, <2>12 DEF ReplayKnown, Shaped
  <1>7. CASE OpensTrade(bars, costs, s, r, i)
    <2>1. PICK d \in {"BUY", "SELL"} : HasOpen(r, SimulateFill(d, bars[i].close, Slip(costs, bars[i]), i))
      BY <1>7 DEF OpensTrade
    <2> DEFINE o == SimulateFill(d, bars[i].close, Slip(costs, bars[i]), i)
    <2>2. o \in Trade /\ o.direction = d /\ o.slip = Slip(costs, bars[i]) /\ o.bar = i
      <3> DEFINE price == bars[i].close
                 slip == Slip(costs, bars[i])
      <3>1. Fillable(d, price, slip, i)
        BY <1>2 DEF Fillable
      <3>2. o = SimulateFill(d, price, slip, i)
        OBVIOUS
      <3> HIDE DEF price, slip, o
      <3>3. o \in Trade /\ o.direction = d /\ o.slip = slip /\ o.bar = i
        BY <3>1, <3>2, FillIs
      <3> QED BY <3>3 DEF slip
    <2>3. OrderOf(bars, o) = o
      BY <2>2 DEF OrderOf
    <2>4. HasOpen(r, o)
      BY <2>1
    <2> HIDE DEF o
    <2>5. Standing(bars, o, i)
      <3>1. \A j \in o.bar + 1 .. i : FALSE
        BY <1>2, <2>2
      <3>2. o.bar \in 1 .. i
        BY <1>2, <2>2
      <3> QED BY <1>2, <2>2, <2>3, <3>1, <3>2 DEF Standing, Begun
    <2>6. \A t \in Trade : HasOpen(r, t) => t = o
      BY <2>4 DEF HasOpen
    <2>7. r.trades = s.trades
      BY <1>7 DEF OpensTrade
    <2> QED BY <1>1, <1>4, <2>2, <2>4, <2>5, <2>6, <2>7 DEF ReplayKnown, Shaped
  <1> QED BY <1>5, <1>6, <1>7 DEF Moves

LEMMA ReplayStep ==
  ASSUME NEW bars, Candles(bars), NEW filter, NEW costs \in Charged, NEW i \in 1 .. Len(bars),
         NEW s, ReplayKnown(bars, costs, s, i - 1)
  PROVE  ReplayKnown(bars, costs, ReplayBar(bars, filter, costs, s, i), i)
  <1>1. Shaped(s)
    BY DEF ReplayKnown
  <1> QED BY <1>1, ReplayMoves, MovesKnown

\* After every bar the trades of the analytics engine are known.
LEMMA ReplayingKnown ==
  ASSUME NEW bars, Candles(bars), NEW filter, NEW costs \in Charged, NEW n \in Nat, Lookback + n <= Len(bars)
  PROVE  \A k \in 0 .. n : ReplayKnown(bars, costs, Replaying(bars, filter, costs, n)[k], Lookback + k)
  <1> DEFINE f == Replaying(bars, filter, costs, n)
             S == {k \in Nat : k <= n => ReplayKnown(bars, costs, f[k], Lookback + k)}
  <1>1. /\ f[0] = [open |-> <<>>, trades |-> <<>>]
        /\ \A k \in 1 .. n : f[k] = ReplayBar(bars, filter, costs, f[k - 1], Lookback + k)
    BY ReplaysIs
  <1>2. Lookback \in Nat \ {0} /\ Len(bars) \in Nat
    BY BacktestAssumption, CandlesAre
  <1> HIDE DEF f
  <1>3. 0 \in S
    <2>1. f[0].open = <<>> /\ f[0].trades = <<>> /\ f[0] = [open |-> f[0].open, trades |-> f[0].trades]
      BY <1>1
    <2>2. <<>> \in Seq(Trade) /\ DOMAIN <<>> = {}
      BY EmptySeq
    <2>3. \A t \in Trade : ~HasOpen(f[0], t)
      BY <2>1 DEF HasOpen
    <2> QED BY <2>1, <2>2, <2>3 DEF ReplayKnown, Shaped
  <1>4. ASSUME NEW k \in Nat, k \in S PROVE k + 1 \in S
    <2> SUFFICES ASSUME k + 1 <= n PROVE ReplayKnown(bars, costs, f[k + 1], Lookback + (k + 1))
      OBVIOUS
    <2>1. ReplayKnown(bars, costs, f[k], Lookback + k)
      BY <1>4
    <2>2. k + 1 \in 1 .. n /\ (k + 1) - 1 = k /\ Lookback + (k + 1) \in 1 .. Len(bars) /\ (Lookback + (k + 1)) - 1 = Lookback + k
      BY <1>2
    <2>3. f[k + 1] = ReplayBar(bars, filter, costs, f[k], Lookback + (k + 1))
      BY <1>1, <2>2
    <2> QED BY <2>1, <2>2, <2>3, ReplayStep
  <1>5. Nat \subseteq S
    <2> HIDE DEF S
    <2> QED BY <1>3, <1>4, EveryNumber
  <1> QED BY <1>5 DEF f

\* What is left at the end of a replay is closed at the last bar.
LEMMA LeavingIs ==
  ASSUME NEW bars, Candles(bars), NEW costs \in Charged, NEW n \in 1 .. Len(bars),
         NEW s, ReplayKnown(bars, costs, s, n),
         NEW left, left = [k \in DOMAIN s.open |-> Ended(s.open[k], n, "end", Gain(s.open[k], bars[n].close))]
  PROVE  /\ left \in Seq(Trade) /\ \A k \in DOMAIN left : LeftOver(bars, left[k], n)
         /\ DOMAIN left = DOMAIN s.open /\ s.open \in Seq(Trade)
         /\ \A k \in DOMAIN left : /\ left[k].bar = s.open[k].bar /\ left[k].direction = s.open[k].direction
                                   /\ left[k].entry = s.open[k].entry /\ left[k].reason = "end"
  <1>1. n \in Int /\ bars[n].close \in Int
    BY CandlesAre
  <1>2. Shaped(s) /\ \A t \in Trade : HasOpen(s, t) => Standing(bars, t, n)
    BY DEF ReplayKnown
  <1>3. CASE s.open = <<>>
    <2>1. <<>> \in Seq(Trade) /\ DOMAIN <<>> = {}
      BY EmptySeq
    <2>2. left = <<>>
      BY <1>3
    <2> QED BY <1>3, <2>1, <2>2
  <1>4. ASSUME NEW t \in Trade, HasOpen(s, t)
        PROVE  /\ left \in Seq(Trade) /\ \A k \in DOMAIN left : LeftOver(bars, left[k], n)
               /\ DOMAIN left = DOMAIN s.open /\ s.open \in Seq(Trade)
               /\ \A k \in DOMAIN left : /\ left[k].bar = s.open[k].bar /\ left[k].direction = s.open[k].direction
                                         /\ left[k].entry = s.open[k].entry /\ left[k].reason = "end"
    <2> DEFINE pnl == Gain(t, bars[n].close)
               reason == "end"
               e == Ended(t, n, reason, pnl)
    <2>1. Standing(bars, t, n) /\ s.open = <<t>>
      BY <1>2, <1>4 DEF HasOpen
    <2>2. DOMAIN s.open = {1} /\ s.open[1] = t /\ s.open \in Seq(Trade)
      BY <2>1
    <2>3. pnl \in Int
      BY <1>1, GainIs
    <2>4. /\ e \in Trade /\ e.at = n /\ e.reason = "end" /\ e.pnl = pnl
          /\ e.direction = t.direction /\ e.entry = t.entry /\ e.bar = t.bar /\ e.slip = t.slip
      <3>1. Endable(n, reason, pnl)
        BY <1>1, <2>3 DEF Endable
      <3>2. e = Ended(t, n, reason, pnl)
        OBVIOUS
      <3> HIDE DEF pnl, e, reason
      <3>4. /\ e \in Trade /\ e.at = n /\ e.reason = reason /\ e.pnl = pnl
            /\ e.direction = t.direction /\ e.entry = t.entry /\ e.bar = t.bar /\ e.slip = t.slip
        BY <3>1, <3>2, EndedIs
      <3> QED BY <3>4 DEF reason
    <2>5. OrderOf(bars, e) = t
      BY <2>1, <2>4 DEF OrderOf, Standing
    <2>6. LeftOver(bars, e, n)
      <3>1. Begun(bars, e, n)
        BY <2>1, <2>4 DEF Standing, Begun
      <3>2. \A j \in e.bar + 1 .. n : Touched(t, bars[j]) = "none"
        BY <2>1, <2>4 DEF Standing
      <3> QED BY <2>4, <2>5, <3>1, <3>2 DEF LeftOver
    <2>7. left = [k \in {1} |-> e]
      BY <2>2
    <2> HIDE DEF e
    <2>8. left = <<e>>
      BY <2>7
    <2>9. <<e>> \in Seq(Trade) /\ DOMAIN <<e>> = {1} /\ <<e>>[1] = e
      BY <2>4
    <2> QED BY <2>2, <2>4, <2>6, <2>8, <2>9
  <1> QED BY <1>2, <1>3, <1>4 DEF Shaped

LEMMA ReplayResult ==
  ASSUME NEW bars, Candles(bars), NEW filter, NEW costs \in Charged
  PROVE  /\ Replay(bars, filter, costs) \in Seq(Trade)
         /\ \A k \in DOMAIN Replay(bars, filter, costs) :
              \/ Stopped(bars, costs, Replay(bars, filter, costs)[k], Len(bars))
              \/ LeftOver(bars, Replay(bars, filter, costs)[k], Len(bars))
  <1> DEFINE n == Len(bars)
             m == n - Lookback
             s == Replaying(bars, filter, costs, m)[m]
             left == [k \in DOMAIN s.open |-> Ended(s.open[k], n, "end", Gain(s.open[k], bars[n].close))]
             R == Replay(bars, filter, costs)
  <1>1. n \in Nat /\ Lookback \in Nat \ {0} /\ Spare \in Nat
    BY CandlesAre, BacktestAssumption
  <1>2. CASE n < Lookback + Spare
    <2>1. R = <<>>
      BY <1>2 DEF Replay
    <2>2. <<>> \in Seq(Trade) /\ DOMAIN <<>> = {}
      BY EmptySeq
    <2> QED BY <2>1, <2>2
  <1>3. CASE ~(n < Lookback + Spare)
    <2>1. R = s.trades \o left
      BY <1>3 DEF Replay
    <2>2. m \in Nat /\ m \in 0 .. m /\ Lookback + m = n /\ n \in 1 .. Len(bars)
      BY <1>1, <1>3
    <2>3. ReplayKnown(bars, costs, s, n)
      <3> HIDE DEF m
      <3>1. Lookback + m <= Len(bars)
        BY <1>1, <2>2
      <3>2. ReplayKnown(bars, costs, Replaying(bars, filter, costs, m)[m], Lookback + m)
        BY <2>2, <3>1, ReplayingKnown
      <3> QED BY <2>2, <3>2
    <2>4. left = [k \in DOMAIN s.open |-> Ended(s.open[k], n, "end", Gain(s.open[k], bars[n].close))]
      OBVIOUS
    <2> HIDE DEF s, left, R
    <2>5. left \in Seq(Trade) /\ \A k \in DOMAIN left : LeftOver(bars, left[k], n)
      BY <2>2, <2>3, <2>4, LeavingIs
    <2>6. s.trades \in Seq(Trade) /\ \A k \in DOMAIN s.trades : Stopped(bars, costs, s.trades[k], n)
      BY <2>3 DEF ReplayKnown
    <2> HIDE DEF n
    <2> DEFINE a == s.trades
               la == Len(s.trades)
               lb == Len(left)
    <2>7. la \in Nat /\ lb \in Nat /\ DOMAIN a = 1 .. la /\ DOMAIN left = 1 .. lb
      BY <2>5, <2>6, LenProperties
    <2>8. R \in Seq(Trade) /\ Len(R) = la + lb
          /\ \A k \in 1 .. la + lb : R[k] = IF k <= la THEN a[k] ELSE left[k - la]
      BY <2>1, <2>5, <2>6, ConcatProperties
    <2> HIDE DEF a, la, lb
    <2>9. DOMAIN R = 1 .. la + lb
      BY <2>8, LenProperties
    <2>10. ASSUME NEW k \in 1 .. la + lb
           PROVE  Stopped(bars, costs, R[k], n) \/ LeftOver(bars, R[k], n)
      <3>1. CASE k <= la
        <4>1. k \in DOMAIN a /\ R[k] = a[k]
          BY <2>7, <2>8, <3>1
        <4> QED BY <2>6, <4>1 DEF a
      <3>2. CASE ~(k <= la)
        <4>1. k - la \in DOMAIN left /\ R[k] = left[k - la]
          BY <2>7, <2>8, <3>2
        <4> QED BY <2>5, <4>1
      <3> QED BY <3>1, <3>2
    <2> QED BY <2>8, <2>9, <2>10 DEF R, n
  <1> QED BY <1>2, <1>3

\* The order a trade would have begun as at no cost is stopped only by bars that
\* stop the real one, and reaches its target on all that take the real one's.
FreeOf(bars, t) == SimulateFill(t.direction, bars[t.bar].close, 0, t.bar)

LEMMA FreeTouched ==
  ASSUME NEW d \in {"BUY", "SELL"}, NEW c \in Int, NEW slip \in Nat, NEW i \in Int, NEW bar \in Candle,
         NEW o, o = SimulateFill(d, c, slip, i), NEW free, free = SimulateFill(d, c, 0, i)
  PROVE  /\ free \in Trade /\ o \in Trade
         /\ Touched(o, bar) = "none" => Touched(free, bar) # "stop_loss"
         /\ Touched(o, bar) = "take_profit" => Touched(free, bar) = "take_profit"
         /\ Touched(o, bar) \in {"none", "stop_loss", "take_profit"}
         /\ Touched(free, bar) \in {"none", "stop_loss", "take_profit"}
  <1>1. bar.low \in Int /\ bar.high \in Int
    BY DEF Candle
  <1>2. StopAway \in Nat /\ TargetAway \in Nat /\ slip \in Int /\ 0 \in Int
    BY BacktestAssumption
  <1>3. /\ o \in Trade /\ o.direction = d
        /\ d = "BUY" => o.stop = c + slip - StopAway /\ o.target = c + slip + TargetAway
        /\ d = "SELL" => o.stop = c - slip + StopAway /\ o.target = c - slip - TargetAway
    <2>1. Fillable(d, c, slip, i)
      BY <1>2 DEF Fillable
    <2> QED BY <2>1, FillIs
  <1>4. /\ free \in Trade /\ free.direction = d
        /\ d = "BUY" => free.stop = c + 0 - StopAway /\ free.target = c + 0 + TargetAway
        /\ d = "SELL" => free.stop = c - 0 + StopAway /\ free.target = c - 0 - TargetAway
    <2> DEFINE z == 0
    <2>1. Fillable(d, c, z, i) /\ free = SimulateFill(d, c, z, i)
      BY DEF Fillable
    <2> HIDE DEF z
    <2>2. /\ free \in Trade /\ free.direction = d
          /\ d = "BUY" => free.stop = c + z - StopAway /\ free.target = c + z + TargetAway
          /\ d = "SELL" => free.stop = c - z + StopAway /\ free.target = c - z - TargetAway
      BY <2>1, FillIs
    <2> QED BY <2>2 DEF z
  <1>5. free.stop \in Int /\ o.stop \in Int /\ free.target \in Int /\ o.target \in Int
    BY <1>3, <1>4 DEF Trade
  <1>6. CASE d = "BUY"
    <2>1. /\ Touched(o, bar) = "stop_loss" <=> bar.low <= o.stop
          /\ Touched(o, bar) = "none" <=> o.stop < bar.low /\ bar.high < o.target
          /\ Touched(o, bar) \in {"none", "stop_loss", "take_profit"}
      BY <1>3, <1>6, TouchedIs
    <2>2. /\ Touched(free, bar) = "stop_loss" <=> bar.low <= free.stop
          /\ Touched(free, bar) = "none" <=> free.stop < bar.low /\ bar.high < free.target
          /\ Touched(free, bar) \in {"none", "stop_loss", "take_profit"}
      BY <1>4, <1>6, TouchedIs
    <2>3. free.stop <= o.stop /\ free.target <= o.target
      <3>1. o.stop = c + slip - StopAway /\ o.target = c + slip + TargetAway
            /\ free.stop = c + 0 - StopAway /\ free.target = c + 0 + TargetAway
        BY <1>3, <1>4, <1>6
      <3> QED BY <1>2, <3>1
    <2>4. Touched(o, bar) # "stop_loss" => Touched(free, bar) # "stop_loss"
      BY <1>1, <1>5, <2>1, <2>2, <2>3
    <2>5. Touched(o, bar) = "take_profit" => Touched(free, bar) # "none"
      BY <1>1, <1>5, <2>1, <2>2, <2>3
    <2> QED BY <1>3, <1>4, <2>1, <2>2, <2>4, <2>5
  <1>7. CASE d = "SELL"
    <2>1. /\ Touched(o, bar) = "stop_loss" <=> o.stop <= bar.high
          /\ Touched(o, bar) = "none" <=> bar.high < o.stop /\ o.target < bar.low
          /\ Touched(o, bar) \in {"none", "stop_loss", "take_profit"}
      BY <1>3, <1>7, TouchedIs
    <2>2. /\ Touched(free, bar) = "stop_loss" <=> free.stop <= bar.high
          /\ Touched(free, bar) = "none" <=> bar.high < free.stop /\ free.target < bar.low
          /\ Touched(free, bar) \in {"none", "stop_loss", "take_profit"}
      BY <1>4, <1>7, TouchedIs
    <2>3. o.stop <= free.stop /\ o.target <= free.target
      <3>1. o.stop = c - slip + StopAway /\ o.target = c - slip - TargetAway
            /\ free.stop = c - 0 + StopAway /\ free.target = c - 0 - TargetAway
        BY <1>3, <1>4, <1>7
      <3> QED BY <1>2, <3>1
    <2>4. Touched(o, bar) # "stop_loss" => Touched(free, bar) # "stop_loss"
      BY <1>1, <1>5, <2>1, <2>2, <2>3
    <2>5. Touched(o, bar) = "take_profit" => Touched(free, bar) # "none"
      BY <1>1, <1>5, <2>1, <2>2, <2>3
    <2> QED BY <1>3, <1>4, <2>1, <2>2, <2>4, <2>5
  <1> QED BY <1>6, <1>7

FairBar(bar) == bar \in Candle /\ bar.low <= bar.close /\ bar.close <= bar.high
Costed(d, c, slip, i) == d \in {"BUY", "SELL"} /\ c \in Int /\ slip \in Nat /\ i \in Int

\* What the two orders bring, at their levels and at the close of a bar.
LEMMA FillGains ==
  ASSUME NEW d, NEW c, NEW slip, NEW i, Costed(d, c, slip, i), NEW bar, FairBar(bar),
         NEW o, o = SimulateFill(d, c, slip, i), NEW free, free = SimulateFill(d, c, 0, i)
  PROVE  /\ Gain(o, LevelOf(o, "stop_loss")) = -StopAway /\ Gain(o, LevelOf(o, "take_profit")) = TargetAway
         /\ Gain(free, LevelOf(free, "stop_loss")) = -StopAway /\ Gain(free, LevelOf(free, "take_profit")) = TargetAway
         /\ Gain(free, bar.close) \in Int /\ Gain(o, bar.close) = Gain(free, bar.close) - slip
         /\ Touched(free, bar) # "stop_loss" => -StopAway <= Gain(free, bar.close)
         /\ Touched(o, bar) = "none" => Gain(o, bar.close) <= TargetAway
  <1>1. /\ bar \in Candle /\ bar.low \in Int /\ bar.high \in Int /\ bar.close \in Int
        /\ bar.low <= bar.close /\ bar.close <= bar.high
    BY DEF FairBar, Candle
  <1>2. /\ d \in {"BUY", "SELL"} /\ c \in Int /\ slip \in Nat /\ i \in Int
        /\ StopAway \in Nat /\ TargetAway \in Nat /\ slip \in Int /\ 0 \in Int
    BY BacktestAssumption DEF Costed
  <1>3. /\ o \in Trade /\ o.direction = d
        /\ d = "BUY" => o.entry = c + slip /\ o.stop = c + slip - StopAway /\ o.target = c + slip + TargetAway
        /\ d = "SELL" => o.entry = c - slip /\ o.stop = c - slip + StopAway /\ o.target = c - slip - TargetAway
    <2>1. Fillable(d, c, slip, i)
      BY <1>2 DEF Fillable
    <2> QED BY <2>1, FillIs
  <1>4. /\ free \in Trade /\ free.direction = d
        /\ d = "BUY" => free.entry = c /\ free.stop = c - StopAway /\ free.target = c + TargetAway
        /\ d = "SELL" => free.entry = c /\ free.stop = c + StopAway /\ free.target = c - TargetAway
    <2> DEFINE z == 0
    <2>1. Fillable(d, c, z, i) /\ free = SimulateFill(d, c, z, i)
      BY <1>2 DEF Fillable
    <2> HIDE DEF z
    <2>2. /\ free \in Trade /\ free.direction = d
          /\ d = "BUY" => free.entry = c + z /\ free.stop = c + z - StopAway /\ free.target = c + z + TargetAway
          /\ d = "SELL" => free.entry = c - z /\ free.stop = c - z + StopAway /\ free.target = c - z - TargetAway
      BY <2>1, FillIs
    <2>3. c + z = c /\ c - z = c /\ z \in Int
      BY <1>2 DEF z
    <2>4. d = "BUY" => free.entry = c /\ free.stop = c - StopAway /\ free.target = c + TargetAway
      BY <1>2, <2>2, <2>3
    <2>5. d = "SELL" => free.entry = c /\ free.stop = c + StopAway /\ free.target = c - TargetAway
      BY <1>2, <2>2, <2>3
    <2> QED BY <2>2, <2>4, <2>5
  <1>5. free.stop \in Int /\ o.stop \in Int /\ free.target \in Int /\ o.target \in Int
    BY <1>3, <1>4 DEF Trade
  <1>6. /\ LevelOf(o, "stop_loss") = o.stop /\ LevelOf(o, "take_profit") = o.target
        /\ LevelOf(free, "stop_loss") = free.stop /\ LevelOf(free, "take_profit") = free.target
    BY DEF LevelOf
  <1> DEFINE p == bar.close
  <1>7. /\ p \in Int /\ bar.low <= p /\ p <= bar.high
    BY <1>1
  <1> HIDE DEF p
  <1>8. CASE d = "BUY"
    <2>1. /\ Gain(o, o.stop) = o.stop - o.entry /\ Gain(o, o.target) = o.target - o.entry /\ Gain(o, p) = p - o.entry
          /\ Gain(free, free.stop) = free.stop - free.entry /\ Gain(free, free.target) = free.target - free.entry
          /\ Gain(free, p) = p - free.entry
      BY <1>3, <1>4, <1>5, <1>7, <1>8, GainIs
    <2>2. /\ o.entry = c + slip /\ o.stop = c + slip - StopAway /\ o.target = c + slip + TargetAway
          /\ free.entry = c /\ free.stop = c - StopAway /\ free.target = c + TargetAway
      BY <1>3, <1>4, <1>8
    <2>3. /\ Gain(o, o.stop) = -StopAway /\ Gain(o, o.target) = TargetAway
          /\ Gain(free, free.stop) = -StopAway /\ Gain(free, free.target) = TargetAway
          /\ Gain(free, p) \in Int /\ Gain(o, p) = Gain(free, p) - slip
      BY <1>2, <1>7, <2>1, <2>2
    <2>4. ASSUME Touched(free, bar) # "stop_loss" PROVE -StopAway <= Gain(free, p)
      <3>1. ~(bar.low <= free.stop)
        BY <1>1, <1>4, <1>8, <2>4, TouchedIs
      <3> QED BY <1>1, <1>2, <1>5, <1>7, <2>1, <2>2, <3>1
    <2>5. ASSUME Touched(o, bar) = "none" PROVE Gain(o, p) <= TargetAway
      <3>1. bar.high < o.target
        BY <1>1, <1>3, <1>8, <2>5, TouchedIs
      <3> QED BY <1>1, <1>2, <1>5, <1>7, <2>1, <2>2, <3>1
    <2> QED BY <1>6, <2>3, <2>4, <2>5 DEF p
  <1>9. CASE d = "SELL"
    <2>1. /\ Gain(o, o.stop) = o.entry - o.stop /\ Gain(o, o.target) = o.entry - o.target /\ Gain(o, p) = o.entry - p
          /\ Gain(free, free.stop) = free.entry - free.stop /\ Gain(free, free.target) = free.entry - free.target
          /\ Gain(free, p) = free.entry - p
      BY <1>3, <1>4, <1>5, <1>7, <1>9, GainIs
    <2>2. /\ o.entry = c - slip /\ o.stop = c - slip + StopAway /\ o.target = c - slip - TargetAway
          /\ free.entry = c /\ free.stop = c + StopAway /\ free.target = c - TargetAway
      BY <1>3, <1>4, <1>9
    <2>3. /\ Gain(o, o.stop) = -StopAway /\ Gain(o, o.target) = TargetAway
          /\ Gain(free, free.stop) = -StopAway /\ Gain(free, free.target) = TargetAway
          /\ Gain(free, p) \in Int /\ Gain(o, p) = Gain(free, p) - slip
      BY <1>2, <1>7, <2>1, <2>2
    <2>4. ASSUME Touched(free, bar) # "stop_loss" PROVE -StopAway <= Gain(free, p)
      <3>1. ~(free.stop <= bar.high)
        BY <1>1, <1>4, <1>9, <2>4, TouchedIs
      <3> QED BY <1>1, <1>2, <1>5, <1>7, <2>1, <2>2, <3>1
    <2>5. ASSUME Touched(o, bar) = "none" PROVE Gain(o, p) <= TargetAway
      <3>1. o.target < bar.low
        BY <1>1, <1>3, <1>9, <2>5, TouchedIs
      <3> QED BY <1>1, <1>2, <1>5, <1>7, <2>1, <2>2, <3>1
    <2> QED BY <1>6, <2>3, <2>4, <2>5 DEF p
  <1> QED BY <1>2, <1>8, <1>9

LEMMA MinIs ==
  ASSUME NEW T \in SUBSET Nat, T # {}
  PROVE  Min(T) \in T /\ \A x \in T : Min(T) <= x
  <1>1. \E x \in T : \A y \in T : x <= y
    BY LeastNumber
  <1> QED BY <1>1 DEF Min

\* No trade of the analytics engine brings more than its entry would have at no cost.
LEMMA CostsHurt ==
  ASSUME Candles(history), NEW costs \in Charged, NEW t,
         Stopped(history, costs, t, Len(history)) \/ LeftOver(history, t, Len(history))
  PROVE  t.pnl <= Costless(t, history[t.bar].close)
  <1> DEFINE n == Len(history)
             d == t.direction
             c == history[t.bar].close
             slip == t.slip
             i == t.bar
             o == OrderOf(history, t)
             free == SimulateFill(t.direction, history[t.bar].close, 0, t.bar)
             hits == {j \in t.bar + 1 .. Len(history) : Touched(free, history[j]) # "none"}
             least == Min(hits)
             end == Last(history).close
             fee == Fee(costs)
  <1>1. Costless(t, history[t.bar].close) = IF hits = {} THEN Gain(free, end) ELSE Gain(free, LevelOf(free, Touched(free, history[least])))
    BY DEF Costless
  <1>2. t \in Trade /\ i \in 1 .. n /\ slip \in Nat
    BY DEF Stopped, LeftOver, Begun
  <1>3. d \in {"BUY", "SELL"} /\ i \in Int
    BY <1>2 DEF Trade
  <1>4. n \in Nat /\ c \in Int /\ \A j \in 1 .. n : /\ history[j] \in Candle
                              /\ history[j].low <= history[j].close /\ history[j].close <= history[j].high
    BY <1>2, CandlesAre
  <1>5. o = SimulateFill(d, c, slip, i) /\ free = SimulateFill(d, c, 0, i)
    BY DEF OrderOf
  <1>6. end = history[n].close
    BY DEF Last
  <1>7. fee \in Nat
    BY BacktestAssumption DEF Fee
  <1>8. StopAway \in Nat /\ TargetAway \in Nat
    BY BacktestAssumption
  <1>9. \A j \in i + 1 .. n : j \in 1 .. n /\ (Touched(free, history[j]) # "none" => j \in hits)
    BY <1>2, <1>4
  <1>10. hits \in SUBSET Nat /\ \A j \in hits : j \in i + 1 .. n /\ Touched(free, history[j]) # "none"
    BY <1>2, <1>4
  <1>11. hits # {} => least \in hits /\ \A j \in hits : least <= j
    BY <1>10, MinIs
  <1>12. \/ /\ t.pnl = Gain(o, LevelOf(o, t.reason)) - slip - fee /\ t.at \in i + 1 .. n
            /\ t.reason \in {"stop_loss", "take_profit"} /\ t.reason = Touched(o, history[t.at])
            /\ \A j \in i + 1 .. t.at - 1 : Touched(o, history[j]) = "none"
         \/ t.pnl = Gain(o, end) /\ \A j \in i + 1 .. n : Touched(o, history[j]) = "none"
    BY <1>6 DEF Stopped, LeftOver
  <1> HIDE DEF n, d, c, slip, i, o, free, hits, least, end, fee
  <1>13. \A j \in 1 .. n :
           /\ Touched(o, history[j]) = "none" => Touched(free, history[j]) # "stop_loss"
           /\ Touched(o, history[j]) = "take_profit" => Touched(free, history[j]) = "take_profit"
           /\ Touched(free, history[j]) \in {"none", "stop_loss", "take_profit"}
    BY <1>2, <1>3, <1>4, <1>5, FreeTouched
  <1>14. n \in 1 .. n
    BY <1>2, <1>4
  <1>15. /\ Gain(o, LevelOf(o, "stop_loss")) = -StopAway /\ Gain(o, LevelOf(o, "take_profit")) = TargetAway
         /\ Gain(free, LevelOf(free, "stop_loss")) = -StopAway /\ Gain(free, LevelOf(free, "take_profit")) = TargetAway
         /\ Gain(free, end) \in Int /\ Gain(o, end) = Gain(free, end) - slip
         /\ Touched(free, history[n]) # "stop_loss" => -StopAway <= Gain(free, end)
         /\ Touched(o, history[n]) = "none" => Gain(o, end) <= TargetAway
    <2> DEFINE bar == history[n]
    <2>1. FairBar(bar) /\ end = bar.close /\ Costed(d, c, slip, i)
      BY <1>2, <1>3, <1>4, <1>6, <1>14 DEF FairBar, Costed
    <2> HIDE DEF bar
    <2>2. /\ Gain(o, LevelOf(o, "stop_loss")) = -StopAway /\ Gain(o, LevelOf(o, "take_profit")) = TargetAway
          /\ Gain(free, LevelOf(free, "stop_loss")) = -StopAway /\ Gain(free, LevelOf(free, "take_profit")) = TargetAway
          /\ Gain(free, bar.close) \in Int /\ Gain(o, bar.close) = Gain(free, bar.close) - slip
          /\ Touched(free, bar) # "stop_loss" => -StopAway <= Gain(free, bar.close)
          /\ Touched(o, bar) = "none" => Gain(o, bar.close) <= TargetAway
      BY <1>5, <2>1, FillGains
    <2> QED BY <2>1, <2>2 DEF bar
  <1>16. least \in hits => Touched(free, history[least]) \in {"stop_loss", "take_profit"} /\ least \in i + 1 .. n
    BY <1>9, <1>10, <1>13
  <1>17. ASSUME t.pnl = Gain(o, LevelOf(o, t.reason)) - slip - fee, t.at \in i + 1 .. n, t.reason = "stop_loss"
         PROVE  t.pnl <= Costless(t, history[t.bar].close)
    <2>1. t.pnl <= -StopAway
      BY <1>2, <1>7, <1>8, <1>15, <1>17
    <2>2. t.pnl \in Int
      BY <1>2 DEF Trade
    <2>3. CASE hits = {}
      <3>1. n \in i + 1 .. n
        BY <1>2, <1>3, <1>4, <1>17
      <3>2. Touched(free, history[n]) # "stop_loss"
        BY <1>9, <2>3, <3>1
      <3> QED BY <1>1, <1>8, <1>15, <2>1, <2>2, <2>3, <3>2
    <2>4. CASE hits # {}
      <3>1. Costless(t, history[t.bar].close) \in {-StopAway, TargetAway}
        BY <1>1, <1>11, <1>15, <1>16, <2>4
      <3> QED BY <1>8, <2>1, <2>2, <3>1
    <2> QED BY <2>3, <2>4
  <1>18. ASSUME t.pnl = Gain(o, LevelOf(o, t.reason)) - slip - fee, t.at \in i + 1 .. n, t.reason = "take_profit",
                t.reason = Touched(o, history[t.at]), \A j \in i + 1 .. t.at - 1 : Touched(o, history[j]) = "none"
         PROVE  t.pnl <= Costless(t, history[t.bar].close)
    <2>1. t.pnl <= TargetAway
      BY <1>2, <1>7, <1>8, <1>15, <1>18
    <2>2. t.at \in 1 .. n /\ Touched(free, history[t.at]) = "take_profit" /\ t.at \in hits
      <3>1. t.at \in 1 .. n
        BY <1>9, <1>18
      <3> QED BY <1>9, <1>13, <1>18, <3>1
    <2>3. least \in hits /\ least <= t.at /\ hits # {}
      BY <1>11, <2>2
    <2>4. Touched(free, history[least]) = "take_profit"
      <3>1. CASE least = t.at
        BY <2>2, <3>1
      <3>2. CASE least # t.at
        <4>1. least \in i + 1 .. t.at - 1 /\ least \in 1 .. n
          BY <1>2, <1>3, <1>9, <1>16, <1>18, <2>3, <3>2
        <4> QED BY <1>13, <1>16, <1>18, <2>3, <4>1
      <3> QED BY <3>1, <3>2
    <2> QED BY <1>1, <1>15, <2>1, <2>3, <2>4
  <1>19. ASSUME t.pnl = Gain(o, end), \A j \in i + 1 .. n : Touched(o, history[j]) = "none"
         PROVE  t.pnl <= Costless(t, history[t.bar].close)
    <2>1. CASE hits = {}
      BY <1>1, <1>2, <1>15, <1>19, <2>1
    <2>2. CASE hits # {}
      <3>1. least \in i + 1 .. n /\ least \in hits
        BY <1>11, <1>16, <2>2
      <3>2. Touched(free, history[least]) = "take_profit"
        BY <1>9, <1>13, <1>16, <1>19, <3>1
      <3>3. n \in i + 1 .. n
        BY <1>2, <1>3, <1>4, <3>1
      <3>4. Gain(o, end) <= TargetAway
        BY <1>15, <1>19, <3>3
      <3> QED BY <1>1, <1>15, <1>19, <2>2, <3>2, <3>4
    <2> QED BY <2>1, <2>2
  <1> QED BY <1>12, <1>17, <1>18, <1>19

\* The candles up to a bar, and what is read of them.
LEMMA PrefixIs ==
  ASSUME NEW bars, Candles(bars), NEW n \in 1 .. Len(bars)
  PROVE  /\ Candles(Upto(bars, n)) /\ Len(Upto(bars, n)) = n
         /\ \A i \in 1 .. n : /\ Upto(bars, n)[i] = bars[i]
                              /\ Upto(Upto(bars, n), i) = Upto(bars, i)
                              /\ Window(Upto(bars, n), i) = Window(bars, i)
  <1> DEFINE p == Upto(bars, n)
  <1>1. Len(bars) \in Nat /\ bars \in Seq(Candle) /\ n \in Int /\ 1 \in Int /\ 1 <= n
    BY CandlesAre DEF Candles
  <1>2. \A i \in 1 .. n : bars[i] \in Candle /\ i \in 1 .. Len(bars)
    BY <1>1, CandlesAre
  <1>3. p \in Seq(Candle) /\ Len(p) = n /\ \A i \in 1 .. n : p[i] = bars[i]
    <2>1. /\ SubSeq(bars, 1, n) \in Seq(Candle)
          /\ Len(SubSeq(bars, 1, n)) = IF 1 <= n THEN n - 1 + 1 ELSE 0
          /\ \A i \in 1 .. n - 1 + 1 : SubSeq(bars, 1, n)[i] = bars[1 + i - 1]
      BY <1>1, <1>2, SubSeqProperties
    <2>2. n - 1 + 1 = n /\ \A i \in 1 .. n : 1 + i - 1 = i
      BY <1>1
    <2> QED BY <1>1, <2>1, <2>2 DEF Upto
  <1>4. Candles(p)
    <2>1. DOMAIN p = 1 .. n
      BY <1>3, LenProperties
    <2>2. \A i \in 1 .. n : bars[i].low <= bars[i].close /\ bars[i].close <= bars[i].high
      BY <1>2, CandlesAre
    <2> HIDE DEF p
    <2> QED BY <1>3, <2>1, <2>2 DEF Candles
  <1>5. ASSUME NEW i \in 1 .. n, NEW m \in 1 .. i PROVE SubSeq(p, m, i) = SubSeq(bars, m, i)
    <2>1. n \in 1 .. Len(bars) /\ 1 \in 1 .. Len(bars) /\ m \in 1 .. n - 1 + 1 /\ i \in 1 .. n - 1 + 1
      BY <1>1
    <2>2. SubSeq(SubSeq(bars, 1, n), m, i) = SubSeq(bars, 1 + m - 1, 1 + i - 1)
      BY <1>1, <2>1, SubSeqOfSubSeq
    <2>3. 1 + m - 1 = m /\ 1 + i - 1 = i
      OBVIOUS
    <2> QED BY <2>2, <2>3 DEF Upto
  <1>6. ASSUME NEW i \in 1 .. n PROVE Upto(p, i) = Upto(bars, i) /\ Window(p, i) = Window(bars, i)
    <2> DEFINE m == Max({1, i - Lookback})
    <2>1. m \in 1 .. i
      <3> DEFINE T == {1, i - Lookback}
                 t == IF i - Lookback > 1 THEN i - Lookback ELSE 1
      <3>1. Lookback \in Nat
        BY BacktestAssumption
      <3>2. T \in SUBSET Int /\ t \in T /\ (\A x \in T : x <= t) /\ t \in 1 .. i
        BY <3>1
      <3>3. Max(T) = t
        <4> HIDE DEF T, t
        <4> QED BY <3>2, MaxIs
      <3> QED BY <3>2, <3>3
    <2>2. 1 \in 1 .. i
      OBVIOUS
    <2> HIDE DEF m, p
    <2>3. SubSeq(p, m, i) = SubSeq(bars, m, i) /\ SubSeq(p, 1, i) = SubSeq(bars, 1, i)
      BY <1>5, <2>1, <2>2
    <2> QED BY <2>3 DEF Upto, Window, m
  <1> QED BY <1>3, <1>4, <1>6

\* An engine does the same on them, bar by bar, as on all the candles.
LEMMA SameReplay ==
  ASSUME NEW bars, Candles(bars), NEW filter, NEW costs, NEW n \in Lookback .. Len(bars)
  PROVE  \A k \in 0 .. n - Lookback :
           Replaying(Upto(bars, n), filter, costs, n - Lookback)[k]
             = Replaying(bars, filter, costs, Len(bars) - Lookback)[k]
  <1> DEFINE p == Upto(bars, n)
             m == n - Lookback
             l == Len(bars) - Lookback
             f == Replaying(p, filter, costs, m)
             g == Replaying(bars, filter, costs, l)
             S == {k \in Nat : k <= m => f[k] = g[k]}
  <1>1. Lookback \in Nat \ {0} /\ Len(bars) \in Nat /\ m \in Nat /\ l \in Nat /\ m <= l /\ n \in 1 .. Len(bars)
    BY BacktestAssumption, CandlesAre
  <1>2. \A i \in 1 .. n : p[i] = bars[i] /\ Upto(p, i) = Upto(bars, i) /\ Window(p, i) = Window(bars, i)
    BY <1>1, PrefixIs
  <1> HIDE DEF p
  <1>3. /\ f[0] = [open |-> <<>>, trades |-> <<>>]
        /\ \A k \in 1 .. m : f[k] = ReplayBar(p, filter, costs, f[k - 1], Lookback + k)
    BY <1>1, ReplaysIs
  <1>4. /\ g[0] = [open |-> <<>>, trades |-> <<>>]
        /\ \A k \in 1 .. l : g[k] = ReplayBar(bars, filter, costs, g[k - 1], Lookback + k)
    BY <1>1, ReplaysIs
  <1>5. \A s : \A i \in 1 .. n : ReplayBar(p, filter, costs, s, i) = ReplayBar(bars, filter, costs, s, i)
    <2> TAKE s
    <2> TAKE i \in 1 .. n
    <2>1. p[i] = bars[i] /\ SeenAt(p, costs, i) = SeenAt(bars, costs, i)
      BY <1>2 DEF SeenAt
    <2> QED BY <2>1 DEF ReplayBar
  <1> HIDE DEF f, g
  <1>6. 0 \in S
    BY <1>3, <1>4
  <1>7. ASSUME NEW k \in Nat, k \in S PROVE k + 1 \in S
    <2> SUFFICES ASSUME k + 1 <= m PROVE f[k + 1] = g[k + 1]
      OBVIOUS
    <2>1. f[k] = g[k]
      BY <1>1, <1>7
    <2>2. k + 1 \in 1 .. m /\ k + 1 \in 1 .. l /\ (k + 1) - 1 = k /\ Lookback + (k + 1) \in 1 .. n
      BY <1>1
    <2> HIDE DEF m, l
    <2>3. /\ f[k + 1] = ReplayBar(p, filter, costs, f[k], Lookback + (k + 1))
          /\ g[k + 1] = ReplayBar(bars, filter, costs, g[k], Lookback + (k + 1))
      BY <1>3, <1>4, <2>2
    <2> QED BY <1>5, <2>1, <2>2, <2>3
  <1>8. Nat \subseteq S
    <2> HIDE DEF S
    <2> QED BY <1>6, <1>7, EveryNumber
  <1> QED BY <1>1, <1>8 DEF f, g, p

\* What a report says was opened, and was closed at a level, by bar n.
Entered(X, n) == {<<t.bar, t.direction, t.entry>> : t \in {u \in X : u.bar <= n}}
Settled(X, n) == {t \in X : t.at <= n /\ t.reason \in {"stop_loss", "take_profit"}}
AllOf(s) == Range(s.trades) \cup Range(s.open)

\* Ending a trade, or one that begins after bar n, is no entry by bar n.
LEMMA EnteredKept ==
  ASSUME NEW X, NEW n, NEW t, NEW e
  PROVE  /\ e.bar = t.bar /\ e.direction = t.direction /\ e.entry = t.entry
              => Entered(X \cup {e}, n) = Entered(X \cup {t}, n)
         /\ ~(e.bar <= n) => Entered(X \cup {e}, n) = Entered(X, n)
         /\ ~(e.at <= n) => Settled(X \cup {e}, n) = Settled(X, n)
         /\ e.reason \notin {"stop_loss", "take_profit"} => Settled(X \cup {e}, n) = Settled(X, n)
  <1>1. ASSUME e.bar = t.bar, e.direction = t.direction, e.entry = t.entry
        PROVE  Entered(X \cup {e}, n) = Entered(X \cup {t}, n)
    BY <1>1 DEF Entered
  <1>2. ASSUME ~(e.bar <= n) PROVE Entered(X \cup {e}, n) = Entered(X, n)
    BY <1>2 DEF Entered
  <1> QED BY <1>1, <1>2 DEF Settled

LEMMA AppendRange ==
  ASSUME NEW S, NEW q \in Seq(S), NEW x \in S
  PROVE  Range(Append(q, x)) = Range(q) \cup {x}
  <1> DEFINE a == Append(q, x)
  <1>1. /\ Len(q) \in Nat /\ DOMAIN q = 1 .. Len(q) /\ a \in Seq(S) /\ Len(a) = Len(q) + 1
        /\ \A i \in 1 .. Len(q) : a[i] = q[i]
    BY LenProperties, AppendProperties
  <1>2. a[Len(q) + 1] = x
    BY AppendProperties
  <1> HIDE DEF a
  <1>3. DOMAIN a = (1 .. Len(q)) \cup {Len(q) + 1}
    <2>1. DOMAIN a = 1 .. Len(q) + 1
      BY <1>1, LenProperties
    <2> QED BY <1>1, <2>1
  <1>4. Range(a) = Range(q) \cup {x}
    BY <1>1, <1>2, <1>3 DEF Range
  <1> QED BY <1>4 DEF a

LEMMA OneRange ==
  ASSUME NEW t
  PROVE  Range(<<t>>) = {t} /\ Range(<<>>) = {}
  BY DEF Range

\* No later bar changes what was opened and closed by bar n.
LEMMA LaterKeeps ==
  ASSUME NEW bars, Candles(bars), NEW costs \in Charged, NEW i \in 1 .. Len(bars),
         NEW s, ReplayKnown(bars, costs, s, i - 1), NEW r, Moves(bars, costs, s, r, i), NEW n \in Int, n < i
  PROVE  Entered(AllOf(r), n) = Entered(AllOf(s), n) /\ Settled(Range(r.trades), n) = Settled(Range(s.trades), n)
  <1>1. s.trades \in Seq(Trade) /\ \A t \in Trade : HasOpen(s, t) => Standing(bars, t, i - 1)
    BY DEF ReplayKnown
  <1>2. bars[i] \in Candle /\ bars[i].close \in Int /\ i \in Int /\ ~(i <= n) /\ Slip(costs, bars[i]) \in Nat /\ Fee(costs) \in Nat
    BY CandlesAre, SlipIs
  <1>3. ASSUME NEW t \in Trade, HasOpen(s, t), EndsTrade(bars, costs, s, r, i, t)
        PROVE  Entered(AllOf(r), n) = Entered(AllOf(s), n) /\ Settled(Range(r.trades), n) = Settled(Range(s.trades), n)
    <2> DEFINE reason == Touched(t, bars[i])
               pnl == Gain(t, LevelOf(t, reason)) - t.slip - Fee(costs)
               e == Ended(t, i, reason, pnl)
    <2>1. t.slip \in Nat
      BY <1>1, <1>3 DEF Standing, Begun
    <2>2. Endable(i, reason, pnl)
      <3>1. LevelOf(t, reason) \in Int
        BY DEF LevelOf, Trade
      <3>2. pnl \in Int
        <4>1. Gain(t, LevelOf(t, reason)) \in Int
          BY <3>1, GainIs
        <4> QED BY <1>2, <2>1, <4>1
      <3>3. reason \in {"stop_loss", "take_profit"}
        BY <1>2, <1>3, TouchedIs DEF EndsTrade
      <3> QED BY <1>2, <3>2, <3>3 DEF Endable
    <2>3. r.open = <<>> /\ r.trades = Append(s.trades, e) /\ s.open = <<t>>
      BY <1>3 DEF EndsTrade, HasOpen
    <2>4. e = Ended(t, i, reason, pnl)
      OBVIOUS
    <2> HIDE DEF e, reason, pnl
    <2>5. e \in Trade /\ e.at = i /\ e.direction = t.direction /\ e.entry = t.entry /\ e.bar = t.bar
      BY <2>2, <2>4, EndedIs
    <2>6. Range(r.trades) = Range(s.trades) \cup {e}
      BY <1>1, <2>3, <2>5, AppendRange
    <2>7. AllOf(r) = Range(s.trades) \cup {e} /\ AllOf(s) = Range(s.trades) \cup {t}
      BY <2>3, <2>6, OneRange DEF AllOf
    <2>8. ~(e.at <= n)
      BY <1>2, <2>5
    <2> DEFINE X == Range(s.trades)
    <2> HIDE DEF X
    <2>9. Settled(X \cup {e}, n) = Settled(X, n)
      BY <2>8, EnteredKept
    <2>10. Entered(X \cup {e}, n) = Entered(X \cup {t}, n)
      <3>1. e.bar = t.bar /\ e.direction = t.direction /\ e.entry = t.entry
        BY <2>5
      <3> HIDE DEF HasOpen
      <3> QED BY <3>1 DEF Entered
    <2> QED BY <2>6, <2>7, <2>9, <2>10 DEF X
  <1>4. ASSUME OpensTrade(bars, costs, s, r, i)
        PROVE  Entered(AllOf(r), n) = Entered(AllOf(s), n) /\ Settled(Range(r.trades), n) = Settled(Range(s.trades), n)
    <2>1. PICK d \in {"BUY", "SELL"} : HasOpen(r, SimulateFill(d, bars[i].close, Slip(costs, bars[i]), i))
      BY <1>4 DEF OpensTrade
    <2> DEFINE o == SimulateFill(d, bars[i].close, Slip(costs, bars[i]), i)
    <2>2. o.bar = i
      BY DEF SimulateFill
    <2>3. HasOpen(r, o)
      BY <2>1
    <2> HIDE DEF o
    <2>4. s.open = <<>> /\ r.trades = s.trades /\ r.open = <<o>>
      BY <1>4, <2>3 DEF OpensTrade, HasOpen
    <2>5. AllOf(r) = Range(s.trades) \cup {o} /\ AllOf(s) = Range(s.trades)
      BY <2>4, OneRange DEF AllOf
    <2>6. ~(o.bar <= n)
      BY <1>2, <2>2
    <2> DEFINE X == Range(s.trades)
    <2> HIDE DEF X
    <2>7. Entered(X \cup {o}, n) = Entered(X, n)
      BY <2>6, EnteredKept
    <2> QED BY <2>4, <2>5, <2>7 DEF X
  <1> QED BY <1>3, <1>4 DEF Moves

LEMMA LaterReplays ==
  ASSUME NEW bars, Candles(bars), NEW filter, NEW costs \in Charged, NEW n \in Lookback .. Len(bars)
  PROVE  LET f == Replaying(bars, filter, costs, Len(bars) - Lookback)
         IN  /\ Entered(AllOf(f[Len(bars) - Lookback]), n) = Entered(AllOf(f[n - Lookback]), n)
             /\ Settled(Range(f[Len(bars) - Lookback].trades), n) = Settled(Range(f[n - Lookback].trades), n)
  <1> DEFINE m == n - Lookback
             l == Len(bars) - Lookback
             f == Replaying(bars, filter, costs, l)
             S == {k \in Nat : m + k <= l => /\ Entered(AllOf(f[m + k]), n) = Entered(AllOf(f[m]), n)
                                             /\ Settled(Range(f[m + k].trades), n) = Settled(Range(f[m].trades), n)}
  <1>1. Lookback \in Nat \ {0} /\ Len(bars) \in Nat /\ m \in Nat /\ l \in Nat /\ m <= l /\ n \in Int
    BY BacktestAssumption, CandlesAre
  <1>2. \A k \in 1 .. l : f[k] = ReplayBar(bars, filter, costs, f[k - 1], Lookback + k)
    BY <1>1, ReplaysIs
  <1>3. \A k \in 0 .. l : ReplayKnown(bars, costs, f[k], Lookback + k)
    <2>1. Lookback + l <= Len(bars)
      BY <1>1
    <2> HIDE DEF l
    <2> QED BY <1>1, <2>1, ReplayingKnown
  <1> HIDE DEF f
  <1>4. 0 \in S
    <2>1. m + 0 = m
      BY <1>1
    <2> HIDE DEF m
    <2> QED BY <2>1
  <1>5. ASSUME NEW k \in Nat, k \in S PROVE k + 1 \in S
    <2> SUFFICES ASSUME m + (k + 1) <= l
                 PROVE  /\ Entered(AllOf(f[m + (k + 1)]), n) = Entered(AllOf(f[m]), n)
                        /\ Settled(Range(f[m + (k + 1)].trades), n) = Settled(Range(f[m].trades), n)
      OBVIOUS
    <2> DEFINE j == m + k
               i == Lookback + (j + 1)
    <2>1. j + 1 = m + (k + 1) /\ j + 1 \in 1 .. l /\ (j + 1) - 1 = j /\ j \in 0 .. l
          /\ i \in 1 .. Len(bars) /\ i - 1 = Lookback + j /\ n < i
      BY <1>1
    <2>2. /\ Entered(AllOf(f[j]), n) = Entered(AllOf(f[m]), n)
          /\ Settled(Range(f[j].trades), n) = Settled(Range(f[m].trades), n)
      <3>1. m + k <= l
        BY <1>1
      <3> HIDE DEF m, l
      <3> QED BY <1>5, <3>1
    <2>3. f[j + 1] = ReplayBar(bars, filter, costs, f[j], i)
      BY <1>2, <2>1
    <2> HIDE DEF j, i, m, l
    <2>4. ReplayKnown(bars, costs, f[j], i - 1)
      BY <1>3, <2>1
    <2>5. Moves(bars, costs, f[j], f[j + 1], i)
      BY <2>3, <2>4, ReplayMoves DEF ReplayKnown
    <2>6. /\ Entered(AllOf(f[j + 1]), n) = Entered(AllOf(f[j]), n)
          /\ Settled(Range(f[j + 1].trades), n) = Settled(Range(f[j].trades), n)
      BY <1>1, <2>1, <2>4, <2>5, LaterKeeps
    <2> QED BY <2>1, <2>2, <2>6
  <1>6. Nat \subseteq S
    <2> HIDE DEF S
    <2> QED BY <1>4, <1>5, EveryNumber
  <1>7. l - m \in Nat /\ m + (l - m) = l
    BY <1>1
  <1>8. /\ Entered(AllOf(f[l]), n) = Entered(AllOf(f[m]), n)
        /\ Settled(Range(f[l].trades), n) = Settled(Range(f[m].trades), n)
    <2> HIDE DEF m, l
    <2> DEFINE k == l - m
    <2>1. k \in Nat /\ m + k = l
      BY <1>7
    <2> HIDE DEF k
    <2>2. k \in S
      <3> HIDE DEF S
      <3> QED BY <1>6, <2>1
    <2>3. m + k <= l => /\ Entered(AllOf(f[m + k]), n) = Entered(AllOf(f[m]), n)
                       /\ Settled(Range(f[m + k].trades), n) = Settled(Range(f[m].trades), n)
      BY <2>2
    <2>4. m + k <= l
      BY <1>1, <2>1
    <2> QED BY <2>1, <2>3, <2>4
  <1> QED BY <1>8 DEF f

LEMMA ReplayEnds ==
  ASSUME NEW bars, Candles(bars), NEW filter, NEW costs \in Charged, Lookback + Spare <= Len(bars), NEW n
  PROVE  LET s == Replaying(bars, filter, costs, Len(bars) - Lookback)[Len(bars) - Lookback]
         IN  /\ Opened(Replay(bars, filter, costs), n) = Entered(AllOf(s), n)
             /\ ClosedBy(Replay(bars, filter, costs), n) = Settled(Range(s.trades), n)
  <1> DEFINE l == Len(bars)
             m == l - Lookback
             s == Replaying(bars, filter, costs, m)[m]
             left == [k \in DOMAIN s.open |-> Ended(s.open[k], l, "end", Gain(s.open[k], bars[l].close))]
             R == Replay(bars, filter, costs)
  <1>1. /\ l \in Nat /\ Lookback \in Nat \ {0} /\ Spare \in Nat /\ ~(l < Lookback + Spare)
        /\ m \in Nat /\ m \in 0 .. m /\ Lookback + m = l /\ l \in 1 .. Len(bars)
    BY CandlesAre, BacktestAssumption
  <1>2. R = s.trades \o left
    BY <1>1 DEF Replay
  <1>3. ReplayKnown(bars, costs, s, l)
    <2> HIDE DEF m
    <2>1. Lookback + m <= Len(bars)
      BY <1>1
    <2>2. ReplayKnown(bars, costs, Replaying(bars, filter, costs, m)[m], Lookback + m)
      BY <1>1, <2>1, ReplayingKnown
    <2> QED BY <1>1, <2>2
  <1>4. left = [k \in DOMAIN s.open |-> Ended(s.open[k], l, "end", Gain(s.open[k], bars[l].close))]
    OBVIOUS
  <1>5. Opened(R, n) = Entered(Range(R), n) /\ ClosedBy(R, n) = Settled(Range(R), n)
    BY DEF Opened, ClosedBy, Entered, Settled
  <1> HIDE DEF s, left, R
  <1>6. /\ left \in Seq(Trade) /\ DOMAIN left = DOMAIN s.open /\ s.open \in Seq(Trade)
        /\ \A k \in DOMAIN left : /\ left[k].bar = s.open[k].bar /\ left[k].direction = s.open[k].direction
                                  /\ left[k].entry = s.open[k].entry /\ left[k].reason = "end"
    BY <1>1, <1>3, <1>4, LeavingIs
  <1>7. s.trades \in Seq(Trade) /\ (s.open = <<>> \/ \E t \in Trade : HasOpen(s, t))
    BY <1>3 DEF ReplayKnown, Shaped
  <1> HIDE DEF m, l
  <1> DEFINE X == Range(s.trades)
  <1>8. Range(R) = X \cup Range(left)
    BY <1>2, <1>6, <1>7, RangeConcatenation
  <1>9. AllOf(s) = X \cup Range(s.open)
    BY DEF AllOf
  <1> HIDE DEF X
  <1>10. CASE s.open = <<>>
    <2>1. DOMAIN left = {} /\ Range(left) = {} /\ Range(s.open) = {}
      BY <1>6, <1>10, OneRange DEF Range
    <2> QED BY <1>5, <1>8, <1>9, <2>1 DEF X, R, s, m, l
  <1>11. ASSUME NEW t \in Trade, HasOpen(s, t)
         PROVE  Opened(R, n) = Entered(AllOf(s), n) /\ ClosedBy(R, n) = Settled(X, n)
    <2> DEFINE e == left[1]
    <2>1. s.open = <<t>> /\ DOMAIN s.open = {1} /\ s.open[1] = t
      BY <1>11 DEF HasOpen
    <2>2. Range(left) = {e} /\ Range(s.open) = {t}
      BY <1>6, <2>1 DEF Range
    <2>3. e.bar = t.bar /\ e.direction = t.direction /\ e.entry = t.entry /\ e.reason = "end"
      BY <1>6, <2>1
    <2> HIDE DEF e
    <2>4. Entered(X \cup {e}, n) = Entered(X \cup {t}, n)
      BY <2>3 DEF Entered
    <2>5. Settled(X \cup {e}, n) = Settled(X, n)
      BY <2>3 DEF Settled
    <2> QED BY <1>5, <1>8, <1>9, <2>2, <2>4, <2>5
  <1> QED BY <1>7, <1>10, <1>11 DEF X, R, s, m, l

\* The analytics engine does not look ahead.
LEMMA ReplayAhead ==
  ASSUME NEW bars, Candles(bars), NEW filter, NEW costs \in Charged, NEW n \in Lookback + Spare .. Len(bars)
  PROVE  /\ Opened(Replay(bars, filter, costs), n) = Opened(Replay(Upto(bars, n), filter, costs), n)
         /\ ClosedBy(Replay(bars, filter, costs), n) = ClosedBy(Replay(Upto(bars, n), filter, costs), n)
  <1> DEFINE p == Upto(bars, n)
             f == Replaying(bars, filter, costs, Len(bars) - Lookback)
             g == Replaying(p, filter, costs, n - Lookback)
  <1>1. /\ Lookback \in Nat \ {0} /\ Spare \in Nat /\ Len(bars) \in Nat /\ n \in 1 .. Len(bars) /\ n \in Lookback .. Len(bars)
        /\ Lookback + Spare <= n /\ Lookback + Spare <= Len(bars) /\ n - Lookback \in 0 .. n - Lookback
    BY BacktestAssumption, CandlesAre
  <1>2. Candles(p) /\ Len(p) = n
    BY <1>1, PrefixIs
  <1>3. g[n - Lookback] = f[n - Lookback]
    BY <1>1, SameReplay
  <1>4. /\ Entered(AllOf(f[Len(bars) - Lookback]), n) = Entered(AllOf(f[n - Lookback]), n)
        /\ Settled(Range(f[Len(bars) - Lookback].trades), n) = Settled(Range(f[n - Lookback].trades), n)
    BY <1>1, LaterReplays
  <1>5. /\ Opened(Replay(bars, filter, costs), n) = Entered(AllOf(f[Len(bars) - Lookback]), n)
        /\ ClosedBy(Replay(bars, filter, costs), n) = Settled(Range(f[Len(bars) - Lookback].trades), n)
    BY <1>1, ReplayEnds
  <1> HIDE DEF p
  <1>6. /\ Opened(Replay(p, filter, costs), n) = Entered(AllOf(g[n - Lookback]), n)
        /\ ClosedBy(Replay(p, filter, costs), n) = Settled(Range(g[n - Lookback].trades), n)
    <2>1. Lookback + Spare <= Len(p)
      BY <1>1, <1>2
    <2>2. LET s == Replaying(p, filter, costs, Len(p) - Lookback)[Len(p) - Lookback]
          IN  /\ Opened(Replay(p, filter, costs), n) = Entered(AllOf(s), n)
              /\ ClosedBy(Replay(p, filter, costs), n) = Settled(Range(s.trades), n)
      BY <1>2, <2>1, ReplayEnds
    <2> QED BY <1>2, <2>2
  <1> QED BY <1>3, <1>4, <1>5, <1>6 DEF p

LEMMA CostIs ==
  ASSUME NEW bar \in Candle, NEW reason
  PROVE  Cost(bar.now, reason) \in Int
  <1> DEFINE now == bar.now
  <1>1. now.off \in BOOLEAN /\ now.hour \in Int /\ now.noise \in Int /\ now.draw \in Int
    BY DEF Candle
  <1> HIDE DEF now
  <1>2. \A low, x, high \in Int : Clamp(low, x, high) \in Int
    BY DEF Clamp
  <1>3. Spread(now) \in Int
    <2> DEFINE hour == now.hour
               session == CASE now.off -> 30
                            [] ~now.off /\ (hour >= 22 \/ hour < 7) -> 25
                            [] ~now.off /\ hour \in 7 .. 11 -> 10
                            [] ~now.off /\ hour \in 12 .. 15 -> 9
                            [] ~now.off /\ hour \in 16 .. 20 -> 11
                            [] ~now.off /\ hour = 21 -> 30
    <2>1. session \in {30, 25, 10, 9, 11}
      BY <1>1
    <2>2. Spread(now) = Clamp(50, ((96 + now.noise) * session) \div 10, 500)
      BY DEF Spread
    <2> HIDE DEF session, hour
    <2>3. ((96 + now.noise) * session) \div 10 \in Int
      BY <1>1, <2>1
    <2> QED BY <1>2, <2>2, <2>3
  <1>4. Drawn(now, reason) \in Int
    <2>1. Scaled(reason, now.draw) \in Int
      BY <1>1 DEF Scaled
    <2>2. -50 \in Int /\ 300 \in Int
      OBVIOUS
    <2> QED BY <1>2, <2>1, <2>2 DEF Drawn
  <1>5. (Spread(now) \div 2 + Drawn(now, reason)) \div 10 \in Int
    BY <1>3, <1>4
  <1> QED BY <1>5 DEF Cost, now

\* The price of an order, for either direction and either end.
LEMMA SimulatedIs ==
  ASSUME NEW d \in {"BUY", "SELL"}, NEW price \in Int, NEW reason, NEW bar \in Candle
  PROVE  SimulateEntry(d, price, bar.now) \in Int /\ SimulateExit(d, price, reason, bar.now) \in Int
  <1> DEFINE c == Cost(bar.now, "entry")
             x == Cost(bar.now, reason)
  <1>1. c \in Int /\ x \in Int
    BY CostIs
  <1>2. Side(d) \in {1, -1}
    BY DEF Side
  <1>3. SimulateEntry(d, price, bar.now) = price + Side(d) * c /\ SimulateExit(d, price, reason, bar.now) = price - Side(d) * x
    BY DEF SimulateEntry, SimulateExit
  <1> HIDE DEF c, x
  <1>4. price + 1 * c \in Int /\ price + (-1) * c \in Int /\ price - 1 * x \in Int /\ price - (-1) * x \in Int
    BY <1>1
  <1> QED BY <1>2, <1>3, <1>4

Closable(price, reason, i) ==
  price \in Int /\ reason \in {"stop_loss", "take_profit", "end_of_backtest"} /\ i \in Int

LEMMA CloseIs ==
  ASSUME NEW t \in Trade, NEW bar \in Candle, NEW price, NEW reason, NEW i, Closable(price, reason, i),
         NEW e, e = ClosePosition(t, price, reason, i, bar.now)
  PROVE  /\ e \in Trade /\ e.at = i /\ e.reason = reason
         /\ e.direction = t.direction /\ e.entry = t.entry /\ e.bar = t.bar
         /\ e.pnl = Gain(t, SimulateExit(t.direction, price, reason, bar.now))
  <1> DEFINE out == SimulateExit(t.direction, price, reason, bar.now)
             pnl == Gain(t, out)
  <1>1. t.direction \in {"BUY", "SELL"} /\ price \in Int
    BY DEF Trade, Closable
  <1>2. out \in Int
    BY <1>1, SimulatedIs
  <1> HIDE DEF out
  <1>3. pnl \in Int
    BY <1>2, GainIs
  <1>4. e = Ended(t, i, reason, pnl)
    BY DEF ClosePosition, out
  <1> HIDE DEF pnl
  <1>5. Endable(i, reason, pnl)
    BY <1>3 DEF Endable, Closable
  <1>6. /\ e \in Trade /\ e.at = i /\ e.reason = reason /\ e.pnl = pnl
        /\ e.direction = t.direction /\ e.entry = t.entry /\ e.bar = t.bar
    BY <1>4, <1>5, EndedIs
  <1> QED BY <1>6 DEF pnl, out

\* What a position of the offline engine is: open, or closed by a bar at a level.
Position(t) ==
  /\ t \in Trade
  /\ \/ t.at = 0 /\ t.reason = "open"
     \/ t.at > 0 /\ t.reason \in {"stop_loss", "take_profit"}

Settles(t, n) == t.at <= n /\ t.reason \in {"stop_loss", "take_profit"}

\* What positions become after bar n: none that began or ended by it changes.
Keeps(t, u, n) ==
  /\ u.bar = t.bar /\ u.direction = t.direction /\ u.entry = t.entry
  /\ u = t \/ (~Settles(t, n) /\ ~Settles(u, n))
Follows(ps, qs, n) ==
  /\ Len(ps) <= Len(qs)
  /\ \A k \in 1 .. Len(ps) : Keeps(ps[k], qs[k], n)
  /\ \A k \in Len(ps) + 1 .. Len(qs) : ~(qs[k].bar <= n) /\ ~Settles(qs[k], n)

LEMMA FollowersKeep ==
  ASSUME NEW ps \in Seq(Trade), NEW qs \in Seq(Trade), NEW n, Follows(ps, qs, n)
  PROVE  Opened(qs, n) = Opened(ps, n) /\ ClosedBy(qs, n) = ClosedBy(ps, n)
  <1>1. /\ DOMAIN ps = 1 .. Len(ps) /\ DOMAIN qs = 1 .. Len(qs) /\ Len(ps) \in Nat /\ Len(qs) \in Nat
        /\ \A k \in 1 .. Len(qs) : k \in 1 .. Len(ps) \/ k \in Len(ps) + 1 .. Len(qs)
        /\ \A k \in 1 .. Len(ps) : k \in 1 .. Len(qs)
    <2>1. DOMAIN ps = 1 .. Len(ps) /\ DOMAIN qs = 1 .. Len(qs) /\ Len(ps) \in Nat /\ Len(qs) \in Nat
      BY LenProperties
    <2>2. Len(ps) <= Len(qs)
      BY DEF Follows
    <2> DEFINE a == Len(ps)
               b == Len(qs)
    <2> HIDE DEF a, b
    <2>3. a \in Nat /\ b \in Nat /\ a <= b
      BY <2>1, <2>2 DEF a, b
    <2>4. /\ \A k \in 1 .. b : k \in 1 .. a \/ k \in a + 1 .. b
          /\ \A k \in 1 .. a : k \in 1 .. b
      BY <2>3
    <2> QED BY <2>1, <2>4 DEF a, b
  <1>2. ASSUME NEW x PROVE x \in Opened(qs, n) <=> x \in Opened(ps, n)
    <2>1. ASSUME x \in Opened(qs, n) PROVE x \in Opened(ps, n)
      <3>1. PICK k \in DOMAIN qs : qs[k].bar <= n /\ x = <<qs[k].bar, qs[k].direction, qs[k].entry>>
        BY <2>1 DEF Opened, Range
      <3>2. k \in DOMAIN ps /\ Keeps(ps[k], qs[k], n)
        BY <1>1, <3>1 DEF Follows
      <3>3. ps[k].bar <= n /\ x = <<ps[k].bar, ps[k].direction, ps[k].entry>> /\ ps[k] \in Range(ps)
        BY <3>1, <3>2 DEF Keeps, Range
      <3> QED BY <3>3 DEF Opened
    <2>2. ASSUME x \in Opened(ps, n) PROVE x \in Opened(qs, n)
      <3>1. PICK k \in DOMAIN ps : ps[k].bar <= n /\ x = <<ps[k].bar, ps[k].direction, ps[k].entry>>
        BY <2>2 DEF Opened, Range
      <3>2. k \in DOMAIN qs /\ Keeps(ps[k], qs[k], n)
        BY <1>1, <3>1 DEF Follows
      <3>3. qs[k].bar <= n /\ x = <<qs[k].bar, qs[k].direction, qs[k].entry>> /\ qs[k] \in Range(qs)
        BY <3>1, <3>2 DEF Keeps, Range
      <3> QED BY <3>3 DEF Opened
    <2> QED BY <2>1, <2>2
  <1>3. ASSUME NEW x PROVE x \in ClosedBy(qs, n) <=> x \in ClosedBy(ps, n)
    <2>1. ASSUME x \in ClosedBy(qs, n) PROVE x \in ClosedBy(ps, n)
      <3>1. PICK k \in DOMAIN qs : x = qs[k] /\ Settles(qs[k], n)
        BY <2>1 DEF ClosedBy, Range, Settles
      <3>2. k \in DOMAIN ps /\ Keeps(ps[k], qs[k], n)
        BY <1>1, <3>1 DEF Follows
      <3> QED BY <3>1, <3>2 DEF Keeps, ClosedBy, Range, Settles
    <2>2. ASSUME x \in ClosedBy(ps, n) PROVE x \in ClosedBy(qs, n)
      <3>1. PICK k \in DOMAIN ps : x = ps[k] /\ Settles(ps[k], n)
        BY <2>2 DEF ClosedBy, Range, Settles
      <3>2. k \in DOMAIN qs /\ Keeps(ps[k], qs[k], n)
        BY <1>1, <3>1 DEF Follows
      <3> QED BY <3>1, <3>2 DEF Keeps, ClosedBy, Range, Settles
    <2> QED BY <2>1, <2>2
  <1>4. Opened(qs, n) = Opened(ps, n)
    BY <1>2
  <1>5. ClosedBy(qs, n) = ClosedBy(ps, n)
    BY <1>3
  <1> QED BY <1>4, <1>5

Positions(ps) == ps \in Seq(Trade) /\ \A k \in 1 .. Len(ps) : Position(ps[k])

LEMMA UpdateKeeps ==
  ASSUME NEW ps, Positions(ps), NEW bar \in Candle, NEW i \in Nat \ {0}, NEW us, us = UpdatePositions(ps, bar, i)
  PROVE  /\ Positions(us) /\ Len(us) = Len(ps)
         /\ \A n \in Int : n < i => \A k \in 1 .. Len(ps) : Keeps(ps[k], us[k], n)
  <1> DEFINE l == Len(ps)
  <1>1. l \in Nat /\ DOMAIN ps = 1 .. l /\ \A k \in 1 .. l : Position(ps[k])
    BY LenProperties DEF Positions
  <1> HIDE DEF l
  <1>2. DOMAIN us = 1 .. l /\ us = [k \in 1 .. l |-> us[k]]
    BY <1>1 DEF UpdatePositions
  <1>3. ASSUME NEW k \in 1 .. l
        PROVE  Position(us[k]) /\ \A n \in Int : n < i => Keeps(ps[k], us[k], n)
    <2> DEFINE p == ps[k]
               u == us[k]
               reason == Touched(p, bar)
               level == LevelOf(p, reason)
    <2>1. Position(p) /\ p \in Trade
      BY <1>1 DEF Position
    <2>2. u = IF ~IsOpen(p) \/ reason = "none" THEN p ELSE ClosePosition(p, level, reason, i, bar.now)
      BY <1>1 DEF UpdatePositions
    <2>3. reason \in {"none", "stop_loss", "take_profit"} /\ level \in Int
      BY <2>1, TouchedIs DEF LevelOf, Trade
    <2> HIDE DEF p, u, reason, level
    <2>4. CASE ~IsOpen(p) \/ reason = "none"
      BY <2>1, <2>2, <2>4 DEF Keeps, p, u
    <2>5. CASE IsOpen(p) /\ reason # "none"
      <3>1. u = ClosePosition(p, level, reason, i, bar.now) /\ Closable(level, reason, i)
        BY <2>2, <2>3, <2>5 DEF Closable
      <3>2. u \in Trade /\ u.at = i /\ u.reason = reason /\ u.direction = p.direction /\ u.entry = p.entry /\ u.bar = p.bar
        BY <2>1, <3>1, CloseIs
      <3>3. Position(u)
        BY <2>3, <2>5, <3>2 DEF Position
      <3>4. \A n : ~Settles(p, n)
        BY <2>1, <2>5 DEF Position, IsOpen, Settles
      <3>5. \A n \in Int : n < i => ~Settles(u, n)
        BY <3>2 DEF Settles
      <3> QED BY <3>2, <3>3, <3>4, <3>5 DEF Keeps, p, u
    <2> QED BY <2>4, <2>5
  <1>4. us \in Seq(Trade) /\ Len(us) = l
    <2>1. \A k \in 1 .. l : us[k] \in Trade
      BY <1>3 DEF Position
    <2>2. us \in [1 .. l -> Trade]
      BY <1>2, <2>1
    <2> QED BY <1>1, <2>2
  <1> QED BY <1>3, <1>4 DEF Positions, l

LEMMA OfflineStep ==
  ASSUME NEW bars, Candles(bars), NEW i \in 1 .. Len(bars), NEW ps, Positions(ps), NEW qs, qs = OfflineBar(bars, ps, i)
  PROVE  Positions(qs) /\ \A n \in Int : n < i => Follows(ps, qs, n)
  <1> DEFINE bar == bars[i]
             seen == Detect(Upto(bars, i - 1))
             us == UpdatePositions(ps, bar, i)
             d == seen.direction
             entry == SimulateEntry(d, bar.open, bar.now)
             fill == SimulateFill(d, bar.open, 0, i)
             o == [fill EXCEPT !.entry = entry]
             room == HasRoom(us)
  <1>1. qs = IF room /\ d \in {"BUY", "SELL"} /\ bar.fills THEN Append(us, o) ELSE us
    BY DEF OfflineBar, OfflineOn, EnterAtOpen, Wanted, OrderAt
  <1>2. bar \in Candle /\ bar.open \in Int /\ i \in Nat \ {0} /\ i \in Int
    BY CandlesAre
  <1>3. us = UpdatePositions(ps, bar, i)
    OBVIOUS
  <1> HIDE DEF us, bar
  <1>4. /\ Positions(us) /\ Len(us) = Len(ps)
        /\ \A n \in Int : n < i => \A k \in 1 .. Len(ps) : Keeps(ps[k], us[k], n)
    BY <1>2, <1>3, UpdateKeeps
  <1>5. ASSUME d \in {"BUY", "SELL"} PROVE Position(o) /\ o.bar = i /\ o \in Trade /\ o.reason = "open"
    <2> HIDE DEF d
    <2>1. entry \in Int
      BY <1>2, <1>5, SimulatedIs
    <2> DEFINE z == 0
    <2>2. Fillable(d, bar.open, z, i) /\ fill = SimulateFill(d, bar.open, z, i)
      BY <1>2, <1>5 DEF Fillable
    <2> HIDE DEF z, fill, entry
    <2>3. fill \in Trade /\ fill.bar = i /\ fill.at = 0 /\ fill.reason = "open"
      BY <2>2, FillIs
    <2>4. o \in Trade /\ o.bar = i /\ o.at = 0 /\ o.reason = "open"
      BY <2>1, <2>3 DEF Trade
    <2> QED BY <2>4 DEF Position
  <1> HIDE DEF o, d, room
  <1>6. Len(ps) \in Nat
    BY LenProperties DEF Positions
  <1>7. CASE qs = us
    <2>1. \A n \in Int : n < i => Follows(ps, us, n)
      BY <1>4, <1>6 DEF Follows
    <2> QED BY <1>4, <1>7, <2>1
  <1>8. CASE qs = Append(us, o) /\ d \in {"BUY", "SELL"}
    <2>1. Position(o) /\ o.bar = i /\ o \in Trade /\ o.reason = "open"
      BY <1>5, <1>8
    <2>2. us \in Seq(Trade) /\ \A k \in 1 .. Len(ps) : Position(us[k])
      BY <1>4 DEF Positions
    <2> DEFINE l == Len(ps)
    <2>3. /\ qs \in Seq(Trade) /\ Len(qs) = l + 1 /\ qs[l + 1] = o
          /\ \A k \in 1 .. l : qs[k] = us[k]
      <3>1. /\ Append(us, o) \in Seq(Trade) /\ Len(Append(us, o)) = Len(us) + 1
            /\ \A k \in 1 .. Len(us) : Append(us, o)[k] = us[k]
            /\ Append(us, o)[Len(us) + 1] = o
        BY <2>1, <2>2, AppendProperties
      <3> QED BY <1>4, <1>8, <3>1
    <2>4. l \in Nat
      BY <1>6
    <2>5. \A n \in Int : n < i => \A k \in 1 .. l : Keeps(ps[k], us[k], n)
      BY <1>4
    <2> HIDE DEF l
    <2>6. Positions(qs)
      <3>1. \A k \in 1 .. l + 1 : k \in 1 .. l \/ k = l + 1
        BY <2>4
      <3>2. \A k \in 1 .. l + 1 : Position(qs[k])
        BY <2>1, <2>2, <2>3, <3>1 DEF l
      <3> QED BY <2>3, <3>2 DEF Positions
    <2>7. ASSUME NEW n \in Int, n < i PROVE Follows(ps, qs, n)
      <3>1. ~(o.bar <= n) /\ ~Settles(o, n)
        BY <1>2, <2>1, <2>7 DEF Settles
      <3>2. \A k \in l + 1 .. l + 1 : k = l + 1
        BY <2>4
      <3>3. \A k \in 1 .. l : Keeps(ps[k], qs[k], n)
        BY <2>3, <2>5, <2>7
      <3>4. l <= l + 1
        BY <2>4
      <3> QED BY <2>3, <3>1, <3>2, <3>3, <3>4 DEF Follows, l
    <2> QED BY <2>6, <2>7
  <1> QED BY <1>1, <1>7, <1>8

\* Its positions are known after every bar, and no later bar changes what was
\* opened and closed by an earlier one.
LEMMA OffliningKnown ==
  ASSUME NEW bars, Candles(bars), NEW warmup \in Nat, NEW l \in Nat, warmup + l <= Len(bars)
  PROVE  LET f == Offlining(bars, warmup, l)
         IN  /\ \A k \in 0 .. l : Positions(f[k])
             /\ \A m \in 0 .. l : /\ Opened(f[l], warmup + m) = Opened(f[m], warmup + m)
                                  /\ ClosedBy(f[l], warmup + m) = ClosedBy(f[m], warmup + m)
  <1> DEFINE f == Offlining(bars, warmup, l)
             S == {k \in Nat : k <= l => Positions(f[k])}
  <1>1. Len(bars) \in Nat
    BY CandlesAre
  <1>2. f[0] = <<>> /\ \A k \in 1 .. l : f[k] = OfflineBar(bars, f[k - 1], warmup + k)
    BY OfflinesIs
  <1> HIDE DEF f
  <1>3. 0 \in S
    <2>1. <<>> \in Seq(Trade) /\ Len(<<>>) = 0 /\ \A k \in 1 .. 0 : FALSE
      BY EmptySeq
    <2>2. Positions(<<>>)
      BY <2>1 DEF Positions
    <2> QED BY <1>2, <2>2
  <1>4. ASSUME NEW k \in Nat, k + 1 <= l, Positions(f[k])
        PROVE  Positions(f[k + 1]) /\ \A n \in Int : n < warmup + (k + 1) => Follows(f[k], f[k + 1], n)
    <2>1. k + 1 \in 1 .. l /\ (k + 1) - 1 = k /\ warmup + (k + 1) \in 1 .. Len(bars)
      BY <1>1, <1>4
    <2>2. f[k + 1] = OfflineBar(bars, f[k], warmup + (k + 1))
      BY <1>2, <2>1
    <2> QED BY <1>4, <2>1, <2>2, OfflineStep
  <1>5. ASSUME NEW k \in Nat, k \in S PROVE k + 1 \in S
    <2> SUFFICES ASSUME k + 1 <= l PROVE Positions(f[k + 1])
      OBVIOUS
    <2>1. Positions(f[k])
      BY <1>5
    <2> QED BY <1>4, <2>1
  <1>6. \A k \in 0 .. l : Positions(f[k])
    <2>1. Nat \subseteq S
      <3> HIDE DEF S
      <3> QED BY <1>3, <1>5, EveryNumber
    <2> QED BY <2>1
  <1>7. ASSUME NEW m \in 0 .. l
        PROVE  /\ Opened(f[l], warmup + m) = Opened(f[m], warmup + m)
               /\ ClosedBy(f[l], warmup + m) = ClosedBy(f[m], warmup + m)
    <2> DEFINE n == warmup + m
               T == {k \in Nat : m + k <= l => /\ Opened(f[m + k], n) = Opened(f[m], n)
                                               /\ ClosedBy(f[m + k], n) = ClosedBy(f[m], n)}
    <2>1. n \in Int /\ m \in Nat /\ m + 0 = m
      OBVIOUS
    <2> HIDE DEF n
    <2>2. 0 \in T
      BY <2>1
    <2>3. ASSUME NEW k \in Nat, k \in T PROVE k + 1 \in T
      <3> SUFFICES ASSUME m + (k + 1) <= l
                   PROVE  /\ Opened(f[m + (k + 1)], n) = Opened(f[m], n)
                          /\ ClosedBy(f[m + (k + 1)], n) = ClosedBy(f[m], n)
        OBVIOUS
      <3> DEFINE j == m + k
      <3>1. m + (k + 1) = j + 1 /\ j \in Nat /\ j + 1 <= l /\ j \in 0 .. l /\ j + 1 \in 0 .. l /\ n < warmup + (j + 1)
        BY <2>1 DEF n
      <3>2. Opened(f[j], n) = Opened(f[m], n) /\ ClosedBy(f[j], n) = ClosedBy(f[m], n)
        BY <2>1, <2>3
      <3> HIDE DEF j
      <3>3. Positions(f[j]) /\ Positions(f[j + 1])
        BY <1>6, <3>1
      <3>4. Follows(f[j], f[j + 1], n)
        BY <1>4, <2>1, <3>1, <3>3
      <3>5. f[j] \in Seq(Trade) /\ f[j + 1] \in Seq(Trade)
        BY <3>3 DEF Positions
      <3>6. Opened(f[j + 1], n) = Opened(f[j], n) /\ ClosedBy(f[j + 1], n) = ClosedBy(f[j], n)
        BY <3>4, <3>5, FollowersKeep
      <3> QED BY <3>1, <3>2, <3>6
    <2>4. Nat \subseteq T
      <3> HIDE DEF T
      <3> QED BY <2>2, <2>3, EveryNumber
    <2>5. l - m \in Nat /\ m + (l - m) = l
      OBVIOUS
    <2>6. l - m \in T
      BY <2>4, <2>5
    <2>7. m + (l - m) <= l
      BY <2>5
    <2> QED BY <2>5, <2>6, <2>7 DEF n
  <1> QED BY <1>6, <1>7 DEF f

\* What is open at the end is closed there, and is neither an entry nor an exit
\* of any bar.
LEMMA OfflineEnds ==
  ASSUME NEW bars, Candles(bars), Lookback <= Len(bars)
  PROVE  LET f == Offlining(bars, Lookback, Len(bars) - Lookback)
         IN  /\ Offline(bars, Lookback) \in Seq(Trade)
             /\ \A n : /\ Opened(Offline(bars, Lookback), n) = Opened(f[Len(bars) - Lookback], n)
                       /\ ClosedBy(Offline(bars, Lookback), n) = ClosedBy(f[Len(bars) - Lookback], n)
  <1> DEFINE l == Len(bars)
             m == l - Lookback
             f == Offlining(bars, Lookback, m)
             end == f[m]
             R == Offline(bars, Lookback)
  <1>1. /\ l \in Nat \ {0} /\ l \in 1 .. Len(bars) /\ ~(l < Lookback) /\ Lookback \in Nat
        /\ m \in Nat /\ m \in 0 .. m /\ Lookback + m <= Len(bars) /\ l \in Int
    BY CandlesAre, BacktestAssumption
  <1>2. R = [k \in DOMAIN end |->
              IF IsOpen(end[k]) THEN ClosePosition(end[k], bars[l].close, "end_of_backtest", l, bars[l].now) ELSE end[k]]
    BY <1>1 DEF Offline
  <1>3. Positions(end)
    <2> HIDE DEF m, end
    <2>1. \A k \in 0 .. m : Positions(f[k])
      BY <1>1, OffliningKnown
    <2> QED BY <1>1, <2>1 DEF end
  <1>4. bars[l] \in Candle /\ bars[l].close \in Int
    BY <1>1, CandlesAre
  <1> DEFINE h == Len(end)
             bar == bars[l]
             price == bar.close
             reason == "end_of_backtest"
  <1> HIDE DEF end, R
  <1>5. h \in Nat /\ DOMAIN end = 1 .. h /\ end \in Seq(Trade) /\ \A k \in 1 .. h : Position(end[k])
    BY <1>3, LenProperties DEF Positions
  <1> HIDE DEF h
  <1>6. DOMAIN R = 1 .. h /\ R = [k \in 1 .. h |-> R[k]]
    BY <1>2, <1>5
  <1>7. ASSUME NEW k \in 1 .. h PROVE R[k] \in Trade /\ \A n : Keeps(end[k], R[k], n)
    <2> DEFINE p == end[k]
               u == R[k]
    <2>1. p \in Trade /\ Position(p)
      BY <1>5 DEF Position
    <2>2. u = IF IsOpen(p) THEN ClosePosition(p, price, reason, l, bar.now) ELSE p
      BY <1>2, <1>5
    <2>3. Closable(price, reason, l) /\ bar \in Candle
      BY <1>1, <1>4 DEF Closable
    <2>4. \A n : u.reason = reason => ~Settles(u, n)
      BY DEF Settles
    <2> HIDE DEF p, u, reason, price, bar
    <2>5. CASE ~IsOpen(p)
      BY <2>1, <2>2, <2>5 DEF Keeps, p, u
    <2>6. CASE IsOpen(p)
      <3>1. u = ClosePosition(p, price, reason, l, bar.now)
        BY <2>2, <2>6
      <3>2. u \in Trade /\ u.reason = reason /\ u.direction = p.direction /\ u.entry = p.entry /\ u.bar = p.bar
        BY <2>1, <2>3, <3>1, CloseIs
      <3>3. \A n : ~Settles(p, n)
        BY <2>1, <2>6 DEF Position, IsOpen, Settles
      <3> QED BY <2>4, <3>2, <3>3 DEF Keeps, p, u
    <2> QED BY <2>5, <2>6
  <1>8. R \in Seq(Trade) /\ Len(R) = h
    <2>1. R \in [1 .. h -> Trade]
      BY <1>6, <1>7
    <2> QED BY <1>5, <2>1
  <1>9. ASSUME NEW n PROVE Follows(end, R, n)
    <2>1. \A k \in h + 1 .. h : FALSE
      BY <1>5
    <2>2. h <= h
      BY <1>5
    <2> QED BY <1>7, <1>8, <2>1, <2>2 DEF Follows, h
  <1>10. \A n : Opened(R, n) = Opened(end, n) /\ ClosedBy(R, n) = ClosedBy(end, n)
    BY <1>5, <1>8, <1>9, FollowersKeep
  <1> QED BY <1>8, <1>10 DEF end, R

\* What a position of the offline engine is after bar i: where it was filled, and
\* that it waits, was shut by the first bar that reached one of its levels, or
\* was shut at the end.  Its levels are those of the fill at no cost.
FreeAt(bars, t) == SimulateFill(t.direction, bars[t.bar].open, 0, t.bar)
Placed(bars, t, i) ==
  /\ t \in Trade /\ t.bar \in 1 .. i
  /\ t.entry = SimulateEntry(t.direction, bars[t.bar].open, bars[t.bar].now)
Untouched(bars, t, i) == \A j \in t.bar + 1 .. i : Touched(FreeAt(bars, t), bars[j]) = "none"
PaidOut(bars, t, level) == t.pnl = Gain(t, SimulateExit(t.direction, level, t.reason, bars[t.at].now))
Waiting(bars, t, i) ==
  /\ Placed(bars, t, i) /\ t.at = 0 /\ Untouched(bars, t, i)
  /\ t.stop = FreeAt(bars, t).stop /\ t.target = FreeAt(bars, t).target
Shut(bars, t, i) ==
  /\ Placed(bars, t, i) /\ t.at \in t.bar + 1 .. i /\ Untouched(bars, t, t.at - 1)
  /\ t.reason \in {"stop_loss", "take_profit"} /\ t.reason = Touched(FreeAt(bars, t), bars[t.at])
  /\ PaidOut(bars, t, LevelOf(FreeAt(bars, t), t.reason))
Final(bars, t, i) ==
  /\ Placed(bars, t, i) /\ t.at = i /\ t.reason = "end_of_backtest" /\ Untouched(bars, t, i)
  /\ PaidOut(bars, t, bars[i].close)

\* The fill at no cost is a trade, and a waiting position is touched when it is.
LEMMA FreeIs ==
  ASSUME NEW bars, Candles(bars), NEW i \in 1 .. Len(bars), NEW t, Placed(bars, t, i)
  PROVE  /\ FreeAt(bars, t) \in Trade /\ FreeAt(bars, t).direction = t.direction
         /\ FreeAt(bars, t).entry = bars[t.bar].open /\ bars[t.bar] \in Candle /\ bars[t.bar].open \in Int
         /\ (t.stop = FreeAt(bars, t).stop /\ t.target = FreeAt(bars, t).target)
              => /\ \A bar : Touched(t, bar) = Touched(FreeAt(bars, t), bar)
                 /\ \A reason : LevelOf(t, reason) = LevelOf(FreeAt(bars, t), reason)
  <1>1. t \in Trade /\ t.bar \in 1 .. Len(bars) /\ t.bar \in Int /\ t.direction \in {"BUY", "SELL"}
    <2>1. Len(bars) \in Nat
      BY CandlesAre
    <2> QED BY <2>1 DEF Placed, Trade
  <1>2. bars[t.bar] \in Candle /\ bars[t.bar].open \in Int
    BY <1>1, CandlesAre
  <1> DEFINE d == t.direction
             price == bars[t.bar].open
             at == t.bar
             z == 0
             free == SimulateFill(d, price, z, at)
  <1>3. FreeAt(bars, t) = free
    BY DEF FreeAt
  <1>4. Fillable(d, price, z, at)
    BY <1>1, <1>2 DEF Fillable
  <1>5. z = 0 /\ d \in {"BUY", "SELL"} /\ price \in Int
    BY <1>1, <1>2
  <1> HIDE DEF z, price, at, d
  <1>6. free = SimulateFill(d, price, z, at)
    OBVIOUS
  <1> HIDE DEF free
  <1>7. /\ free \in Trade /\ free.direction = d
        /\ d = "BUY" => free.entry = price + z
        /\ d = "SELL" => free.entry = price - z
    BY <1>4, <1>6, FillIs
  <1>8. free.entry = price
    BY <1>5, <1>7
  <1>9. ASSUME t.stop = free.stop, t.target = free.target
        PROVE  /\ \A bar : Touched(t, bar) = Touched(free, bar)
               /\ \A reason : LevelOf(t, reason) = LevelOf(free, reason)
    <2>1. t.direction = free.direction
      BY <1>7 DEF d
    <2> QED BY <1>9, <2>1 DEF Touched, LevelOf
  <1> QED BY <1>2, <1>3, <1>7, <1>8, <1>9 DEF d, price

\* The order of a bar waits after it.
LEMMA OrderWaits ==
  ASSUME NEW bars, Candles(bars), NEW i \in 1 .. Len(bars), NEW seen, Wanted(bars[i], seen),
         NEW o, o = OrderAt(bars[i], seen, i)
  PROVE  o \in Trade /\ o.bar = i /\ o.at = 0 /\ o.reason = "open" /\ Waiting(bars, o, i)
  <1> DEFINE bar == bars[i]
             d == seen.direction
             entry == SimulateEntry(d, bar.open, bar.now)
             fill == SimulateFill(d, bar.open, 0, i)
  <1>1. bar \in Candle /\ bar.open \in Int /\ i \in Nat \ {0} /\ i \in Int
    BY CandlesAre
  <1>2. d \in {"BUY", "SELL"}
    BY DEF Wanted
  <1>3. o = [fill EXCEPT !.entry = entry]
    BY DEF OrderAt
  <1> HIDE DEF d
  <1>4. entry \in Int
    BY <1>1, <1>2, SimulatedIs
  <1> DEFINE z == 0
  <1>5. Fillable(d, bar.open, z, i) /\ fill = SimulateFill(d, bar.open, z, i)
    BY <1>1, <1>2 DEF Fillable
  <1> HIDE DEF z, fill, entry, bar
  <1>6. fill \in Trade /\ fill.bar = i /\ fill.at = 0 /\ fill.reason = "open" /\ fill.direction = d
    BY <1>5, FillIs
  <1>7. /\ o \in Trade /\ o.bar = i /\ o.at = 0 /\ o.reason = "open" /\ o.direction = d /\ o.entry = entry
        /\ o.stop = fill.stop /\ o.target = fill.target
    BY <1>3, <1>4, <1>6 DEF Trade
  <1>8. FreeAt(bars, o) = fill
    BY <1>7 DEF FreeAt, fill, bar
  <1>9. Placed(bars, o, i)
    BY <1>1, <1>7 DEF Placed, entry, bar
  <1>10. Untouched(bars, o, i)
    <2>1. \A j \in i + 1 .. i : FALSE
      BY <1>1
    <2> QED BY <1>7, <2>1 DEF Untouched
  <1> QED BY <1>7, <1>8, <1>9, <1>10 DEF Waiting

\* A bar leaves a position waiting or shuts it, and what is shut stays so.
LEMMA UpdateTraces ==
  ASSUME NEW bars, Candles(bars), NEW i \in 2 .. Len(bars), NEW t,
         Waiting(bars, t, i - 1) \/ Shut(bars, t, i - 1), NEW u,
         u = IF ~IsOpen(t) \/ Touched(t, bars[i]) = "none" THEN t
             ELSE ClosePosition(t, LevelOf(t, Touched(t, bars[i])), Touched(t, bars[i]), i, bars[i].now)
  PROVE  Waiting(bars, u, i) \/ Shut(bars, u, i)
  <1>1. /\ Len(bars) \in Nat /\ i \in Int /\ i \in 1 .. Len(bars) /\ i - 1 \in 1 .. Len(bars) /\ i - 1 < i
        /\ \A x \in 1 .. i - 1 : x \in 1 .. i
    BY CandlesAre
  <1>2. Placed(bars, t, i - 1) /\ t \in Trade /\ t.bar \in 1 .. i - 1 /\ t.bar \in Int
    BY <1>1 DEF Waiting, Shut, Placed
  <1>3. Placed(bars, t, i)
    BY <1>1, <1>2 DEF Placed
  <1>4. CASE Shut(bars, t, i - 1)
    <2>1. t.at \in t.bar + 1 .. i - 1 /\ t.at # 0 /\ t.at \in t.bar + 1 .. i
      BY <1>1, <1>2, <1>4 DEF Shut
    <2>2. u = t
      BY <2>1 DEF IsOpen
    <2> QED BY <1>3, <1>4, <2>1, <2>2 DEF Shut
  <1>5. CASE Waiting(bars, t, i - 1)
    <2> DEFINE bar == bars[i]
               reason == Touched(t, bar)
               free == FreeAt(bars, t)
               level == LevelOf(free, reason)
    <2>1. bar \in Candle
      BY <1>1, CandlesAre
    <2>2. /\ free \in Trade /\ free.direction = t.direction /\ reason = Touched(free, bar)
          /\ LevelOf(t, reason) = LevelOf(free, reason)
      BY <1>1, <1>2, <1>5, FreeIs DEF Waiting
    <2>3. IsOpen(t) /\ Untouched(bars, t, i - 1)
      BY <1>5 DEF Waiting, IsOpen
    <2>4. CASE reason = "none"
      <3>1. u = t
        BY <2>4
      <3>2. Untouched(bars, t, i)
        <4>1. \A j \in t.bar + 1 .. i : j \in t.bar + 1 .. i - 1 \/ j = i
          BY <1>1, <1>2
        <4>2. Touched(FreeAt(bars, t), bars[i]) = "none"
          BY <2>2, <2>4
        <4> QED BY <2>3, <4>1, <4>2 DEF Untouched
      <3> QED BY <1>3, <1>5, <3>1, <3>2 DEF Waiting
    <2>5. CASE reason # "none"
      <3>1. u = ClosePosition(t, level, reason, i, bar.now)
        BY <2>2, <2>3, <2>5
      <3>2. reason \in {"stop_loss", "take_profit"} /\ level \in Int
        BY <1>2, <2>1, <2>2, <2>5, TouchedIs DEF LevelOf, Trade
      <3>3. Closable(level, reason, i)
        BY <1>1, <3>2 DEF Closable
      <3> HIDE DEF level, reason, bar
      <3>4. /\ u \in Trade /\ u.at = i /\ u.reason = reason /\ u.direction = t.direction
            /\ u.entry = t.entry /\ u.bar = t.bar
            /\ u.pnl = Gain(t, SimulateExit(t.direction, level, reason, bar.now))
        BY <1>2, <2>1, <3>1, <3>3, CloseIs
      <3> HIDE DEF free
      <3>5. FreeAt(bars, u) = free
        BY <3>4 DEF FreeAt, free
      <3>6. Placed(bars, u, i)
        BY <1>3, <3>4 DEF Placed
      <3>7. Untouched(bars, u, i - 1)
        BY <2>3, <3>4, <3>5 DEF Untouched, free
      <3>8. PaidOut(bars, u, level)
        <4>1. \A x : Gain(u, x) = Gain(t, x)
          BY <3>4 DEF Gain
        <4> QED BY <3>4, <4>1 DEF PaidOut, bar
      <3>9. level = LevelOf(free, u.reason) /\ u.reason = Touched(free, bars[i])
        BY <2>2, <3>4 DEF level, bar
      <3>10. u.at \in u.bar + 1 .. i
        BY <1>1, <1>2, <3>4
      <3> QED BY <3>2, <3>4, <3>5, <3>6, <3>7, <3>8, <3>9, <3>10 DEF Shut
    <2> QED BY <2>4, <2>5
  <1> QED BY <1>4, <1>5

Traced(bars, t, i) == Waiting(bars, t, i) \/ Shut(bars, t, i)
AllTraced(bars, ps, i) == \A k \in 1 .. Len(ps) : Traced(bars, ps[k], i)

LEMMA OfflineTraces ==
  ASSUME NEW bars, Candles(bars), NEW i \in 2 .. Len(bars), NEW ps, Positions(ps), AllTraced(bars, ps, i - 1),
         NEW qs, qs = OfflineBar(bars, ps, i)
  PROVE  AllTraced(bars, qs, i)
  <1> DEFINE bar == bars[i]
             seen == Detect(Upto(bars, i - 1))
             us == UpdatePositions(ps, bar, i)
             o == OrderAt(bar, seen, i)
             l == Len(ps)
  <1>1. qs = IF HasRoom(us) /\ Wanted(bar, seen) THEN Append(us, o) ELSE us
    BY DEF OfflineBar, OfflineOn, EnterAtOpen
  <1>2. l \in Nat /\ DOMAIN ps = 1 .. l /\ i \in 1 .. Len(bars) /\ bar \in Candle /\ i \in Nat \ {0}
    <2>1. Len(bars) \in Nat
      BY CandlesAre
    <2>2. i \in 1 .. Len(bars) /\ i \in Nat \ {0}
      BY <2>1
    <2> QED BY <2>2, CandlesAre, LenProperties DEF Positions
  <1>3. Positions(us) /\ Len(us) = l
    BY <1>2, UpdateKeeps
  <1>4. ASSUME NEW k \in 1 .. l PROVE Traced(bars, us[k], i)
    <2> DEFINE t == ps[k]
               u == us[k]
    <2>1. u = IF ~IsOpen(t) \/ Touched(t, bars[i]) = "none" THEN t
              ELSE ClosePosition(t, LevelOf(t, Touched(t, bars[i])), Touched(t, bars[i]), i, bars[i].now)
      BY <1>2 DEF UpdatePositions
    <2>2. Waiting(bars, t, i - 1) \/ Shut(bars, t, i - 1)
      BY DEF AllTraced, Traced
    <2> HIDE DEF t, u
    <2>3. Waiting(bars, u, i) \/ Shut(bars, u, i)
      BY <2>1, <2>2, UpdateTraces
    <2> QED BY <2>3 DEF Traced, u
  <1>5. ASSUME Wanted(bar, seen) PROVE o \in Trade /\ Traced(bars, o, i)
    <2>1. o = OrderAt(bars[i], seen, i) /\ Wanted(bars[i], seen)
      BY <1>5
    <2> HIDE DEF o, seen
    <2> QED BY <1>2, <2>1, OrderWaits DEF Traced
  <1> HIDE DEF us, o, l, seen, bar
  <1>6. CASE qs = us
    BY <1>3, <1>4, <1>6 DEF AllTraced
  <1>7. CASE qs = Append(us, o) /\ Wanted(bar, seen)
    <2>1. o \in Trade /\ Traced(bars, o, i)
      BY <1>5, <1>7
    <2>2. us \in Seq(Trade)
      BY <1>3 DEF Positions
    <2>3. Len(qs) = l + 1 /\ qs[l + 1] = o /\ \A k \in 1 .. l : qs[k] = us[k]
      <3>1. /\ Len(Append(us, o)) = Len(us) + 1
            /\ \A k \in 1 .. Len(us) : Append(us, o)[k] = us[k]
            /\ Append(us, o)[Len(us) + 1] = o
        BY <2>1, <2>2, AppendProperties
      <3> QED BY <1>3, <1>7, <3>1
    <2>4. \A k \in 1 .. l + 1 : k \in 1 .. l \/ k = l + 1
      BY <1>2
    <2> QED BY <1>4, <2>1, <2>3, <2>4 DEF AllTraced
  <1> QED BY <1>1, <1>6, <1>7

LEMMA OffliningTraced ==
  ASSUME NEW bars, Candles(bars), NEW l \in Nat, Lookback + l <= Len(bars)
  PROVE  \A k \in 0 .. l : AllTraced(bars, Offlining(bars, Lookback, l)[k], Lookback + k)
  <1> DEFINE f == Offlining(bars, Lookback, l)
             S == {k \in Nat : k <= l => AllTraced(bars, f[k], Lookback + k)}
  <1>1. Len(bars) \in Nat /\ Lookback \in Nat \ {0} /\ Lookback \in Nat
    BY CandlesAre, BacktestAssumption
  <1>2. f[0] = <<>> /\ \A k \in 1 .. l : f[k] = OfflineBar(bars, f[k - 1], Lookback + k)
    BY OfflinesIs
  <1>3. \A k \in 0 .. l : Positions(f[k])
    BY <1>1, OffliningKnown
  <1> HIDE DEF f
  <1>4. 0 \in S
    <2>1. Len(<<>>) = 0 /\ \A k \in 1 .. 0 : FALSE
      BY EmptySeq
    <2>2. AllTraced(bars, <<>>, Lookback + 0)
      BY <2>1 DEF AllTraced
    <2> QED BY <1>2, <2>2
  <1>5. ASSUME NEW k \in Nat, k \in S PROVE k + 1 \in S
    <2> SUFFICES ASSUME k + 1 <= l PROVE AllTraced(bars, f[k + 1], Lookback + (k + 1))
      OBVIOUS
    <2> DEFINE i == Lookback + (k + 1)
    <2>1. /\ k + 1 \in 1 .. l /\ (k + 1) - 1 = k /\ k \in 0 .. l /\ i \in 2 .. Len(bars)
          /\ i - 1 = Lookback + k /\ k <= l
      BY <1>1
    <2>2. AllTraced(bars, f[k], i - 1) /\ Positions(f[k])
      BY <1>3, <1>5, <2>1
    <2>3. f[k + 1] = OfflineBar(bars, f[k], i)
      BY <1>2, <2>1
    <2> HIDE DEF i
    <2>4. AllTraced(bars, f[k + 1], i)
      BY <2>1, <2>2, <2>3, OfflineTraces
    <2> QED BY <2>4 DEF i
  <1>6. Nat \subseteq S
    <2> HIDE DEF S
    <2> QED BY <1>4, <1>5, EveryNumber
  <1> QED BY <1>6 DEF f

\* Every trade the offline engine reports was shut by a bar or at the end.
LEMMA OfflineTrades ==
  ASSUME NEW bars, Candles(bars), NEW k \in DOMAIN Offline(bars, Lookback)
  PROVE  \/ Shut(bars, Offline(bars, Lookback)[k], Len(bars))
         \/ Final(bars, Offline(bars, Lookback)[k], Len(bars))
  <1> DEFINE l == Len(bars)
             m == l - Lookback
             f == Offlining(bars, Lookback, m)
             end == f[m]
             R == Offline(bars, Lookback)
  <1>1. ~(l < Lookback)
    <2>1. ASSUME l < Lookback PROVE FALSE
      <3>1. Offline(bars, Lookback) = <<>>
        BY <2>1 DEF Offline
      <3>2. DOMAIN <<>> = {}
        OBVIOUS
      <3> QED BY <3>1, <3>2
    <2> QED BY <2>1
  <1>2. /\ l \in Nat \ {0} /\ l \in 1 .. Len(bars) /\ Lookback \in Nat
        /\ m \in Nat /\ m \in 0 .. m /\ Lookback + m <= Len(bars) /\ Lookback + m = l /\ l \in Int
    BY <1>1, CandlesAre, BacktestAssumption
  <1>3. R = [j \in DOMAIN end |->
              IF IsOpen(end[j]) THEN ClosePosition(end[j], bars[l].close, "end_of_backtest", l, bars[l].now) ELSE end[j]]
    BY <1>1 DEF Offline
  <1>4. Positions(end) /\ AllTraced(bars, end, l)
    <2> HIDE DEF m, end, l
    <2>1. \A j \in 0 .. m : Positions(f[j])
      BY <1>2, OffliningKnown
    <2>2. \A j \in 0 .. m : AllTraced(bars, f[j], Lookback + j)
      BY <1>2, OffliningTraced
    <2> QED BY <1>2, <2>1, <2>2 DEF end
  <1>5. bars[l] \in Candle /\ bars[l].close \in Int
    BY <1>2, CandlesAre
  <1> DEFINE bar == bars[l]
             price == bar.close
             reason == "end_of_backtest"
             t == end[k]
             u == R[k]
  <1> HIDE DEF end
  <1>6. k \in DOMAIN end /\ u = IF IsOpen(t) THEN ClosePosition(t, price, reason, l, bar.now) ELSE t
    BY <1>3
  <1>7. t \in Trade /\ Traced(bars, t, l)
    <2>1. DOMAIN end = 1 .. Len(end)
      BY <1>4, LenProperties DEF Positions
    <2> QED BY <1>4, <1>6, <2>1 DEF Positions, Position, AllTraced
  <1>8. Closable(price, reason, l) /\ bar \in Candle
    BY <1>2, <1>5 DEF Closable
  <1> HIDE DEF R, t, u, bar, price, reason, l
  <1>9. CASE Shut(bars, t, l)
    <2>1. t.at # 0
      <3>1. t.at \in t.bar + 1 .. l /\ t.bar \in 1 .. l
        BY <1>9 DEF Shut, Placed
      <3> QED BY <1>2, <3>1
    <2>2. u = t
      BY <1>6, <2>1 DEF IsOpen
    <2> QED BY <1>9, <2>2 DEF u, R, l
  <1>10. CASE Waiting(bars, t, l)
    <2>1. IsOpen(t) /\ Placed(bars, t, l) /\ Untouched(bars, t, l)
      BY <1>10 DEF Waiting, IsOpen
    <2>2. u = ClosePosition(t, price, reason, l, bar.now)
      BY <1>6, <2>1
    <2>3. /\ u \in Trade /\ u.at = l /\ u.reason = reason /\ u.direction = t.direction
          /\ u.entry = t.entry /\ u.bar = t.bar
          /\ u.pnl = Gain(t, SimulateExit(t.direction, price, reason, bar.now))
      BY <1>7, <1>8, <2>2, CloseIs
    <2>4. Placed(bars, u, l)
      BY <2>1, <2>3 DEF Placed
    <2>5. Untouched(bars, u, l)
      <3>1. FreeAt(bars, u) = FreeAt(bars, t)
        BY <2>3 DEF FreeAt
      <3> QED BY <2>1, <2>3, <3>1 DEF Untouched
    <2>6. PaidOut(bars, u, bars[l].close)
      <3>1. \A x : Gain(u, x) = Gain(t, x)
        BY <2>3 DEF Gain
      <3> QED BY <2>3, <3>1 DEF PaidOut, bar, price
    <2>7. u.reason = "end_of_backtest"
      BY <2>3 DEF reason
    <2>8. Final(bars, u, l)
      BY <2>3, <2>4, <2>5, <2>6, <2>7 DEF Final
    <2> QED BY <2>8 DEF u, R, l
  <1> QED BY <1>7, <1>9, <1>10 DEF Traced

\* A fill costs something unless its slippage was drawn in its favour, and brings
\* no more than 3 tenths of a pip when it was.
LEMMA CostBounds ==
  ASSUME NEW bar \in Candle, NEW reason
  PROVE  /\ Cost(bar.now, reason) \in Int /\ -3 <= Cost(bar.now, reason)
         /\ bar.now.draw >= 0 => 0 < Cost(bar.now, reason)
  <1> DEFINE now == bar.now
             spread == Spread(now)
             drawn == Drawn(now, reason)
  <1>1. now.draw \in Int
    BY DEF Candle
  <1>2. \A x \in Int : /\ Clamp(50, x, 500) \in 50 .. 500
                       /\ Clamp(-50, x, 300) \in -50 .. 300
                       /\ 0 <= x => 0 <= Clamp(-50, x, 300)
    BY DEF Clamp
  <1>3. spread \in 50 .. 500
    <2> DEFINE hour == now.hour
               session == CASE now.off -> 30
                            [] ~now.off /\ (hour >= 22 \/ hour < 7) -> 25
                            [] ~now.off /\ hour \in 7 .. 11 -> 10
                            [] ~now.off /\ hour \in 12 .. 15 -> 9
                            [] ~now.off /\ hour \in 16 .. 20 -> 11
                            [] ~now.off /\ hour = 21 -> 30
    <2>1. session \in {30, 25, 10, 9, 11} /\ now.noise \in Int
      <3>1. now.off \in BOOLEAN /\ now.hour \in Int /\ now.noise \in Int
        BY DEF Candle
      <3> HIDE DEF now
      <3> QED BY <3>1
    <2>2. spread = Clamp(50, ((96 + now.noise) * session) \div 10, 500)
      BY DEF Spread
    <2> HIDE DEF session, hour, now, spread
    <2>3. ((96 + now.noise) * session) \div 10 \in Int
      BY <2>1
    <2> QED BY <1>2, <2>2, <2>3
  <1>4. drawn \in -50 .. 300 /\ (now.draw >= 0 => 0 <= drawn)
    <2> DEFINE s == Scaled(reason, now.draw)
    <2>1. s \in Int /\ (now.draw >= 0 => 0 <= s)
      <3> DEFINE d == now.draw
      <3> HIDE DEF d
      <3>1. /\ (18 * d) \div 10 \in Int /\ (3 * d) \div 10 \in Int /\ d \in Int
            /\ d >= 0 => 0 <= (18 * d) \div 10 /\ 0 <= (3 * d) \div 10
        BY <1>1 DEF d
      <3>2. s \in {(18 * d) \div 10, (3 * d) \div 10, d}
        BY DEF Scaled, d
      <3> QED BY <3>1, <3>2 DEF d
    <2>2. drawn = Clamp(-50, s, 300)
      BY DEF Drawn
    <2> HIDE DEF s, now, drawn
    <2> QED BY <1>2, <2>1, <2>2
  <1>5. Cost(now, reason) = (spread \div 2 + drawn) \div 10
    BY DEF Cost
  <1> HIDE DEF spread, drawn
  <1>6. spread \div 2 \in Int /\ 25 <= spread \div 2
    BY <1>3
  <1> DEFINE half == spread \div 2
  <1> HIDE DEF half
  <1>7. (half + drawn) \div 10 \in Int /\ -3 <= (half + drawn) \div 10 /\ (0 <= drawn => 0 < (half + drawn) \div 10)
    BY <1>4, <1>6 DEF half
  <1> QED BY <1>4, <1>5, <1>7 DEF half, now

\* A position's result is that of the fill at no cost, less what its fills cost.
LEMMA PaidOutIs ==
  ASSUME NEW bars, Candles(bars), NEW t, Placed(bars, t, Len(bars)), t.at \in 1 .. Len(bars),
         NEW level \in Int, PaidOut(bars, t, level)
  PROVE  /\ Gain(FreeAt(bars, t), level) \in Int
         /\ t.pnl = Gain(FreeAt(bars, t), level)
                      - Cost(bars[t.bar].now, "entry") - Cost(bars[t.at].now, t.reason)
  <1> DEFINE n == Len(bars)
             free == FreeAt(bars, t)
             open == bars[t.bar].open
             d == t.direction
             c == Cost(bars[t.bar].now, "entry")
             x == Cost(bars[t.at].now, t.reason)
             out == SimulateExit(d, level, t.reason, bars[t.at].now)
  <1>1. t \in Trade /\ t.bar \in 1 .. n /\ d \in {"BUY", "SELL"} /\ t.entry = SimulateEntry(d, open, bars[t.bar].now)
    BY DEF Placed, Trade
  <1>2. bars[t.bar] \in Candle /\ bars[t.at] \in Candle /\ open \in Int
    BY <1>1, CandlesAre
  <1>3. c \in Int /\ x \in Int
    BY <1>2, CostIs
  <1>4. free \in Trade /\ free.direction = d /\ free.entry = open
    <2>1. n \in Nat /\ n \in 1 .. n
      <3>1. n \in Nat
        BY CandlesAre
      <3> QED BY <1>1, <3>1
    <2> QED BY <2>1, FreeIs
  <1>5. out \in Int
    BY <1>1, <1>2, SimulatedIs
  <1>6. t.entry = open + Side(d) * c /\ out = level - Side(d) * x /\ t.pnl = Gain(t, out)
    BY <1>1 DEF SimulateEntry, SimulateExit, PaidOut
  <1>7. /\ Gain(free, level) \in Int
        /\ d = "BUY" => Gain(free, level) = level - open
        /\ d = "SELL" => Gain(free, level) = open - level
    BY <1>4, GainIs
  <1>8. /\ d = "BUY" => Gain(t, out) = out - t.entry
        /\ d = "SELL" => Gain(t, out) = t.entry - out
    BY <1>1, <1>5, GainIs
  <1>9. (d = "BUY" => Side(d) = 1) /\ (d = "SELL" => Side(d) = -1)
    BY DEF Side
  <1> DEFINE g == Gain(free, level)
             got == Gain(t, out)
  <1> HIDE DEF free, open, d, c, x, out, n, g, got
  <1>10. ASSUME d = "BUY" PROVE g \in Int /\ t.pnl = g - c - x
    <2>1. t.entry = open + 1 * c /\ out = level - 1 * x
      BY <1>6, <1>9, <1>10
    <2>2. g \in Int /\ g = level - open /\ got = out - t.entry
      BY <1>7, <1>8, <1>10 DEF g, got
    <2>3. got = g - c - x
      BY <1>2, <1>3, <2>1, <2>2
    <2> QED BY <1>6, <2>2, <2>3 DEF got
  <1>11. ASSUME d = "SELL" PROVE g \in Int /\ t.pnl = g - c - x
    <2>1. t.entry = open + (-1) * c /\ out = level - (-1) * x
      BY <1>6, <1>9, <1>11
    <2>2. g \in Int /\ g = open - level /\ got = t.entry - out
      BY <1>7, <1>8, <1>11 DEF g, got
    <2>3. t.entry = open - c /\ out = level + x
      BY <1>2, <1>3, <2>1
    <2>4. got = g - c - x
      BY <1>2, <1>3, <2>2, <2>3
    <2> QED BY <1>6, <2>2, <2>4 DEF got
  <1>12. g \in Int /\ t.pnl = g - c - x
    BY <1>1, <1>10, <1>11
  <1> QED BY <1>12 DEF g, free, c, x

\* What a trade of the offline engine costs is what its two fills cost.
LEMMA FillsTaken ==
  ASSUME Candles(history), NEW t, Shut(history, t, Len(history)) \/ Final(history, t, Len(history))
  PROVE  LET entered == history[t.bar].now
             left == history[t.at].now
             taken == Costless(t, history[t.bar].open) - t.pnl
         IN  /\ taken = Cost(entered, "entry") + Cost(left, t.reason)
             /\ -6 <= taken
             /\ entered.draw >= 0 /\ left.draw >= 0 => 0 < taken
  <1> DEFINE n == Len(history)
             i == t.bar
             free == SimulateFill(t.direction, history[t.bar].open, 0, t.bar)
             hits == {j \in t.bar + 1 .. Len(history) : Touched(free, history[j]) # "none"}
             least == Min(hits)
             end == Last(history).close
             c == Cost(history[t.bar].now, "entry")
             x == Cost(history[t.at].now, t.reason)
             free0 == Costless(t, history[t.bar].open)
  <1>1. free0 = IF hits = {} THEN Gain(free, end) ELSE Gain(free, LevelOf(free, Touched(free, history[least])))
    BY DEF Costless
  <1>2. Placed(history, t, n) /\ t \in Trade /\ i \in 1 .. n /\ i \in Int /\ n \in Nat
    <2>1. n \in Nat
      BY CandlesAre
    <2> QED BY <2>1 DEF Shut, Final, Placed
  <1>3. end = history[n].close /\ end \in Int /\ n \in 1 .. n
    <2>1. n \in 1 .. n
      BY <1>2
    <2> QED BY <2>1, CandlesAre DEF Last
  <1>4. FreeAt(history, t) = free
    BY DEF FreeAt
  <1>5. free \in Trade
    BY <1>2, <1>3, <1>4, FreeIs
  <1>6. hits \in SUBSET Nat /\ \A j \in hits : j \in i + 1 .. n /\ Touched(free, history[j]) # "none"
    BY <1>2
  <1>7. hits # {} => least \in hits /\ \A j \in hits : least <= j
    BY <1>6, MinIs
  <1>8. \A j \in i + 1 .. n : Touched(free, history[j]) # "none" => j \in hits
    OBVIOUS
  <1> HIDE DEF free, hits, least, end, n, c, x, free0
  <1>9. t.at \in 1 .. n /\ PaidOut(history, t, IF t.reason = "end_of_backtest" THEN end ELSE LevelOf(free, t.reason))
        /\ free0 = Gain(free, IF t.reason = "end_of_backtest" THEN end ELSE LevelOf(free, t.reason))
    <2>1. CASE Shut(history, t, n)
      <3>1. /\ t.at \in i + 1 .. n /\ t.reason \in {"stop_loss", "take_profit"} /\ t.reason # "end_of_backtest"
            /\ t.reason = Touched(free, history[t.at])
            /\ \A j \in i + 1 .. t.at - 1 : Touched(free, history[j]) = "none"
            /\ PaidOut(history, t, LevelOf(free, t.reason))
        BY <1>4, <2>1 DEF Shut, Untouched
      <3>2. t.at \in hits /\ t.at \in 1 .. n /\ t.at \in Int
        BY <1>2, <1>8, <3>1
      <3>3. least \in hits /\ least <= t.at /\ hits # {}
        BY <1>7, <3>2
      <3>4. least = t.at
        <4>1. ASSUME least # t.at PROVE FALSE
          <5>1. least \in i + 1 .. t.at - 1 /\ Touched(free, history[least]) # "none"
            BY <1>2, <1>6, <3>2, <3>3, <4>1
          <5> QED BY <3>1, <5>1
        <4> QED BY <4>1
      <3> QED BY <1>1, <3>1, <3>2, <3>3, <3>4
    <2>2. CASE Final(history, t, n)
      <3>1. /\ t.at = n /\ t.reason = "end_of_backtest" /\ PaidOut(history, t, history[n].close)
            /\ \A j \in i + 1 .. n : Touched(free, history[j]) = "none"
        BY <1>4, <2>2 DEF Final, Untouched
      <3>2. hits = {}
        BY <1>6, <3>1
      <3> QED BY <1>1, <1>3, <3>1, <3>2
    <2> QED BY <2>1, <2>2 DEF n
  <1> DEFINE level == IF t.reason = "end_of_backtest" THEN end ELSE LevelOf(free, t.reason)
  <1>10. level \in Int
    BY <1>3, <1>5 DEF LevelOf, Trade
  <1>11. PaidOut(history, t, level) /\ free0 = Gain(free, level)
    BY <1>9
  <1> HIDE DEF level
  <1>12. free0 \in Int /\ t.pnl = free0 - c - x
    BY <1>2, <1>4, <1>9, <1>10, <1>11, PaidOutIs DEF n, c, x
  <1>13. /\ c \in Int /\ -3 <= c /\ (history[t.bar].now.draw >= 0 => 0 < c)
         /\ x \in Int /\ -3 <= x /\ (history[t.at].now.draw >= 0 => 0 < x)
    <2>1. history[t.bar] \in Candle /\ history[t.at] \in Candle
      BY <1>2, <1>9, CandlesAre DEF n
    <2> QED BY <2>1, CostBounds DEF c, x
  <1>14. free0 - t.pnl = c + x /\ -6 <= free0 - t.pnl /\ (0 < c /\ 0 < x => 0 < free0 - t.pnl)
    BY <1>12, <1>13
  <1> QED BY <1>13, <1>14 DEF free0, c, x

\* Where the engine's bar differs from the one its comment describes.
LEMMA SaidDiffers ==
  ASSUME NEW bar \in Candle, NEW i \in Nat \ {0}, NEW seen, NEW ps, Positions(ps),
         Wanted(bar, seen) => OrderAt(bar, seen, i) \in Trade /\ OrderAt(bar, seen, i).at = 0
  PROVE  (OfflineOn(bar, seen, ps, i) # UpdatePositions(EnterAtOpen(bar, seen, ps, i), bar, i))
           <=> /\ Wanted(bar, seen)
               /\ IF HasRoom(ps) THEN Touched(OrderAt(bar, seen, i), bar) # "none"
                  ELSE HasRoom(UpdatePositions(ps, bar, i))
  <1> DEFINE us == UpdatePositions(ps, bar, i)
             o == OrderAt(bar, seen, i)
             l == Len(ps)
             room == HasRoom(ps)
             late == HasRoom(us)
             wanted == Wanted(bar, seen)
             as == Append(us, o)
             vs == UpdatePositions(Append(ps, o), bar, i)
             Then(p) == IF ~IsOpen(p) \/ Touched(p, bar) = "none" THEN p
                        ELSE ClosePosition(p, LevelOf(p, Touched(p, bar)), Touched(p, bar), i, bar.now)
  <1>1. /\ OfflineOn(bar, seen, ps, i) = IF late /\ wanted THEN as ELSE us
        /\ UpdatePositions(EnterAtOpen(bar, seen, ps, i), bar, i) = IF room /\ wanted THEN vs ELSE us
    BY DEF OfflineOn, EnterAtOpen
  <1>2. l \in Nat /\ DOMAIN ps = 1 .. l /\ ps \in Seq(Trade)
    BY LenProperties DEF Positions
  <1>3. Positions(us) /\ Len(us) = l /\ us \in Seq(Trade)
    BY UpdateKeeps DEF Positions
  <1>4. \A k \in 1 .. l : us[k] = Then(ps[k])
    BY <1>2 DEF UpdatePositions
  <1>5. DOMAIN us = 1 .. l
    BY <1>3, LenProperties
  <1>6. room => late
    <2> DEFINE A == {k \in DOMAIN ps : IsOpen(ps[k])}
               B == {k \in DOMAIN us : IsOpen(us[k])}
    <2>1. B \subseteq A
      <3>1. \A k \in 1 .. l : IsOpen(us[k]) => IsOpen(ps[k])
        BY <1>4
      <3> QED BY <1>2, <1>5, <3>1
    <2>2. IsFiniteSet(A)
      <3>1. IsFiniteSet(1 .. l) /\ A \subseteq 1 .. l
        BY <1>2, FS_Interval
      <3> QED BY <3>1, FS_Subset
    <2>3. Cardinality(B) <= Cardinality(A) /\ IsFiniteSet(B)
      BY <2>1, <2>2, FS_Subset
    <2>4. Cardinality(A) \in Nat /\ Cardinality(B) \in Nat /\ MaxOpen \in Nat
      BY <2>2, <2>3, FS_CardinalityType, BacktestAssumption
    <2>5. (room <=> Cardinality(A) < MaxOpen) /\ (late <=> Cardinality(B) < MaxOpen)
      BY DEF HasRoom
    <2> HIDE DEF A, B
    <2> QED BY <2>3, <2>4, <2>5
  <1>7. ASSUME wanted
        PROVE  as # us /\ (as # vs <=> Touched(o, bar) # "none")
    <2>1. o \in Trade /\ o.at = 0 /\ IsOpen(o)
      BY <1>7 DEF IsOpen
    <2> HIDE DEF o, us
    <2>2. /\ as \in Seq(Trade) /\ Len(as) = l + 1 /\ as[l + 1] = o
          /\ \A k \in 1 .. l : as[k] = us[k]
      BY <1>3, <2>1, AppendProperties
    <2>3. /\ Len(Append(ps, o)) = l + 1 /\ Append(ps, o)[l + 1] = o /\ DOMAIN Append(ps, o) = 1 .. l + 1
          /\ \A k \in 1 .. l : Append(ps, o)[k] = ps[k]
      <3>1. /\ Append(ps, o) \in Seq(Trade) /\ Len(Append(ps, o)) = l + 1 /\ Append(ps, o)[l + 1] = o
            /\ \A k \in 1 .. l : Append(ps, o)[k] = ps[k]
        BY <1>2, <2>1, AppendProperties
      <3>2. DOMAIN Append(ps, o) = 1 .. l + 1
        BY <3>1, LenProperties
      <3> QED BY <3>1, <3>2
    <2>4. vs = [k \in 1 .. l + 1 |-> Then(Append(ps, o)[k])]
      BY <2>3 DEF UpdatePositions
    <2> HIDE DEF as, vs, Then, l
    <2>5. as # us
      <3>1. Len(as) # Len(us)
        BY <1>2, <1>3, <2>2
      <3> QED BY <3>1
    <2>6. vs[l + 1] = Then(o) /\ \A k \in 1 .. l : vs[k] = us[k]
      <3>1. \A k \in 1 .. l : k \in 1 .. l + 1 /\ l + 1 \in 1 .. l + 1
        BY <1>2
      <3>2. l + 1 \in 1 .. l + 1
        BY <1>2
      <3> QED BY <1>4, <2>3, <2>4, <3>1, <3>2
    <2>7. CASE Touched(o, bar) = "none"
      <3>1. vs[l + 1] = o
        BY <2>6, <2>7 DEF Then
      <3>2. \A k \in 1 .. l + 1 : k \in 1 .. l \/ k = l + 1
        BY <1>2
      <3>3. \A k \in 1 .. l + 1 : vs[k] = as[k]
        BY <2>2, <2>6, <3>1, <3>2
      <3>4. as \in [1 .. l + 1 -> Trade]
        BY <2>2, LenProperties
      <3>5. vs = [k \in 1 .. l + 1 |-> vs[k]]
        BY <2>4
      <3>6. vs = as
        BY <3>3, <3>4, <3>5
      <3> QED BY <2>5, <2>7, <3>6
    <2>8. CASE Touched(o, bar) # "none"
      <3> DEFINE reason == Touched(o, bar)
                 level == LevelOf(o, reason)
                 e == ClosePosition(o, level, reason, i, bar.now)
      <3>1. reason \in {"stop_loss", "take_profit"} /\ level \in Int
        BY <2>1, <2>8, TouchedIs DEF LevelOf, Trade
      <3>2. Then(o) = e
        BY <2>1, <2>8 DEF Then
      <3>3. Closable(level, reason, i)
        BY <3>1 DEF Closable
      <3> HIDE DEF reason, level
      <3>4. e.at = i
        BY <2>1, <3>3, CloseIs
      <3>5. vs[l + 1] # as[l + 1]
        BY <2>1, <2>2, <2>6, <3>2, <3>4
      <3> QED BY <2>5, <2>8, <3>5
    <2> QED BY <2>7, <2>8
  <1> HIDE DEF us, o, room, late, wanted, as, vs
  <1>8. ((IF late /\ wanted THEN as ELSE us) # (IF room /\ wanted THEN vs ELSE us))
          <=> wanted /\ IF room THEN Touched(o, bar) # "none" ELSE late
    <2>1. CASE ~wanted
      BY <2>1
    <2>2. CASE wanted /\ room
      BY <1>6, <1>7, <2>2
    <2>3. CASE wanted /\ ~room
      BY <1>7, <2>3
    <2> QED BY <2>1, <2>2, <2>3
  <1> QED BY <1>1, <1>8 DEF us, o, room, late, wanted, as, vs

LEMMA SaidOrNot ==
  ASSUME Candles(history), Ran PROVE EntersAsSaid
  <1> DEFINE l == Len(history) - Lookback
             held == Offlining(history, Lookback, l)
  <1> SUFFICES ASSUME NEW k \in 1 .. l
               PROVE  LET i == Lookback + k
                          bar == history[i]
                          seen == Detect(Upto(history, i - 1))
                          before == held[k - 1]
                          asSaid == UpdatePositions(EnterAtOpen(bar, seen, before, i), bar, i)
                      IN  held[k] # asSaid
                            <=> /\ Wanted(bar, seen)
                                /\ IF HasRoom(before) THEN Touched(OrderAt(bar, seen, i), bar) # "none"
                                   ELSE HasRoom(UpdatePositions(before, bar, i))
    BY DEF EntersAsSaid
  <1> DEFINE i == Lookback + k
             bar == history[i]
             seen == Detect(Upto(history, i - 1))
             before == held[k - 1]
  <1>1. /\ Len(history) \in Nat /\ Lookback \in Nat /\ l \in Nat /\ k - 1 \in 0 .. l
        /\ i \in 1 .. Len(history) /\ i \in Nat \ {0} /\ Lookback + l <= Len(history)
    BY CandlesAre, BacktestAssumption
  <1>2. bar \in Candle
    BY <1>1, CandlesAre
  <1>3. held[k] = OfflineBar(history, before, i)
    <2> HIDE DEF l
    <2> QED BY <1>1, OfflinesIs
  <1>4. held[k] = OfflineOn(bar, seen, before, i)
    BY <1>3 DEF OfflineBar
  <1>5. Positions(before)
    <2> HIDE DEF l
    <2>1. \A j \in 0 .. l : Positions(held[j])
      BY <1>1, OffliningKnown
    <2> QED BY <1>1, <2>1
  <1>6. Wanted(bar, seen) => OrderAt(bar, seen, i) \in Trade /\ OrderAt(bar, seen, i).at = 0
    BY <1>1, OrderWaits
  <1> HIDE DEF held, bar, seen, before, i, l
  <1>7. (OfflineOn(bar, seen, before, i) # UpdatePositions(EnterAtOpen(bar, seen, before, i), bar, i))
           <=> /\ Wanted(bar, seen)
               /\ IF HasRoom(before) THEN Touched(OrderAt(bar, seen, i), bar) # "none"
                  ELSE HasRoom(UpdatePositions(before, bar, i))
    BY <1>1, <1>2, <1>5, <1>6, SaidDiffers
  <1> QED BY <1>4, <1>7 DEF held, bar, seen, before, i, l

LEMMA SameOffline ==
  ASSUME NEW bars, Candles(bars), NEW n \in Lookback .. Len(bars)
  PROVE  \A k \in 0 .. n - Lookback :
           Offlining(Upto(bars, n), Lookback, n - Lookback)[k]
             = Offlining(bars, Lookback, Len(bars) - Lookback)[k]
  <1> DEFINE p == Upto(bars, n)
             m == n - Lookback
             l == Len(bars) - Lookback
             f == Offlining(p, Lookback, m)
             g == Offlining(bars, Lookback, l)
             S == {k \in Nat : k <= m => f[k] = g[k]}
  <1>1. Lookback \in Nat \ {0} /\ Len(bars) \in Nat /\ m \in Nat /\ l \in Nat /\ m <= l /\ n \in 1 .. Len(bars)
    BY BacktestAssumption, CandlesAre
  <1>2. \A i \in 1 .. n : p[i] = bars[i] /\ Upto(p, i) = Upto(bars, i)
    BY <1>1, PrefixIs
  <1> HIDE DEF p
  <1>3. f[0] = <<>> /\ \A k \in 1 .. m : f[k] = OfflineBar(p, f[k - 1], Lookback + k)
    BY <1>1, OfflinesIs
  <1>4. g[0] = <<>> /\ \A k \in 1 .. l : g[k] = OfflineBar(bars, g[k - 1], Lookback + k)
    BY <1>1, OfflinesIs
  <1>5. ASSUME NEW s, NEW i \in 2 .. n PROVE OfflineBar(p, s, i) = OfflineBar(bars, s, i)
    <2>1. i \in 1 .. n /\ i - 1 \in 1 .. n
      BY <1>1
    <2>2. p[i] = bars[i] /\ Upto(p, i - 1) = Upto(bars, i - 1)
      BY <1>2, <2>1
    <2>3. Detect(Upto(p, i - 1)) = Detect(Upto(bars, i - 1))
      BY <2>2
    <2> QED BY <2>2, <2>3 DEF OfflineBar
  <1> HIDE DEF f, g
  <1>6. 0 \in S
    BY <1>3, <1>4
  <1>7. ASSUME NEW k \in Nat, k \in S PROVE k + 1 \in S
    <2> SUFFICES ASSUME k + 1 <= m PROVE f[k + 1] = g[k + 1]
      OBVIOUS
    <2>1. f[k] = g[k]
      BY <1>1, <1>7
    <2>2. k + 1 \in 1 .. m /\ k + 1 \in 1 .. l /\ (k + 1) - 1 = k /\ Lookback + (k + 1) \in 2 .. n
      BY <1>1
    <2> HIDE DEF m, l
    <2>3. /\ f[k + 1] = OfflineBar(p, f[k], Lookback + (k + 1))
          /\ g[k + 1] = OfflineBar(bars, g[k], Lookback + (k + 1))
      BY <1>3, <1>4, <2>2
    <2> QED BY <1>5, <2>1, <2>2, <2>3
  <1>8. Nat \subseteq S
    <2> HIDE DEF S
    <2> QED BY <1>6, <1>7, EveryNumber
  <1> QED BY <1>1, <1>8 DEF f, g, p

\* Nor does the offline engine look ahead.
LEMMA OfflineAhead ==
  ASSUME NEW bars, Candles(bars), NEW n \in Lookback .. Len(bars)
  PROVE  /\ Opened(Offline(bars, Lookback), n) = Opened(Offline(Upto(bars, n), Lookback), n)
         /\ ClosedBy(Offline(bars, Lookback), n) = ClosedBy(Offline(Upto(bars, n), Lookback), n)
  <1> DEFINE p == Upto(bars, n)
             m == n - Lookback
             l == Len(bars) - Lookback
             f == Offlining(bars, Lookback, l)
             g == Offlining(p, Lookback, m)
  <1>1. /\ Lookback \in Nat \ {0} /\ Lookback \in Nat /\ Len(bars) \in Nat /\ n \in 1 .. Len(bars) /\ l \in Nat /\ m \in 0 .. l /\ m \in 0 .. m
        /\ Lookback <= Len(bars) /\ Lookback <= n /\ Lookback + l <= Len(bars) /\ Lookback + m = n
    BY BacktestAssumption, CandlesAre
  <1>2. Candles(p) /\ Len(p) = n
    BY <1>1, PrefixIs
  <1>3. g[m] = f[m]
    BY <1>1, SameOffline
  <1>4. Opened(f[l], n) = Opened(f[m], n) /\ ClosedBy(f[l], n) = ClosedBy(f[m], n)
    <2> HIDE DEF l, m
    <2>1. \A k \in 0 .. l : /\ Opened(f[l], Lookback + k) = Opened(f[k], Lookback + k)
                            /\ ClosedBy(f[l], Lookback + k) = ClosedBy(f[k], Lookback + k)
      BY <1>1, OffliningKnown
    <2> QED BY <1>1, <2>1
  <1>5. /\ Opened(Offline(bars, Lookback), n) = Opened(f[l], n)
        /\ ClosedBy(Offline(bars, Lookback), n) = ClosedBy(f[l], n)
    BY <1>1, OfflineEnds
  <1> HIDE DEF p
  <1>6. /\ Opened(Offline(p, Lookback), n) = Opened(g[m], n)
        /\ ClosedBy(Offline(p, Lookback), n) = ClosedBy(g[m], n)
    <2>1. Lookback <= Len(p)
      BY <1>1, <1>2
    <2>2. LET s == Offlining(p, Lookback, Len(p) - Lookback)[Len(p) - Lookback]
          IN  /\ Opened(Offline(p, Lookback), n) = Opened(s, n)
              /\ ClosedBy(Offline(p, Lookback), n) = ClosedBy(s, n)
      BY <1>2, <2>1, OfflineEnds
    <2> QED BY <1>2, <2>2
  <1> QED BY <1>3, <1>4, <1>5, <1>6 DEF p

\* The trades of every engine, and what it opened and closed by any bar.
LEMMA EngineIs ==
  ASSUME NEW bars, Candles(bars), NEW name \in Engines
  PROVE  /\ Engine(bars, name) \in Seq(Trade)
         /\ \A n \in Lookback + Spare .. Len(bars) :
              /\ Opened(Engine(bars, name), n) = Opened(Engine(Upto(bars, n), name), n)
              /\ ClosedBy(Engine(bars, name), n) = ClosedBy(Engine(Upto(bars, n), name), n)
  <1>1. Lookback \in Nat /\ Spare \in Nat /\ Len(bars) \in Nat
    BY BacktestAssumption, CandlesAre
  <1>2. CASE name = "run"
    <2>1. \A b : Engine(b, name) = Replay(b, "all", "realistic")
      BY <1>2 DEF Engine
    <2>2. "realistic" \in Charged
      BY DEF Charged
    <2> DEFINE all == "all"
               costs == "realistic"
    <2> HIDE DEF all, costs
    <2> QED BY <2>1, <2>2, ReplayResult, ReplayAhead DEF costs
  <1>3. CASE name = "fast"
    <2>1. \A b : Engine(b, name) = Replay(b, "all", "fixed")
      BY <1>3 DEF Engine
    <2>2. "fixed" \in Charged
      BY DEF Charged
    <2> QED BY <2>1, <2>2, ReplayResult, ReplayAhead
  <1>4. CASE name = "offline"
    <2>1. \A b : Engine(b, name) = Offline(b, Lookback)
      BY <1>4 DEF Engine
    <2>2. Offline(bars, Lookback) \in Seq(Trade)
      <3>1. CASE Lookback <= Len(bars)
        BY <3>1, OfflineEnds
      <3>2. CASE ~(Lookback <= Len(bars))
        <4>1. Offline(bars, Lookback) = <<>>
          BY <1>1, <3>2 DEF Offline
        <4> QED BY <4>1, EmptySeq
      <3> QED BY <3>1, <3>2
    <2>3. \A n \in Lookback + Spare .. Len(bars) : n \in Lookback .. Len(bars)
      BY <1>1
    <2> QED BY <2>1, <2>2, <2>3, OfflineAhead
  <1> QED BY <1>2, <1>3, <1>4 DEF Engines

\* No fold is trained on a bar its signals are computed from: those reach no
\* further back than the purge.
LEMMA SplitsApart ==
  ASSUME NEW total \in Nat, NEW split \in Splits(total), NEW i \in split.test
  PROVE  split.train \cap (i - Lookback .. i) = {}
  <1> DEFINE size == total \div Folds.number
             fold(k) == (k - 1) * size + 1 .. (IF k < Folds.number THEN k * size ELSE total)
             apart(j, test) == /\ Folds.purge > 0 => j < Min(test) - Folds.purge \/ j > Max(test) + Folds.purge
                               /\ j \notin Max(test) + 1 .. Max(test) + Folds.embargo
  <1>1. /\ Lookback \in Nat \ {0} /\ Folds.number \in Nat \ {0} /\ Folds.purge \in Nat /\ Folds.embargo \in Nat
        /\ Lookback <= Folds.purge
    BY BacktestAssumption
  <1>2. PICK k \in 1 .. Folds.number :
          split = [test |-> fold(k), train |-> {j \in (1 .. total) \ fold(k) : apart(j, fold(k))}]
    BY DEF Splits
  <1> DEFINE a == (k - 1) * size + 1
             b == IF k < Folds.number THEN k * size ELSE total
  <1>3. a \in Int /\ b \in Int
    <2>1. size \in Int
      BY <1>1
    <2>2. k \in Int /\ k - 1 \in Int
      BY <1>1
    <2> HIDE DEF size
    <2> QED BY <2>1, <2>2
  <1>4. split.test = a .. b /\ split.train = {j \in (1 .. total) \ (a .. b) : apart(j, a .. b)}
    BY <1>2
  <1> HIDE DEF a, b
  <1>5. i \in a .. b /\ a <= b
    BY <1>3, <1>4
  <1>6. Max(a .. b) = b
    <2> DEFINE T == a .. b
    <2>1. T \in SUBSET Int /\ b \in T /\ \A x \in T : x <= b
      BY <1>3, <1>5
    <2> HIDE DEF T
    <2>2. Max(T) = b
      BY <2>1, MaxIs
    <2> QED BY <2>2 DEF T
  <1>7. Min(a .. b) = a
    <2>1. a \in a .. b /\ \A x \in a .. b : a <= x
      BY <1>3, <1>5
    <2>2. \A x \in a .. b : (\A y \in a .. b : x <= y) => x = a
      BY <1>3, <2>1
    <2> QED BY <2>1, <2>2 DEF Min
  <1>8. ASSUME NEW j \in split.train, j \in i - Lookback .. i PROVE FALSE
    <2>1. apart(j, a .. b) /\ j \in 1 .. total
      BY <1>4
    <2>2. j < a - Folds.purge \/ j > b + Folds.purge
      BY <1>1, <1>6, <1>7, <2>1
    <2> QED BY <1>1, <1>3, <1>5, <1>8, <2>1, <2>2
  <1> QED BY <1>8

\* What the report of some candles is.
ReportOf(h) ==
  [trades |-> [name \in Engines |-> Engine(h, name)],
   drawdown |-> [name \in Engines |-> Metrics(Engine(h, name)).drawdown],
   compared |-> CompareStrategies(h, {"trend_following", "breakout"}),
   windows |-> WalkForward(h, "all", Len(h) - 1, 1),
   splits |-> Splits(Len(h))]

BacktestInv == Candles(history) /\ (report = <<>> \/ report = ReportOf(history))

\* Whatever the candles, the strategy and the costs: no engine decides on a bar
\* that has not closed and no fold is trained on what its signals read; the
\* offline engine's bar is the one its comment describes but on the bars named
\* in EntersAsSaid; a trade brings no more than it would at no cost, in the
\* offline engine less exactly what its fills cost; and the drawdown reported is
\* the deepest fall of the balance, the harness's but for a fall from the start.
THEOREM ReportsAreHonest == BacktestSpec => []ReportsHonest
  <1>1. BacktestInit => BacktestInv
    BY BacktestAssumption DEF BacktestInit, BacktestStart, BacktestInv, Candles
  <1>2. BacktestInv /\ [BacktestNext]_backtestVars => BacktestInv'
    <2> SUFFICES ASSUME BacktestInv, [BacktestNext]_backtestVars PROVE BacktestInv'
      OBVIOUS
    <2>1. CASE RunBacktest
      <3>1. history' = history /\ report' = ReportOf(history)
        BY <2>1 DEF RunBacktest, ReportOf
      <3>2. Candles(history)' /\ ReportOf(history)' = ReportOf(history')
        BY <3>1 DEF BacktestInv, Candles
      <3> QED BY <3>1, <3>2 DEF BacktestInv
    <2>2. CASE UNCHANGED backtestVars
      <3>1. history' = history /\ report' = report
        BY <2>2 DEF backtestVars
      <3> QED BY <3>1 DEF BacktestInv, Candles
    <2> QED BY <2>1, <2>2 DEF BacktestNext
  <1>3. BacktestInv => ReportsHonest
    <2> SUFFICES ASSUME BacktestInv, Ran PROVE ReportsHonest
      BY DEF ReportsHonest, NoLookAhead, EntersAsSaid, CostsOnlyHurt, FillsCost, DrawdownExact
    <2>1. Candles(history) /\ report = ReportOf(history)
      BY DEF BacktestInv, Ran
    <2>2. /\ \A name \in Engines : report.trades[name] = Engine(history, name)
          /\ \A name \in Engines : report.drawdown[name] = Drawdown(Pnls(report.trades[name]))
          /\ report.splits = Splits(Len(history))
      <3>1. /\ report.trades = [name \in Engines |-> Engine(history, name)]
            /\ report.drawdown = [name \in Engines |-> Metrics(Engine(history, name)).drawdown]
            /\ report.splits = Splits(Len(history))
        BY <2>1 DEF ReportOf
      <3>2. \A trades : Metrics(trades).drawdown = Drawdown(Pnls(trades))
        BY DEF Metrics
      <3> QED BY <3>1, <3>2
    <2>3. Len(history) \in Nat /\ Lookback \in Nat /\ Spare \in Nat
      BY <2>1, CandlesAre, BacktestAssumption
    <2>4. NoLookAhead
      <3>1. ASSUME NEW name \in Engines, NEW n \in Lookback + Spare .. Len(history) - 1
            PROVE  /\ Opened(report.trades[name], n) = Opened(Engine(Upto(history, n), name), n)
                   /\ ClosedBy(report.trades[name], n) = ClosedBy(Engine(Upto(history, n), name), n)
        <4>1. n \in Lookback + Spare .. Len(history)
          BY <2>3
        <4> QED BY <2>1, <2>2, <4>1, EngineIs
      <3>2. \A split \in report.splits : \A i \in split.test : split.train \cap (i - Lookback .. i) = {}
        BY <2>2, <2>3, SplitsApart
      <3> QED BY <3>1, <3>2 DEF NoLookAhead
    <2>5. CostsOnlyHurt
      <3>1. ASSUME NEW name \in {"run", "fast"}, NEW k \in DOMAIN report.trades[name]
            PROVE  report.trades[name][k].pnl
                     <= Costless(report.trades[name][k], history[report.trades[name][k].bar].close)
        <4> DEFINE costs == IF name = "run" THEN "realistic" ELSE "fixed"
        <4>1. name \in Engines /\ costs \in Charged
          BY DEF Engines, Charged
        <4>2. report.trades[name] = Replay(history, "all", costs)
          BY <2>2, <4>1 DEF Engine
        <4> DEFINE all == "all"
        <4>3. report.trades[name] = Replay(history, all, costs)
          BY <4>2
        <4> HIDE DEF costs, all
        <4>4. \/ Stopped(history, costs, report.trades[name][k], Len(history))
              \/ LeftOver(history, report.trades[name][k], Len(history))
          BY <2>1, <4>1, <4>3, ReplayResult
        <4> QED BY <2>1, <4>1, <4>4, CostsHurt
      <3> QED BY <3>1 DEF CostsOnlyHurt
    <2>6. DrawdownExact
      <3>1. ASSUME NEW name \in Engines
            PROVE  /\ report.drawdown[name] = Max(FallsFrom(Pnls(report.trades[name]), 1))
                   /\ HarnessDrawdown(Pnls(report.trades[name]))
                        = Max({0} \cup FallsFrom(Pnls(report.trades[name]), 2))
        <4> DEFINE trades == report.trades[name]
                   pnls == Pnls(trades)
        <4>1. trades \in Seq(Trade)
          BY <2>1, <2>2, EngineIs
        <4> HIDE DEF trades
        <4>2. pnls \in Seq(Int)
          <5> DEFINE l == Len(trades)
          <5>1. l \in Nat /\ DOMAIN trades = 1 .. l /\ \A k \in 1 .. l : trades[k] \in Trade
            BY <4>1, LenProperties, ElementOfSeq
          <5>2. \A k \in 1 .. l : trades[k].pnl \in Int
            BY <5>1 DEF Trade
          <5> HIDE DEF l
          <5>3. pnls \in [1 .. l -> Int]
            BY <5>1, <5>2 DEF Pnls
          <5> QED BY <5>1, <5>3
        <4>3. report.drawdown[name] = Drawdown(pnls)
          BY <2>2 DEF trades
        <4> HIDE DEF pnls
        <4>4. Drawdown(pnls) = Max(FallsFrom(pnls, 1)) /\ HarnessDrawdown(pnls) = Max({0} \cup FallsFrom(pnls, 2))
          BY <4>2, DrawdownIsExact
        <4> QED BY <4>3, <4>4 DEF pnls, trades
      <3> QED BY <3>1 DEF DrawdownExact, FallsFrom
    <2>7. EntersAsSaid
      BY <2>1, SaidOrNot
    <2>8. FillsCost
      <3>1. report.trades["offline"] = Offline(history, Lookback)
        <4>1. "offline" \in Engines
          BY DEF Engines
        <4> QED BY <2>2, <4>1 DEF Engine
      <3>2. ASSUME NEW k \in DOMAIN Offline(history, Lookback)
            PROVE  LET t == Offline(history, Lookback)[k]
                       entered == history[t.bar].now
                       left == history[t.at].now
                       taken == Costless(t, history[t.bar].open) - t.pnl
                   IN  /\ taken = Cost(entered, "entry") + Cost(left, t.reason)
                       /\ -6 <= taken
                       /\ entered.draw >= 0 /\ left.draw >= 0 => 0 < taken
        <4> DEFINE t == Offline(history, Lookback)[k]
        <4>1. Shut(history, t, Len(history)) \/ Final(history, t, Len(history))
          BY <2>1, OfflineTrades
        <4> HIDE DEF t
        <4>2. LET entered == history[t.bar].now
                  left == history[t.at].now
                  taken == Costless(t, history[t.bar].open) - t.pnl
              IN  /\ taken = Cost(entered, "entry") + Cost(left, t.reason)
                  /\ -6 <= taken
                  /\ entered.draw >= 0 /\ left.draw >= 0 => 0 < taken
          BY <2>1, <4>1, FillsTaken
        <4> QED BY <4>2 DEF t
      <3> QED BY <3>1, <3>2 DEF FillsCost
    <2> QED BY <2>4, <2>5, <2>6, <2>7, <2>8 DEF ReportsHonest
  <1> QED BY <1>1, <1>2, <1>3, PTL DEF BacktestSpec

=============================================================================
