----------------------------- MODULE MarketData -----------------------------
(* MultiSourceProvider: the price asked of one source after the other, each  *)
(* with its own last known price, behind a breaker; and the candles, read    *)
(* from the SQLite cache or from sources that keep caches of their own.  A   *)
(* step is the code between two awaits.  A price is abstracted to how long   *)
(* ago the market was last seen at it, candles to how long ago they were     *)
(* fetched: ages are in ticks, and nothing older than AgeCap is told apart.  *)
EXTENDS Naturals, Sequences, FiniteSets

CONSTANTS Askers,    \* callers of get_price
          Readers,   \* callers of get_candles, all of one timeframe
          Sources,   \* the optional sources that have a key
          Trip,      \* _PRICE_FAIL_THRESHOLD
          Recovery,  \* _PRICE_RECOVERY_TIMEOUT
          Delay,     \* how far Yahoo's quotes are behind the market
          StoreTTL,  \* cache_ttl of the timeframe
          MemTTL,    \* _cache_ttl of each source that caches candles
          AgeCap     \* bound on ages

ASSUME MarketAssumption ==
  /\ Askers \cap Readers = {}
  /\ Sources \subseteq {"oanda", "tiingo", "alphavantage"}
  /\ Trip \in Nat \ {0} /\ Recovery \in Nat \ {0}
  /\ StoreTTL \in Nat /\ \A s \in DOMAIN MemTTL : MemTTL[s] \in Nat
  /\ DOMAIN MemTTL = {"yfinance", "oanda", "tiingo", "alphavantage"}
  /\ Delay \in Nat /\ Delay <= AgeCap
  /\ AgeCap \in Nat /\ StoreTTL <= AgeCap /\ \A s \in DOMAIN MemTTL : MemTTL[s] <= AgeCap

VARIABLES still,  \* how long the market has stood still: 0 while it is open
          known,  \* per source: the age of its last known price
          down,   \* _price_failures
          wait,   \* ticks to _price_circuit_open_until
          price,  \* per asker: the sources left to ask, and the last answer
          held,   \* per source: its cached candles
          store,  \* the SQLite cache
          bars    \* per reader: the sources left to ask, and the last candles

marketVars == <<still, known, down, wait, price, held, store, bars>>

Ages == 0 .. AgeCap
None == AgeCap + 1        \* no age: nothing is known
Older(a) == IF a < AgeCap THEN a + 1 ELSE a
\* An age that may be None.
Aged(a) == IF a = None THEN None ELSE Older(a)

\* A source without a key is skipped.
Keyed(s) == IF s \in Sources THEN <<s>> ELSE <<>>
PriceChain ==
  <<"forexfeed", "biquote">> \o Keyed("oanda") \o Keyed("tiingo") \o <<"yfinance">> \o Keyed("alphavantage")
CandleChain ==
  <<"yfinance">> \o Keyed("oanda") \o Keyed("tiingo") \o <<"biquote">> \o Keyed("alphavantage")

\* The sources that keep the last price they got, and those that answer with
\* it when they cannot get one; BiQuote's is for the breaker only.
Remembering == {"forexfeed", "biquote", "oanda", "yfinance"}
Repeating == Remembering \ {"biquote"}

\* An answer: with the warning of a delay or without, and what the market did
\* when it was given.
Answer(kind, age, warned) == [kind |-> kind, age |-> age, warned |-> warned, still |-> still]
NoPrice == Answer("error", None, FALSE)
NoBars == [kind |-> "error", age |-> None]

MarketInit ==
  /\ known = [s \in Remembering |-> None] /\ still = 0
  /\ down = 0 /\ wait = 0
  /\ price = [a \in Askers |-> [left |-> <<>>, got |-> NoPrice]]
  /\ held = [s \in DOMAIN MemTTL |-> [stamp |-> None, age |-> None]]
  /\ store = [stamp |-> None, age |-> None]
  /\ bars = [r \in Readers |-> [left |-> <<>>, got |-> NoBars]]

\* PriceProvider's requests are synchronous calls inside async functions: no
\* other task runs, and no deadline expires, until Yahoo has answered.
Blocking(left) == left # <<>> /\ Head(left) = "yfinance"
LoopFree(who) ==
  /\ \A a \in Askers \ {who} : ~Blocking(price[a].left)
  /\ \A r \in Readers \ {who} : ~Blocking(bars[r].left)

\* Mutant: Yahoo's prices pass for those of the moment.
NeverDelayed(s) == FALSE

\* get_price warns of every price of Yahoo's.
Delayed(s) == s = "yfinance"

\* At a weekend a source quotes the last price there was, as it always does;
\* Yahoo's history ends before its delay, or where the market stopped.
PriceAge(s) == IF s = "yfinance" /\ still < Delay THEN Delay ELSE still

\* Mutant: the repeated price passes for a new one.
RepeatedBare(s) == Answer("live", known[s], Delayed(s))

\* A last known price is marked as "cached".
Repeated(s) == Answer("cached", known[s], Delayed(s))

\* What a source answers when its request failed in the given way: OANDA
\* repeats itself after an exception, not after an HTTP error.
Failure(s, how) ==
  IF s \in Repeating /\ known[s] # None /\ ~(s = "oanda" /\ how = "status")
    THEN Repeated(s) ELSE NoPrice

\* The breaker: open, it answers for the sources; after its time it forgets
\* its failures.
AskPrice(a) ==
  /\ LoopFree(a) /\ price[a].left = <<>>
  /\ IF down >= Trip /\ wait > 0
       THEN /\ price' = [price EXCEPT ![a].got =
                 IF known["biquote"] # None THEN Repeated("biquote") ELSE NoPrice]
            /\ UNCHANGED down
       ELSE /\ down' = IF down >= Trip THEN 0 ELSE down
            /\ price' = [price EXCEPT ![a] = [left |-> PriceChain, got |-> NoPrice]]
  /\ UNCHANGED <<still, known, wait, held, store, bars>>

\* A success of these sources clears the failures; the others leave them.
Clearing == {"forexfeed", "biquote", "alphavantage"}

OneMoreFailure(n) == IF n < Trip THEN n + 1 ELSE n

\* The source asked answers, live or with what it has, or its request fails
\* and the next one is asked; without a next one the failure counts.
PriceAnswer(a, how) ==
  LET s == Head(price[a].left)
      answer == IF how = "live" THEN Answer("live", PriceAge(s), Delayed(s)) ELSE Failure(s, how) IN
  /\ LoopFree(a) /\ price[a].left # <<>>
  /\ known' = IF how = "live" /\ s \in Remembering THEN [known EXCEPT ![s] = PriceAge(s)] ELSE known
  /\ \/ /\ answer # NoPrice
        /\ price' = [price EXCEPT ![a] = [left |-> <<>>, got |-> answer]]
        /\ down' = IF s \in Clearing THEN 0 ELSE down
        /\ UNCHANGED wait
     \/ /\ answer = NoPrice /\ Len(price[a].left) > 1
        /\ price' = [price EXCEPT ![a].left = Tail(@)]
        /\ UNCHANGED <<down, wait>>
     \/ /\ answer = NoPrice /\ Len(price[a].left) = 1
        /\ price' = [price EXCEPT ![a].left = <<>>]
        /\ down' = OneMoreFailure(down)
        /\ wait' = IF OneMoreFailure(down) >= Trip THEN Recovery ELSE wait
  /\ UNCHANGED <<still, held, store, bars>>

\* Mutant: rows of the SQLite cache do not expire.
StoredFreshAlways == store.stamp # None

StoredFresh == store.stamp <= StoreTTL

\* get_candles: fresh rows answer at once when they are enough.
AskCandles(r, enough) ==
  /\ LoopFree(r) /\ bars[r].left = <<>>
  /\ bars' = [bars EXCEPT ![r] =
       IF StoredFresh /\ enough THEN [left |-> <<>>, got |-> [kind |-> "stored", age |-> store.age]]
                                ELSE [left |-> CandleChain, got |-> NoBars]]
  /\ UNCHANGED <<still, known, down, wait, price, held, store>>

\* A source answers from its cache while that is fresh, else from the network.
HeldAfter(s, live) == IF live THEN [stamp |-> 0, age |-> 0] ELSE held[s]

\* Good candles of a source; all but BiQuote's snapshot go to the store.
GoodCandles(r) ==
  LET s == Head(bars[r].left)
      live == s = "biquote" \/ held[s].stamp >= MemTTL[s] IN
  /\ LoopFree(r) /\ bars[r].left # <<>>
  /\ held' = IF s = "biquote" THEN held ELSE [held EXCEPT ![s] = HeldAfter(s, live)]
  /\ store' = IF s = "biquote" THEN store ELSE [stamp |-> 0, age |-> held'[s].age]
  /\ bars' = [bars EXCEPT ![r] = [left |-> <<>>, got |->
       [kind |-> s, age |-> IF s = "biquote" THEN 0 ELSE held'[s].age]]]
  /\ known' = IF s = "biquote" THEN [known EXCEPT ![s] = still] ELSE known
  /\ UNCHANGED <<still, down, wait, price>>

\* An error, no data, the deadline of _fetch_candles, or candles that
\* _validate_data refuses (a source caches them all the same): the next one.
BadCandles(r, refused) ==
  LET s == Head(bars[r].left) IN
  /\ LoopFree(r) /\ bars[r].left # <<>>
  /\ IF s = "biquote" THEN ~refused ELSE refused \/ held[s].stamp >= MemTTL[s]
  /\ held' = IF refused /\ held[s].stamp >= MemTTL[s]
               THEN [held EXCEPT ![s] = [stamp |-> 0, age |-> 0]] ELSE held
  /\ bars' = [bars EXCEPT ![r].left = Tail(@)]
  /\ UNCHANGED <<still, known, down, wait, price, store>>

\* A tick, of an open market or of one that stands still; what callers were
\* given is as old as it was when they got it.
MarketTick ==
  /\ LoopFree("nobody")
  /\ still' \in {0, Older(still)}
  /\ known' = [s \in Remembering |-> Aged(known[s])]
  /\ wait' = IF wait > 0 THEN wait - 1 ELSE 0
  /\ held' = [s \in DOMAIN held |-> [stamp |-> Aged(held[s].stamp), age |-> Aged(held[s].age)]]
  /\ store' = [stamp |-> Aged(store.stamp), age |-> Aged(store.age)]
  /\ UNCHANGED <<down, price, bars>>

PriceNext ==
  \E a \in Askers : \/ AskPrice(a)
                    \/ \E how \in {"live", "status", "raised"} : PriceAnswer(a, how)

CandleNext ==
  \E r \in Readers : \/ \E enough \in BOOLEAN : AskCandles(r, enough)
                     \/ GoodCandles(r)
                     \/ \E refused \in BOOLEAN : BadCandles(r, refused)
MarketNext == PriceNext \/ CandleNext \/ MarketTick

MarketSpec == MarketInit /\ [][MarketNext]_marketVars
----------------------------------------------------------------------------
MarketTypeOK ==
  /\ still \in Ages /\ known \in [Remembering -> Ages \cup {None}]
  /\ down \in 0 .. Trip /\ wait \in 0 .. Recovery
  /\ \A a \in Askers : price[a].got.age \in Ages \cup {None}
  /\ \A r \in Readers : bars[r].got.age \in Ages \cup {None}

\* Whichever source gave it and whatever failed before, a price that is not
\* marked as cached was quoted during the call: it is the market's of that
\* moment or, where the market stood still, its last, which nothing marks; and
\* Delay behind it only with the warning of a delay.
PricesMarked ==
  \A a \in Askers :
    LET got == price[a].got IN
    got.kind = "live" => got.age <= got.still \/ (got.warned /\ got.age <= Delay)

Longest == CHOOSE t \in {MemTTL[s] : s \in DOMAIN MemTTL} :
             \A s \in DOMAIN MemTTL : MemTTL[s] <= t

\* Candles pass through two caches, and the second stamps anew what the first
\* kept: they were never fetched longer ago than the two lifetimes together.
CandlesFresh ==
  \A r \in Readers : bars[r].got.kind # "error" => bars[r].got.age <= StoreTTL + Longest
=============================================================================
