------------------------------ MODULE PriceService ------------------------------
(***************************************************************************)
(* oracles/price/src: PriceService, CombinedPriceProvider and              *)
(* ExchangePriceProvider.  Each session thread of the service runs         *)
(* processInterfaceQuery; the threads share the provider objects, each     *)
(* with its cache of candles and its rate limit.                           *)
(*                                                                         *)
(* A price is known by the exchange and the candle it is taken from and by *)
(* whether that candle was over when the exchange was asked; its digits,   *)
(* and their mean, are the subject of PriceArithmetic.  Both clocks of the   *)
(* code are the variable now.                                              *)
(***************************************************************************)
EXTENDS Integers, Sequences, FiniteSets

CONSTANTS Threads,     \* session threads of the service
          Symbols,     \* currency pairs
          OracleIds,   \* oracle names of the queries, normalised
          Providers,   \* the ExchangePriceProvider objects
          Sources,     \* registered oracle |-> its provider objects, in order;
                       \* none for the mock oracle
          Minute,      \* the length of a candle, in clock ticks
          Delay,       \* _rateLimitDelay
          CacheTtl,
          Timestamps,  \* times queries ask for; 0 is the current price
          LastAsk,     \* no query after this time (bound)
          MaxTime,     \* bound on the clock
          None

ASSUME PriceAssumption ==
    /\ Minute \in Nat \ {0} /\ Delay \in Nat /\ CacheTtl \in Nat
    /\ Timestamps \subseteq Nat /\ LastAsk \in Nat /\ MaxTime \in Nat
    /\ DOMAIN Sources \subseteq OracleIds
    /\ \A o \in DOMAIN Sources : Sources[o] \in Seq(Providers)
    /\ None \notin Threads

\* The clock starts late enough for the candles of the first queries to exist.
StartTime == 2 * Minute

Query == [oracle : OracleIds, symbol : Symbols, timestamp : Nat]
Price == [source : Providers, symbol : Symbols, close : Int, final : BOOLEAN]
Flags == {"NO_ERROR", "INVALID_ORACLE", "INVALID_ARG", "ORACLE_UNAVAIL"}

VARIABLES
    now,
    _cache,            \* per provider object: <<symbol, candle>> |-> entry
    _lastRequestTime,  \* per provider object
    limiter,           \* per provider object: the holder of _rateLimitMutex
    wake,              \* per thread: when its sleep in enforceRateLimit ends
    pc, query, asked,  \* per thread: its place, its query, when it came (history)
    candle, price,     \* per thread: candleCloseMs, and the price fetched
    prices,            \* per thread: what the providers so far have returned
    reply,             \* the reply given in the last step, if one was
    early              \* history: <<symbol, candle>> that queries were ahead of

limitVars == <<_lastRequestTime, limiter, wake>>
threadVars == <<pc, query, asked, candle, price, prices>>
vars == <<now, _cache, limitVars, threadVars, reply, early>>

Entry == [price : Price, fetchTime : Nat]

TypeOK ==
    /\ now \in Nat
    /\ DOMAIN _cache = Providers
    /\ \A p \in Providers : /\ DOMAIN _cache[p] \subseteq Symbols \X Int
                            /\ \A k \in DOMAIN _cache[p] : _cache[p][k] \in Entry
    /\ _lastRequestTime \in [Providers -> Nat]
    /\ limiter \in [Providers -> Threads \cup {None}]
    /\ wake \in [Threads -> Nat]
    /\ pc \in [Threads -> {"idle", "enter", "check", "limit", "sleep", "fetch", "store"}]
    /\ query \in [Threads -> Query \cup {None}]
    /\ asked \in [Threads -> Nat]
    /\ candle \in [Threads -> Int]
    /\ price \in [Threads -> Price \cup {None}]
    /\ prices \in [Threads -> Seq(Price)]
    /\ reply \in [query : Query, asked : Nat, flags : Flags, prices : Seq(Price)] \cup {None}
    /\ early \subseteq Symbols \X Int

Init ==
    /\ now = StartTime
    /\ _cache = [p \in Providers |-> <<>>]
    /\ _lastRequestTime = [p \in Providers |-> 0]
    /\ limiter = [p \in Providers |-> None]
    /\ wake = [t \in Threads |-> 0]
    /\ pc = [t \in Threads |-> "idle"]
    /\ query = [t \in Threads |-> None] /\ asked = [t \in Threads |-> 0]
    /\ candle = [t \in Threads |-> 0] /\ price = [t \in Threads |-> None]
    /\ prices = [t \in Threads |-> <<>>]
    /\ reply = None /\ early = {}

FloorMinute(time) == (time \div Minute) * Minute

\* The provider object thread t is asking.
Current(t) == Sources[query[t].oracle][Len(prices[t]) + 1]

\* The thread has its reply; its locals are gone.
Finish(t, flags, result) ==
    /\ reply' = [query |-> query[t], asked |-> asked[t], flags |-> flags, prices |-> result]
    /\ pc' = [pc EXCEPT ![t] = "idle"]
    /\ query' = [query EXCEPT ![t] = None] /\ asked' = [asked EXCEPT ![t] = 0]
    /\ candle' = [candle EXCEPT ![t] = 0] /\ price' = [price EXCEPT ![t] = None]
    /\ prices' = [prices EXCEPT ![t] = <<>>]

\* A provider returned p: ask the next one, or reply with all the prices.
Return(t, p) ==
    IF Len(prices[t]) + 1 = Len(Sources[query[t].oracle])
    THEN Finish(t, "NO_ERROR", Append(prices[t], p))
    ELSE /\ prices' = [prices EXCEPT ![t] = Append(@, p)]
         /\ candle' = [candle EXCEPT ![t] = 0] /\ price' = [price EXCEPT ![t] = None]
         /\ pc' = [pc EXCEPT ![t] = "enter"]
         /\ reply' = None
         /\ UNCHANGED <<query, asked>>
-------------------------------------------------------------------------------
(* PriceService::processInterfaceQuery *)

\* The time of a query is taken as it is, also if it is yet to come.
Ask(t, q) ==
    /\ pc[t] = "idle"
    /\ now <= LastAsk                   \* bound
    /\ query' = [query EXCEPT ![t] = q] /\ asked' = [asked EXCEPT ![t] = now]
    /\ pc' = [pc EXCEPT ![t] = "enter"]
    /\ reply' = None
    /\ early' = early \cup {k \in {<<q.symbol, FloorMinute(q.timestamp)>>} : k[2] > now}
    /\ UNCHANGED <<now, _cache, limitVars, candle, price, prices>>

UnknownOracle(t) ==
    /\ pc[t] = "enter"
    /\ query[t].oracle \notin DOMAIN Sources
    /\ Finish(t, "INVALID_ORACLE", <<>>)
    /\ UNCHANGED <<now, _cache, limitVars, early>>

\* MockPriceProvider knows some pairs, and no price but the current one.
MockPrice(t) ==
    /\ pc[t] = "enter"
    /\ query[t].oracle \in DOMAIN Sources /\ Sources[query[t].oracle] = <<>>
    /\ \/ Finish(t, "INVALID_ARG", <<>>)
       \/ query[t].timestamp = 0 /\ Finish(t, "NO_ERROR", <<>>)
    /\ UNCHANGED <<now, _cache, limitVars, early>>
-------------------------------------------------------------------------------
(* ExchangePriceProvider::getPriceAtTimestamp *)

\* The minute before the one that is running: the time of a current price.
PreviousMinute == FloorMinute(now) - Minute

\* Mutant: the candle that is open at the time.
OpenCandle(time) == FloorMinute(time) + Minute

\* candleCloseMs: the candle that closed last before the time.
ClosedCandle(time) == FloorMinute(time)

Enter(t) ==
    /\ pc[t] = "enter"
    /\ query[t].oracle \in DOMAIN Sources /\ Sources[query[t].oracle] # <<>>
    /\ candle' = [candle EXCEPT ![t] =
                     ClosedCandle(IF query[t].timestamp = 0 THEN PreviousMinute
                                  ELSE query[t].timestamp)]
    /\ pc' = [pc EXCEPT ![t] = "check"]
    /\ reply' = None
    /\ UNCHANGED <<now, _cache, limitVars, query, asked, price, prices, early>>

\* Mutant: the cache is searched by symbol only.
CachedAnyCandle(t) ==
    LET c == _cache[Current(t)]
    IN  {k \in DOMAIN c : k[1] = query[t].symbol /\ now - c[k].fetchTime < CacheTtl}

\* The key of the entry for the thread's candle, if there is one young enough.
Cached(t) ==
    LET c == _cache[Current(t)]
    IN  {k \in DOMAIN c : k = <<query[t].symbol, candle[t]>> /\ now - c[k].fetchTime < CacheTtl}

CheckCache(t) ==
    /\ pc[t] = "check"
    /\ \/ \E k \in Cached(t) : Return(t, _cache[Current(t)][k].price)
       \/ /\ Cached(t) = {}
          /\ pc' = [pc EXCEPT ![t] = "limit"]
          /\ reply' = None
          /\ UNCHANGED <<query, asked, candle, price, prices>>
    /\ UNCHANGED <<now, _cache, limitVars, early>>

\* Until one delay after the request before it: sleepMs from now.
WakeTime(p) == now + (Delay - (now - _lastRequestTime[p]))

\* Mutant: _rateLimitMutex is released before the sleep.
LimitWaitUnlocked(t, p) ==
    /\ limiter[p] = None
    /\ now - _lastRequestTime[p] < Delay
    /\ wake' = [wake EXCEPT ![t] = WakeTime(p)]
    /\ pc' = [pc EXCEPT ![t] = "sleep"]
    /\ UNCHANGED <<_lastRequestTime, limiter>>

\* enforceRateLimit: too early, sleep with _rateLimitMutex held ...
LimitWait(t, p) ==
    /\ limiter[p] = None
    /\ now - _lastRequestTime[p] < Delay
    /\ limiter' = [limiter EXCEPT ![p] = t]
    /\ wake' = [wake EXCEPT ![t] = WakeTime(p)]
    /\ pc' = [pc EXCEPT ![t] = "sleep"]
    /\ UNCHANGED _lastRequestTime

\* ... or go ahead at once ...
LimitPass(t, p) ==
    /\ limiter[p] = None
    /\ now - _lastRequestTime[p] >= Delay
    /\ _lastRequestTime' = [_lastRequestTime EXCEPT ![p] = now]
    /\ pc' = [pc EXCEPT ![t] = "fetch"]
    /\ UNCHANGED <<limiter, wake>>

enforceRateLimit(t) ==
    /\ pc[t] = "limit"
    /\ LimitWait(t, Current(t)) \/ LimitPass(t, Current(t))
    /\ reply' = None
    /\ UNCHANGED <<now, _cache, query, asked, candle, price, prices, early>>

\* Mutant: _rateLimitMutex is not released after a sleep.
LimitReleaseNever(p) == UNCHANGED limiter

\* The lock_guard's destructor.
LimitRelease(p) == limiter' = [limiter EXCEPT ![p] = None]

\* ... or wake up when the sleep is over.
LimitWake(t) ==
    /\ pc[t] = "sleep"
    /\ now >= wake[t]
    /\ _lastRequestTime' = [_lastRequestTime EXCEPT ![Current(t)] = now]
    /\ LimitRelease(Current(t))
    /\ wake' = [wake EXCEPT ![t] = 0]
    /\ pc' = [pc EXCEPT ![t] = "fetch"]
    /\ reply' = None
    /\ UNCHANGED <<now, _cache, query, asked, candle, price, prices, early>>

\* httpGet, parseKlineResponse or priceStringToRational fails.
FetchFails(t) == \E flags \in {"ORACLE_UNAVAIL", "INVALID_ARG"} : Finish(t, flags, <<>>)

\* The exchange has a candle from the moment it opens, and reports its latest
\* price as the close until it is over.
FetchPrice(t) ==
    /\ candle[t] - Minute <= now
    /\ price' = [price EXCEPT ![t] = [source |-> Current(t), symbol |-> query[t].symbol,
                                      close |-> candle[t], final |-> candle[t] <= now]]
    /\ pc' = [pc EXCEPT ![t] = "store"]
    /\ reply' = None
    /\ UNCHANGED <<query, asked, candle, prices>>

Fetch(t) ==
    /\ pc[t] = "fetch"
    /\ FetchFails(t) \/ FetchPrice(t)
    /\ UNCHANGED <<now, _cache, limitVars, early>>

\* The price goes into the cache and back to the caller.
Store(t) ==
    /\ pc[t] = "store"
    /\ LET key == <<query[t].symbol, candle[t]>>
       IN  _cache' = [_cache EXCEPT ![Current(t)] =
                         [k \in DOMAIN @ \cup {key} |->
                             IF k = key THEN [price |-> price[t], fetchTime |-> now] ELSE @[k]]]
    /\ Return(t, price[t])
    /\ UNCHANGED <<now, limitVars, early>>

Step(t) ==
    \/ UnknownOracle(t) \/ MockPrice(t) \/ Enter(t) \/ CheckCache(t)
    \/ enforceRateLimit(t) \/ LimitWake(t) \/ Fetch(t) \/ Store(t)

\* The bound lets a thread that sleeps at the end finish its sleep.
Tick ==
    /\ \/ now < MaxTime
       \/ \E t \in Threads : pc[t] = "sleep" /\ now < wake[t]
    /\ now' = now + 1
    /\ reply' = None
    /\ UNCHANGED <<_cache, limitVars, threadVars, early>>

Next ==
    \/ \E t \in Threads, o \in OracleIds, s \in Symbols, ts \in Timestamps :
           Ask(t, [oracle |-> o, symbol |-> s, timestamp |-> ts])
    \/ \E t \in Threads : Step(t)
    \/ Tick

Spec == Init /\ [][Next]_vars

\* Time goes on and every thread runs; the exchange answers or httpGet times out.
FairSpec == Spec /\ WF_vars(Tick) /\ \A t \in Threads : WF_vars(Step(t))
-------------------------------------------------------------------------------
(* Properties *)

\* A query about a given time is answered with the candle that ended last before
\* that time, the i-th by the i-th source, whatever other threads have put into the
\* caches; one about the current price with candles that ended a whole minute
\* before the reply at the latest (getPriceAtTimestamp).
PricesMatchQuery ==
    reply # None => \A i \in 1..Len(reply.prices) :
        LET p == reply.prices[i]
            q == reply.query
        IN  /\ p.source = Sources[q.oracle][i] /\ p.symbol = q.symbol
            /\ IF q.timestamp = 0
               THEN p.close >= FloorMinute(reply.asked) - Minute /\ p.close <= now - Minute
               ELSE p.close = FloorMinute(q.timestamp)

\* A price that can still change is never given out unless somebody asked for its
\* candle before the candle was over: neither the choice of the candle nor the
\* cache brings one to queries that are not ahead of the clock
\* (getPriceAtTimestamp).
UnfinishedOnlyIfAskedEarly ==
    reply # None => \A i \in 1..Len(reply.prices) :
        LET p == reply.prices[i]
        IN  p.final \/ <<p.symbol, p.close>> \in early

\* A provider object lets its requests through at least Delay apart, however
\* many threads queue for it or sleep, each for a time worked out before its
\* sleep (enforceRateLimit).
RequestsSpaced ==
    [][\A t \in Threads :
          pc[t] # "fetch" /\ pc'[t] = "fetch" =>
              /\ now - _lastRequestTime[Current(t)] >= Delay
              /\ _lastRequestTime'[Current(t)] = now]_vars

\* Every query gets its reply, also behind a queue at the rate limit.
QueryReplied == \A t \in Threads : pc[t] # "idle" ~> pc[t] = "idle"

\* What the comments promise and the code does not do.

\* exchange_provider.h "Get price at a specific timestamp (previous finished minute
\* candle)": a query whose time has come is answered with candles that were over
\* when the exchange was asked.
PricesAreFinal ==
    reply # None /\ reply.query.timestamp <= reply.asked =>
        \A i \in 1..Len(reply.prices) : reply.prices[i].final

\* exchange_provider.h "Get current price (uses latest completed 1-minute
\* candle)": no candle was completed after the one used and before the query.
CurrentPriceIsLatest ==
    reply # None /\ reply.query.timestamp = 0 =>
        \A i \in 1..Len(reply.prices) : reply.prices[i].close >= FloorMinute(reply.asked)
===============================================================================
