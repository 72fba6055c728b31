--------------------------- MODULE PriceServiceProofs ---------------------------
(***************************************************************************)
(* The price service for any threads, oracles and clock: a provider object *)
(* lets its requests through one delay apart, every query gets the candle  *)
(* it is about from each of its sources, and a price that can still change *)
(* is given out only where somebody was ahead of the clock.                *)
(***************************************************************************)
EXTENDS PriceService, TLAPS

CacheOK ==
    /\ DOMAIN _cache = Providers
    /\ \A p \in Providers : /\ DOMAIN _cache[p] \subseteq Symbols \X Int
                            /\ \A k \in DOMAIN _cache[p] : _cache[p][k] \in Entry
    /\ early \subseteq Symbols \X Int

LimitOK ==
    /\ now \in Nat
    /\ _lastRequestTime \in [Providers -> Nat]
    /\ limiter \in [Providers -> Threads \cup {None}]
    /\ wake \in [Threads -> Nat]

ThreadOK ==
    /\ pc \in [Threads -> {"idle", "enter", "check", "limit", "sleep", "fetch", "store"}]
    /\ query \in [Threads -> Query \cup {None}]
    /\ asked \in [Threads -> Nat]
    /\ candle \in [Threads -> Int]
    /\ price \in [Threads -> Price \cup {None}]
    /\ prices \in [Threads -> Seq(Price)]
    /\ reply \in [query : Query, asked : Nat, flags : Flags, prices : Seq(Price)] \cup {None}

\* A thread has a query unless it is idle; one that deals with a provider has
\* a provider to deal with.
Exchanging == {"check", "limit", "sleep", "fetch", "store"}

Places ==
    \A t \in Threads :
        /\ pc[t] = "idle" => prices[t] = <<>>
        /\ pc[t] # "idle" => query[t] \in Query
        /\ pc[t] # "idle" /\ query[t].oracle \in DOMAIN Sources =>
               Sources[query[t].oracle] = <<>> \/ Len(prices[t]) < Len(Sources[query[t].oracle])
        /\ pc[t] \in Exchanging => /\ query[t].oracle \in DOMAIN Sources
                                   /\ Sources[query[t].oracle] # <<>>
        /\ pc[t] = "store" => price[t] \in Price

\* A thread that sleeps holds the mutex, and will wake no earlier than one delay
\* after the request before it.
Sleepers ==
    \A t \in Threads : pc[t] = "sleep" =>
        /\ limiter[Current(t)] = t
        /\ wake[t] - _lastRequestTime[Current(t)] >= Delay

\* The inductive invariant.
IInv == CacheOK /\ LimitOK /\ ThreadOK /\ Places /\ Sleepers
-------------------------------------------------------------------------------
\* The types of the constants.
LEMMA Constants ==
    /\ Minute \in Nat /\ Minute > 0 /\ Delay \in Nat /\ CacheTtl \in Nat
    /\ Timestamps \subseteq Nat
  BY PriceAssumption DEF PriceAssumption

\* The provider a thread is dealing with.
LEMMA CurrentType ==
    ASSUME ThreadOK, Places, NEW t \in Threads, pc[t] \in Exchanging
    PROVE  Current(t) \in Providers
  <1>1. /\ Sources[query[t].oracle] \in Seq(Providers)
        /\ Len(prices[t]) < Len(Sources[query[t].oracle])
    BY PriceAssumption DEF Places, Exchanging, PriceAssumption
  <1>2. Len(prices[t]) \in Nat
    BY DEF ThreadOK
  <1>3. Len(prices[t]) + 1 \in 1..Len(Sources[query[t].oracle])
    BY <1>1, <1>2
  <1> QED BY <1>1, <1>3 DEF Current

\* A step of t that does not end in a sleep leaves the other threads' places alone.
LEMMA PlacesOf ==
    ASSUME Places, NEW t \in Threads,
           \A u \in Threads \ {t} : /\ pc'[u] = pc[u] /\ query'[u] = query[u]
                                    /\ prices'[u] = prices[u] /\ price'[u] = price[u],
           /\ pc'[t] = "idle" => prices'[t] = <<>>
           /\ pc'[t] # "idle" => query'[t] \in Query
           /\ pc'[t] # "idle" /\ query'[t].oracle \in DOMAIN Sources =>
                  \/ Sources[query'[t].oracle] = <<>>
                  \/ Len(prices'[t]) < Len(Sources[query'[t].oracle])
           /\ pc'[t] \in Exchanging => /\ query'[t].oracle \in DOMAIN Sources
                                       /\ Sources[query'[t].oracle] # <<>>
           /\ pc'[t] = "store" => price'[t] \in Price
    PROVE  Places'
  BY DEF Places

\* So does a step that leaves the rate limits alone, of the sleepers.
LEMMA SleepersOf ==
    ASSUME Sleepers, NEW t \in Threads, pc'[t] # "sleep", UNCHANGED limitVars,
           \A u \in Threads \ {t} : /\ pc'[u] = pc[u] /\ query'[u] = query[u]
                                    /\ prices'[u] = prices[u]
    PROVE  Sleepers'
  BY DEF Sleepers, Current, limitVars

\* The reply of a thread.
LEMMA FinishIInv ==
    ASSUME IInv, NEW t \in Threads, pc[t] # "idle", NEW flags \in Flags,
           NEW result \in Seq(Price), Finish(t, flags, result)
    PROVE  /\ ThreadOK' /\ Places'
           /\ UNCHANGED limitVars => Sleepers'
  <1>1. /\ reply' = [query |-> query[t], asked |-> asked[t], flags |-> flags, prices |-> result]
        /\ pc' = [pc EXCEPT ![t] = "idle"]
        /\ query' = [query EXCEPT ![t] = None] /\ asked' = [asked EXCEPT ![t] = 0]
        /\ candle' = [candle EXCEPT ![t] = 0] /\ price' = [price EXCEPT ![t] = None]
        /\ prices' = [prices EXCEPT ![t] = <<>>]
    BY DEF Finish
  <1>2. query[t] \in Query
    BY DEF IInv, Places
  <1>3. <<>> \in Seq(Price)
    OBVIOUS
  <1>4. ThreadOK'
    BY <1>1, <1>2, <1>3 DEF IInv, ThreadOK
  <1>5. /\ pc'[t] = "idle" /\ prices'[t] = <<>>
        /\ \A u \in Threads \ {t} : /\ pc'[u] = pc[u] /\ query'[u] = query[u]
                                    /\ prices'[u] = prices[u] /\ price'[u] = price[u]
    BY <1>1 DEF IInv, ThreadOK
  <1>6. Places'
    BY <1>5, PlacesOf DEF IInv, Exchanging
  <1> QED BY <1>4, <1>5, <1>6, SleepersOf DEF IInv

\* The return of one provider.
LEMMA ReturnIInv ==
    ASSUME IInv, NEW t \in Threads, pc[t] \in Exchanging, NEW p \in Price, Return(t, p)
    PROVE  /\ ThreadOK' /\ Places'
           /\ UNCHANGED limitVars => Sleepers'
  <1>1. Append(prices[t], p) \in Seq(Price) /\ prices[t] \in Seq(Price)
    BY DEF IInv, ThreadOK
  <1>2. CASE Len(prices[t]) + 1 = Len(Sources[query[t].oracle])
    <2>1. Finish(t, "NO_ERROR", Append(prices[t], p))
      BY <1>2 DEF Return
    <2> QED BY <1>1, <2>1, FinishIInv, Zenon DEF Flags, Exchanging
  <1>3. CASE Len(prices[t]) + 1 # Len(Sources[query[t].oracle])
    <2>1. /\ prices' = [prices EXCEPT ![t] = Append(@, p)]
          /\ candle' = [candle EXCEPT ![t] = 0] /\ price' = [price EXCEPT ![t] = None]
          /\ pc' = [pc EXCEPT ![t] = "enter"]
          /\ reply' = None
          /\ UNCHANGED <<query, asked>>
      BY <1>3 DEF Return
    <2>2. ThreadOK'
      BY <1>1, <2>1 DEF IInv, ThreadOK
    <2>3. /\ pc'[t] = "enter" /\ prices'[t] = Append(prices[t], p) /\ query'[t] = query[t]
          /\ \A u \in Threads \ {t} : /\ pc'[u] = pc[u] /\ query'[u] = query[u]
                                      /\ prices'[u] = prices[u] /\ price'[u] = price[u]
      BY <2>1 DEF IInv, ThreadOK
    <2>4. /\ query[t] \in Query /\ query[t].oracle \in DOMAIN Sources
          /\ Sources[query[t].oracle] \in Seq(Providers)
          /\ Len(prices[t]) < Len(Sources[query[t].oracle])
      BY PriceAssumption DEF IInv, Places, Exchanging, PriceAssumption
    <2>5. Len(prices'[t]) < Len(Sources[query[t].oracle])
      <3>1. Len(prices'[t]) = Len(prices[t]) + 1
        BY <1>1, <2>3
      <3>2. Len(prices[t]) \in Nat /\ Len(Sources[query[t].oracle]) \in Nat
        BY <1>1, <2>4
      <3> QED BY <1>3, <2>4, <3>1, <3>2
    <2>6. Places'
      BY <2>3, <2>4, <2>5, PlacesOf DEF IInv, Exchanging
    <2> QED BY <2>2, <2>3, <2>6, SleepersOf DEF IInv
  <1> QED BY <1>2, <1>3
-------------------------------------------------------------------------------
\* A query comes in.
LEMMA AskIInv ==
    ASSUME IInv, NEW t \in Threads, NEW o \in OracleIds, NEW s \in Symbols,
           NEW ts \in Timestamps, Ask(t, [oracle |-> o, symbol |-> s, timestamp |-> ts])
    PROVE  IInv'
  <1> DEFINE q == [oracle |-> o, symbol |-> s, timestamp |-> ts]
  <1>1. q \in Query
    BY Constants DEF Query
  <1>2. /\ pc[t] = "idle" /\ prices[t] = <<>>
        /\ query' = [query EXCEPT ![t] = q] /\ asked' = [asked EXCEPT ![t] = now]
        /\ pc' = [pc EXCEPT ![t] = "enter"] /\ reply' = None
        /\ UNCHANGED <<now, _cache, limitVars, candle, price, prices>>
    BY DEF Ask, IInv, Places
  <1>8. early' \subseteq Symbols \X Int
    <2>1. FloorMinute(q.timestamp) \in Int
      BY Constants DEF FloorMinute
    <2>2. <<q.symbol, FloorMinute(q.timestamp)>> \in Symbols \X Int
      BY <2>1
    <2>3. early' \subseteq early \cup {<<q.symbol, FloorMinute(q.timestamp)>>}
      BY Zenon DEF Ask
    <2> QED BY <2>2, <2>3, Zenon DEF IInv, CacheOK
  <1> HIDE DEF q
  <1>3. ThreadOK'
    BY <1>1, <1>2 DEF IInv, ThreadOK, LimitOK
  <1>4. /\ pc'[t] = "enter" /\ query'[t] = q /\ prices'[t] = <<>>
        /\ \A u \in Threads \ {t} : /\ pc'[u] = pc[u] /\ query'[u] = query[u]
                                    /\ prices'[u] = prices[u] /\ price'[u] = price[u]
    BY <1>2 DEF IInv, ThreadOK
  <1>5. ASSUME q.oracle \in DOMAIN Sources
        PROVE  Sources[q.oracle] = <<>> \/ Len(prices'[t]) < Len(Sources[q.oracle])
    <2>1. Sources[q.oracle] \in Seq(Providers)
      BY <1>5, PriceAssumption DEF PriceAssumption
    <2> QED BY <1>4, <2>1
  <1>6. Places'
    BY <1>1, <1>4, <1>5, PlacesOf DEF IInv, Exchanging
  <1>7. Sleepers'
    BY <1>2, <1>4, SleepersOf DEF IInv
  <1> QED BY <1>2, <1>3, <1>6, <1>7, <1>8 DEF IInv, CacheOK, LimitOK, limitVars

\* A thread takes up the next provider.
LEMMA EnterIInv ==
    ASSUME IInv, NEW t \in Threads, Enter(t)
    PROVE  IInv'
  <1>1. PICK c \in Int : candle' = [candle EXCEPT ![t] = c]
    <2>1. query[t] \in Query
      BY DEF Enter, IInv, Places
    <2>2. now \in Int /\ query[t].timestamp \in Int /\ Minute \in Int /\ Minute > 0
      BY <2>1, Constants DEF IInv, LimitOK, Query
    <2>3. \A x \in Int : FloorMinute(x) \in Int
      BY <2>2 DEF FloorMinute
    <2> DEFINE time == IF query[t].timestamp = 0 THEN PreviousMinute ELSE query[t].timestamp
    <2>4. PreviousMinute \in Int
      BY <2>2, <2>3 DEF PreviousMinute
    <2>5. time \in Int
      BY <2>2, <2>4
    <2>6. candle' = [candle EXCEPT ![t] = FloorMinute(time)]
      BY DEF Enter, ClosedCandle
    <2> HIDE DEF time
    <2> QED BY <2>3, <2>5, <2>6, Zenon
  <1>2. /\ pc[t] = "enter" /\ pc' = [pc EXCEPT ![t] = "check"] /\ reply' = None
        /\ query[t].oracle \in DOMAIN Sources /\ Sources[query[t].oracle] # <<>>
        /\ UNCHANGED <<now, _cache, limitVars, query, asked, price, prices, early>>
    BY DEF Enter
  <1>3. ThreadOK'
    BY <1>1, <1>2 DEF IInv, ThreadOK
  <1>4. /\ pc'[t] = "check" /\ \A u \in Threads \ {t} : pc'[u] = pc[u]
    BY <1>2 DEF IInv, ThreadOK
  <1>5. Places'
    BY <1>2, <1>4 DEF IInv, Places, Exchanging
  <1>6. Sleepers'
    BY <1>2, <1>4, SleepersOf DEF IInv
  <1> QED BY <1>2, <1>3, <1>5, <1>6 DEF IInv, CacheOK, LimitOK, limitVars

\* A step of a thread that moves on with its query and its prices as they are.
LEMMA MoveOn ==
    ASSUME IInv, NEW t \in Threads, pc[t] \in Exchanging,
           NEW next \in {"limit", "sleep", "fetch"}, pc' = [pc EXCEPT ![t] = next],
           reply' = None, UNCHANGED <<query, asked, candle, price, prices>>
    PROVE  /\ ThreadOK' /\ Places'
           /\ pc'[t] = next /\ \A u \in Threads \ {t} : pc'[u] = pc[u]
  <1>1. ThreadOK'
    BY DEF IInv, ThreadOK
  <1>2. pc'[t] = next /\ \A u \in Threads \ {t} : pc'[u] = pc[u]
    BY DEF IInv, ThreadOK
  <1>3. Places'
    BY <1>2 DEF IInv, Places, Exchanging
  <1> QED BY <1>1, <1>2, <1>3

\* The candle is in the cache, or the thread goes to the rate limit.
LEMMA CheckIInv ==
    ASSUME IInv, NEW t \in Threads, CheckCache(t)
    PROVE  IInv'
  <1>1. pc[t] = "check" /\ pc[t] \in Exchanging /\ UNCHANGED <<now, _cache, limitVars, early>>
    BY DEF CheckCache, Exchanging
  <1>2. CacheOK' /\ LimitOK'
    BY <1>1 DEF IInv, CacheOK, LimitOK, limitVars
  <1>3. CASE \E k \in Cached(t) : Return(t, _cache[Current(t)][k].price)
    <2>1. PICK k \in Cached(t) : Return(t, _cache[Current(t)][k].price)
      BY <1>3
    <2>2. Current(t) \in Providers /\ k \in DOMAIN _cache[Current(t)]
      BY <1>1, <2>1, CurrentType DEF IInv, Cached
    <2>3. _cache[Current(t)][k].price \in Price
      BY <2>2 DEF IInv, CacheOK, Entry
    <2> QED BY <1>1, <1>2, <2>1, <2>3, ReturnIInv DEF IInv
  <1>4. CASE pc' = [pc EXCEPT ![t] = "limit"] /\ reply' = None
             /\ UNCHANGED <<query, asked, candle, price, prices>>
    <2>1. ThreadOK' /\ Places' /\ pc'[t] = "limit" /\ \A u \in Threads \ {t} : pc'[u] = pc[u]
      BY <1>1, <1>4, MoveOn, Zenon
    <2>2. Sleepers'
      BY <1>1, <1>4, <2>1, SleepersOf DEF IInv
    <2> QED BY <1>2, <2>1, <2>2 DEF IInv
  <1> QED BY <1>3, <1>4 DEF CheckCache

\* The rate limit: a thread that is too early sleeps with the mutex, one that is
\* not goes ahead only when nobody sleeps at this provider.
LEMMA LimitIInv ==
    ASSUME IInv, NEW t \in Threads, enforceRateLimit(t)
    PROVE  IInv'
  <1> DEFINE p == Current(t)
  <1>1. /\ pc[t] = "limit" /\ pc[t] \in Exchanging /\ reply' = None
        /\ UNCHANGED <<now, _cache, query, asked, candle, price, prices, early>>
    BY DEF enforceRateLimit, Exchanging
  <1>2. p \in Providers
    BY <1>1, CurrentType DEF IInv
  <1>3. \A u \in Threads : Current(u)' = Current(u)
    BY <1>1 DEF Current
  <1>4. CacheOK'
    BY <1>1 DEF IInv, CacheOK
  <1>5. now \in Nat /\ _lastRequestTime[p] \in Nat /\ Delay \in Nat
    BY <1>2, Constants DEF IInv, LimitOK
  <1> HIDE DEF p
  <1>6. CASE LimitWait(t, p)
    <2>1. /\ limiter[p] = None /\ limiter' = [limiter EXCEPT ![p] = t]
          /\ wake' = [wake EXCEPT ![t] = WakeTime(p)]
          /\ pc' = [pc EXCEPT ![t] = "sleep"] /\ UNCHANGED _lastRequestTime
      BY <1>6 DEF LimitWait
    <2>2. WakeTime(p) \in Nat /\ WakeTime(p) - _lastRequestTime[p] >= Delay
      BY <1>5 DEF WakeTime
    <2>3. ThreadOK' /\ Places' /\ pc'[t] = "sleep" /\ \A u \in Threads \ {t} : pc'[u] = pc[u]
      BY <1>1, <2>1, MoveOn, Zenon
    <2>4. LimitOK'
      BY <1>1, <1>2, <2>1, <2>2 DEF IInv, LimitOK
    <2>5. /\ limiter'[p] = t /\ \A r \in Providers \ {p} : limiter'[r] = limiter[r]
          /\ wake'[t] = WakeTime(p) /\ \A u \in Threads \ {t} : wake'[u] = wake[u]
      BY <1>2, <2>1 DEF IInv, LimitOK
    <2>6. ASSUME NEW u \in Threads, pc'[u] = "sleep"
          PROVE  /\ limiter'[Current(u)] = u
                 /\ wake'[u] - _lastRequestTime'[Current(u)] >= Delay
      <3>1. CASE u = t
        BY <2>1, <2>2, <2>5, <3>1 DEF p
      <3>2. CASE u # t
        <4>1. pc[u] = "sleep"
          BY <2>3, <2>6, <3>2
        <4>2. /\ limiter[Current(u)] = u /\ Current(u) \in Providers
              /\ wake[u] - _lastRequestTime[Current(u)] >= Delay
          BY <4>1, CurrentType DEF IInv, Sleepers, Exchanging
        <4>3. Current(u) # p
          BY <2>1, <4>2, PriceAssumption DEF PriceAssumption
        <4> QED BY <2>1, <2>5, <3>2, <4>2, <4>3
      <3> QED BY <3>1, <3>2
    <2>7. Sleepers'
      BY <1>3, <2>6 DEF Sleepers
    <2> QED BY <1>4, <2>3, <2>4, <2>7 DEF IInv
  <1>7. CASE LimitPass(t, p)
    <2>1. /\ limiter[p] = None /\ _lastRequestTime' = [_lastRequestTime EXCEPT ![p] = now]
          /\ pc' = [pc EXCEPT ![t] = "fetch"] /\ UNCHANGED <<limiter, wake>>
      BY <1>7 DEF LimitPass
    <2>2. ThreadOK' /\ Places' /\ pc'[t] = "fetch" /\ \A u \in Threads \ {t} : pc'[u] = pc[u]
      BY <1>1, <2>1, MoveOn, Zenon
    <2>3. LimitOK'
      BY <1>1, <1>2, <1>5, <2>1 DEF IInv, LimitOK
    <2>4. ASSUME NEW u \in Threads, pc'[u] = "sleep"
          PROVE  /\ limiter'[Current(u)] = u
                 /\ wake'[u] - _lastRequestTime'[Current(u)] >= Delay
      <3>1. u # t /\ pc[u] = "sleep"
        BY <2>2, <2>4
      <3>2. /\ limiter[Current(u)] = u /\ Current(u) \in Providers
            /\ wake[u] - _lastRequestTime[Current(u)] >= Delay
        BY <3>1, CurrentType DEF IInv, Sleepers, Exchanging
      <3>3. Current(u) # p
        BY <2>1, <3>2, PriceAssumption DEF PriceAssumption
      <3>4. _lastRequestTime'[Current(u)] = _lastRequestTime[Current(u)]
        BY <2>1, <3>2, <3>3 DEF IInv, LimitOK
      <3> QED BY <2>1, <3>2, <3>4
    <2>5. Sleepers'
      BY <1>3, <2>4 DEF Sleepers
    <2> QED BY <1>4, <2>2, <2>3, <2>5 DEF IInv
  <1> QED BY <1>6, <1>7 DEF enforceRateLimit, p

\* A sleep is over: the mutex was this thread's, so no other sleeper's provider
\* is concerned.
LEMMA WakeIInv ==
    ASSUME IInv, NEW t \in Threads, LimitWake(t)
    PROVE  IInv'
  <1> DEFINE p == Current(t)
  <1>1. /\ pc[t] = "sleep" /\ pc[t] \in Exchanging /\ reply' = None
        /\ pc' = [pc EXCEPT ![t] = "fetch"]
        /\ UNCHANGED <<now, _cache, query, asked, candle, price, prices, early>>
    BY DEF LimitWake, Exchanging
  <1>2. p \in Providers /\ limiter[p] = t
    BY <1>1, CurrentType DEF IInv, Sleepers
  <1>3. \A u \in Threads : Current(u)' = Current(u)
    BY <1>1 DEF Current
  <1>4. /\ _lastRequestTime' = [_lastRequestTime EXCEPT ![p] = now]
        /\ limiter' = [limiter EXCEPT ![p] = None]
        /\ wake' = [wake EXCEPT ![t] = 0]
    BY DEF LimitWake, LimitRelease
  <1> HIDE DEF p
  <1>5. CacheOK' /\ LimitOK'
    BY <1>1, <1>2, <1>4 DEF IInv, CacheOK, LimitOK
  <1>6. ThreadOK' /\ Places' /\ pc'[t] = "fetch" /\ \A u \in Threads \ {t} : pc'[u] = pc[u]
    BY <1>1, MoveOn, Zenon
  <1>7. ASSUME NEW u \in Threads, pc'[u] = "sleep"
        PROVE  /\ limiter'[Current(u)] = u
               /\ wake'[u] - _lastRequestTime'[Current(u)] >= Delay
    <2>1. u # t /\ pc[u] = "sleep"
      BY <1>6, <1>7
    <2>2. /\ limiter[Current(u)] = u /\ Current(u) \in Providers
          /\ wake[u] - _lastRequestTime[Current(u)] >= Delay
      BY <2>1, CurrentType DEF IInv, Sleepers, Exchanging
    <2>3. Current(u) # p
      BY <1>2, <2>1, <2>2
    <2>4. /\ _lastRequestTime'[Current(u)] = _lastRequestTime[Current(u)]
          /\ limiter'[Current(u)] = limiter[Current(u)] /\ wake'[u] = wake[u]
      BY <1>4, <2>1, <2>2, <2>3 DEF IInv, LimitOK
    <2> QED BY <2>2, <2>4
  <1>8. Sleepers'
    BY <1>3, <1>7 DEF Sleepers
  <1> QED BY <1>5, <1>6, <1>8 DEF IInv

\* What a record of a price is made of (PriceData).
LEMMA PriceRecord ==
    ASSUME NEW s \in Providers, NEW y \in Symbols, NEW c \in Int, NEW f \in BOOLEAN
    PROVE  [source |-> s, symbol |-> y, close |-> c, final |-> f] \in Price
  BY DEF Price

\* The exchange answers, or fails to.
LEMMA FetchIInv ==
    ASSUME IInv, NEW t \in Threads, Fetch(t)
    PROVE  IInv'
  <1>1. pc[t] = "fetch" /\ pc[t] \in Exchanging /\ UNCHANGED <<now, _cache, limitVars, early>>
    BY DEF Fetch, Exchanging
  <1>2. CacheOK' /\ LimitOK'
    BY <1>1 DEF IInv, CacheOK, LimitOK, limitVars
  <1>3. CASE FetchFails(t)
    <2>1. PICK flags \in {"ORACLE_UNAVAIL", "INVALID_ARG"} : Finish(t, flags, <<>>)
      BY <1>3 DEF FetchFails
    <2>2. flags \in Flags /\ <<>> \in Seq(Price)
      BY DEF Flags
    <2> QED BY <1>1, <1>2, <2>1, <2>2, FinishIInv, Zenon DEF IInv
  <1>4. CASE FetchPrice(t)
    <2> DEFINE new == [source |-> Current(t), symbol |-> query[t].symbol, close |-> candle[t],
                       final |-> candle[t] <= now]
    <2>1. /\ price' = [price EXCEPT ![t] = new]
          /\ pc' = [pc EXCEPT ![t] = "store"] /\ reply' = None
          /\ UNCHANGED <<query, asked, candle, prices>>
      BY <1>4 DEF FetchPrice
    <2>2. query[t] \in Query /\ candle[t] \in Int /\ Current(t) \in Providers
      BY <1>1, CurrentType DEF IInv, Places, ThreadOK
    <2>3. new \in Price
      <3>1. query[t].symbol \in Symbols
        BY <2>2 DEF Query
      <3>2. (candle[t] <= now) \in BOOLEAN
        OBVIOUS
      <3> QED BY <2>2, <3>1, <3>2, PriceRecord, Zenon
    <2> HIDE DEF new
    <2>4. ThreadOK'
      BY <2>1, <2>3 DEF IInv, ThreadOK
    <2>5. /\ pc'[t] = "store" /\ price'[t] = new
          /\ \A u \in Threads \ {t} : pc'[u] = pc[u] /\ price'[u] = price[u]
      BY <2>1 DEF IInv, ThreadOK
    <2>6. Places'
      BY <1>1, <2>1, <2>3, <2>5 DEF IInv, Places
    <2>7. Sleepers'
      BY <1>1, <2>1, <2>5, SleepersOf DEF IInv
    <2> QED BY <1>2, <2>4, <2>6, <2>7 DEF IInv
  <1> QED BY <1>3, <1>4 DEF Fetch

\* What the cache holds after a store: the new entry, and what it held before.
LEMMA Stored ==
    ASSUME IInv, NEW t \in Threads, Store(t)
    PROVE  /\ Current(t) \in Providers /\ price[t] \in Price
           /\ <<query[t].symbol, candle[t]>> \in Symbols \X Int
           /\ DOMAIN _cache' = Providers
           /\ \A p \in Providers : \A k \in DOMAIN _cache'[p] :
                  \/ /\ p = Current(t) /\ k = <<query[t].symbol, candle[t]>>
                     /\ _cache'[p][k] = [price |-> price[t], fetchTime |-> now]
                  \/ k \in DOMAIN _cache[p] /\ _cache'[p][k] = _cache[p][k]
  <1> DEFINE c == Current(t)
             key == <<query[t].symbol, candle[t]>>
             new == [k \in DOMAIN _cache[c] \cup {key} |->
                        IF k = key THEN [price |-> price[t], fetchTime |-> now] ELSE _cache[c][k]]
  <1>1. pc[t] = "store" /\ pc[t] \in Exchanging /\ _cache' = [_cache EXCEPT ![c] = new]
    BY DEF Store, Exchanging
  <1>2. c \in Providers /\ price[t] \in Price /\ query[t] \in Query /\ candle[t] \in Int
    BY <1>1, CurrentType DEF IInv, Places, ThreadOK
  <1>3. key \in Symbols \X Int
    BY <1>2 DEF Query
  <1>4. /\ DOMAIN _cache' = Providers
        /\ \A p \in Providers : _cache'[p] = IF p = c THEN new ELSE _cache[p]
    <2> HIDE DEF new, c
    <2> QED BY <1>1, <1>2 DEF IInv, CacheOK
  <1> QED BY <1>2, <1>3, <1>4

\* The price goes into the cache and back.
LEMMA StoreIInv ==
    ASSUME IInv, NEW t \in Threads, Store(t)
    PROVE  IInv'
  <1>1. /\ pc[t] \in Exchanging /\ Return(t, price[t]) /\ UNCHANGED <<now, limitVars, early>>
    BY DEF Store, Exchanging
  <1>2. price[t] \in Price /\ now \in Nat
    BY Stored, Zenon DEF IInv, LimitOK
  <1>3. ThreadOK' /\ Places' /\ Sleepers'
    BY <1>1, <1>2, ReturnIInv
  <1>4. [price |-> price[t], fetchTime |-> now] \in Entry
    BY <1>2 DEF Entry
  <1>5. CacheOK'
    <2> SUFFICES ASSUME NEW p \in Providers, NEW k \in DOMAIN _cache'[p]
                 PROVE  k \in Symbols \X Int /\ _cache'[p][k] \in Entry
      BY <1>1, Stored, Zenon DEF IInv, CacheOK
    <2>1. CASE k = <<query[t].symbol, candle[t]>>
               /\ _cache'[p][k] = [price |-> price[t], fetchTime |-> now]
      BY <1>4, <2>1, Stored
    <2>2. CASE k \in DOMAIN _cache[p] /\ _cache'[p][k] = _cache[p][k]
      BY <2>2 DEF IInv, CacheOK
    <2> QED BY <2>1, <2>2, Stored, Zenon
  <1>6. LimitOK'
    BY <1>1 DEF IInv, LimitOK, limitVars
  <1> QED BY <1>3, <1>5, <1>6 DEF IInv

\* The oracle is not known, or is the mock one.
LEMMA RefuseIInv ==
    ASSUME IInv, NEW t \in Threads, UnknownOracle(t) \/ MockPrice(t)
    PROVE  IInv'
  <1>1. /\ pc[t] = "enter" /\ UNCHANGED <<now, _cache, limitVars, early>>
        /\ \E flags \in Flags : Finish(t, flags, <<>>)
    BY DEF UnknownOracle, MockPrice, Flags
  <1>2. <<>> \in Seq(Price)
    OBVIOUS
  <1>3. ThreadOK' /\ Places' /\ Sleepers'
    BY <1>1, <1>2, FinishIInv, Zenon
  <1> QED BY <1>1, <1>3 DEF IInv, CacheOK, LimitOK, limitVars

\* Time passes.
LEMMA TickIInv ==
    ASSUME IInv, Tick
    PROVE  IInv'
  <1>1. now' = now + 1 /\ reply' = None /\ UNCHANGED <<_cache, limitVars, threadVars, early>>
    BY DEF Tick
  <1>2. CacheOK' /\ LimitOK' /\ ThreadOK'
    BY <1>1 DEF IInv, CacheOK, LimitOK, ThreadOK, limitVars, threadVars
  <1>3. Places' /\ Sleepers'
    BY <1>1 DEF IInv, Places, Sleepers, Current, limitVars, threadVars
  <1> QED BY <1>2, <1>3 DEF IInv

\* Every step keeps the invariant.
LEMMA StepIInv ==
    ASSUME IInv, [Next]_vars
    PROVE  IInv'
  <1>1. CASE UNCHANGED vars
    BY <1>1, Zenon DEF vars, limitVars, threadVars, IInv, CacheOK, LimitOK, ThreadOK, Places,
                Sleepers, Current
  <1>2. CASE \E t \in Threads, o \in OracleIds, s \in Symbols, ts \in Timestamps :
                 Ask(t, [oracle |-> o, symbol |-> s, timestamp |-> ts])
    BY <1>2, AskIInv
  <1>3. ASSUME NEW t \in Threads, Step(t) PROVE IInv'
    BY <1>3, RefuseIInv, EnterIInv, CheckIInv, LimitIInv, WakeIInv, FetchIInv, StoreIInv DEF Step
  <1>4. CASE Tick
    BY <1>4, TickIInv
  <1> QED BY <1>1, <1>2, <1>3, <1>4, Zenon DEF Next

\* The service starts with empty caches and idle threads.
LEMMA Initially == Init => IInv
  <1> SUFFICES ASSUME Init PROVE IInv
    OBVIOUS
  <1>1. now \in Nat
    BY Constants DEF Init, StartTime
  <1>2. CacheOK /\ LimitOK
    BY <1>1 DEF Init, CacheOK, LimitOK
  <1>3. ThreadOK
    <2>1. <<>> \in Seq(Price)
      OBVIOUS
    <2> QED BY <2>1 DEF Init, ThreadOK
  <1>4. Places /\ Sleepers
    BY DEF Init, Places, Sleepers, Exchanging
  <1> QED BY <1>2, <1>3, <1>4 DEF IInv

\* The inductive invariant holds throughout.
THEOREM Invariance == Spec => []IInv
  BY Initially, StepIInv, PTL DEF Spec

\* All variables of the service keep their types.
THEOREM TypeCorrect == Spec => []TypeOK
  <1>1. IInv => TypeOK
    BY DEF IInv, CacheOK, LimitOK, ThreadOK, TypeOK
  <1> QED BY <1>1, Invariance, PTL
-------------------------------------------------------------------------------
\* A thread gets past the rate limit only one delay after the request before.
LEMMA StepSpaced ==
    ASSUME IInv, [Next]_vars, NEW t \in Threads, pc[t] # "fetch", pc'[t] = "fetch"
    PROVE  /\ now - _lastRequestTime[Current(t)] >= Delay
           /\ _lastRequestTime'[Current(t)] = now
  <1>1. pc \in [Threads -> {"idle", "enter", "check", "limit", "sleep", "fetch", "store"}]
    BY DEF IInv, ThreadOK
  <1>2. PICK u \in Threads : enforceRateLimit(u) \/ LimitWake(u)
    <2>1. Next /\ ~Tick
      BY DEF vars, threadVars, Tick
    <2>2. ASSUME NEW u \in Threads, NEW q, Ask(u, q) PROVE FALSE
      BY <1>1, <2>2 DEF Ask
    <2>3. ASSUME NEW u \in Threads, NEW f, NEW r, Finish(u, f, r) PROVE FALSE
      BY <1>1, <2>3 DEF Finish
    <2>4. ASSUME NEW u \in Threads, NEW q, Return(u, q) PROVE FALSE
      <3>1. pc' = [pc EXCEPT ![u] = "enter"] \/ \E f, r : Finish(u, f, r)
        BY <2>4, Zenon DEF Return
      <3> QED BY <1>1, <2>3, <3>1
    <2>5. ASSUME NEW u \in Threads, Step(u) PROVE enforceRateLimit(u) \/ LimitWake(u)
      <3>1. ~UnknownOracle(u) /\ ~MockPrice(u)
        BY <2>3, Zenon DEF UnknownOracle, MockPrice
      <3>2. ~Enter(u)
        BY <1>1 DEF Enter
      <3>3. ~CheckCache(u)
        <4>1. CheckCache(u) => pc' = [pc EXCEPT ![u] = "limit"]
          BY <2>4, Zenon DEF CheckCache
        <4> QED BY <1>1, <4>1
      <3>4. ~Fetch(u)
        <4>1. Fetch(u) => pc' = [pc EXCEPT ![u] = "store"]
          BY <2>3, Zenon DEF Fetch, FetchFails, FetchPrice
        <4> QED BY <1>1, <4>1
      <3>5. ~Store(u)
        BY <2>4, Zenon DEF Store
      <3> QED BY <2>5, <3>1, <3>2, <3>3, <3>4, <3>5, Zenon DEF Step
    <2> QED BY <2>1, <2>2, <2>5, Zenon DEF Next
  <1>3. u = t
    BY <1>1, <1>2 DEF enforceRateLimit, LimitWait, LimitPass, LimitWake
  <1>4. pc[t] \in Exchanging /\ Current(t) \in Providers
    BY <1>2, <1>3, CurrentType DEF IInv, enforceRateLimit, LimitWake, Exchanging
  <1>5. CASE enforceRateLimit(t)
    <2>1. ~LimitWait(t, Current(t))
      BY <1>1 DEF LimitWait
    <2>2. LimitPass(t, Current(t))
      BY <1>5, <2>1 DEF enforceRateLimit
    <2> QED BY <1>4, <2>2 DEF LimitPass, IInv, LimitOK
  <1>6. CASE LimitWake(t)
    <2>1. /\ wake[t] - _lastRequestTime[Current(t)] >= Delay
          /\ now >= wake[t]
          /\ now \in Nat /\ wake[t] \in Nat /\ _lastRequestTime[Current(t)] \in Nat
      BY <1>4, <1>6 DEF LimitWake, IInv, Sleepers, LimitOK
    <2>2. now - _lastRequestTime[Current(t)] >= Delay
      BY <2>1, Constants
    <2>3. _lastRequestTime'[Current(t)] = now
      BY <1>4, <1>6 DEF LimitWake, IInv, LimitOK
    <2> QED BY <2>2, <2>3
  <1> QED BY <1>2, <1>3, <1>5, <1>6, Zenon

\* The requests of a provider object are at least one delay apart
\* (enforceRateLimit), for any number of threads: the mutex is held through the
\* sleep, so the time that was worked out before it stays right.
THEOREM Spaced == Spec => RequestsSpaced
  <1>1. ASSUME IInv, [Next]_vars
        PROVE  [\A t \in Threads :
                  pc[t] # "fetch" /\ pc'[t] = "fetch" =>
                      /\ now - _lastRequestTime[Current(t)] >= Delay
                      /\ _lastRequestTime'[Current(t)] = now]_vars
    BY <1>1, StepSpaced
  <1> QED BY <1>1, Invariance, PTL DEF Spec, RequestsSpaced
-------------------------------------------------------------------------------
(* What the prices are *)

\* Candle c is one that a query q that came at time a may be answered with.
Due(q, a, c) ==
    IF q.timestamp = 0 THEN c >= FloorMinute(a) - Minute /\ c <= now - Minute
    ELSE c = FloorMinute(q.timestamp)

\* Its price cannot change any more, or somebody was ahead of the clock.
Certain(p) == p.final = TRUE \/ <<p.symbol, p.close>> \in early

\* Price p is one that the i-th source of such a query may return.
Fits(q, a, i, p) ==
    /\ p.source = Sources[q.oracle][i] /\ p.symbol = q.symbol
    /\ Due(q, a, p.close) /\ Certain(p)

\* An entry is a price of the provider and the candle it is filed under.
RightCache ==
    \A p \in Providers : \A k \in DOMAIN _cache[p] :
        /\ k = <<_cache[p][k].price.symbol, _cache[p][k].price.close>>
        /\ _cache[p][k].price.source = p
        /\ Certain(_cache[p][k].price)

\* The candle at the time of query q is over, or q was ahead of the clock.
Foreseen(q) ==
    FloorMinute(q.timestamp) <= now \/ <<q.symbol, FloorMinute(q.timestamp)>> \in early

RightThread(t) ==
    /\ \A i \in 1..Len(prices[t]) : Fits(query[t], asked[t], i, prices[t][i])
    /\ pc[t] # "idle" => asked[t] <= now /\ Foreseen(query[t])
    /\ pc[t] \in Exchanging => Due(query[t], asked[t], candle[t])
    /\ pc[t] = "store" => /\ price[t].source = Current(t)
                          /\ price[t].symbol = query[t].symbol /\ price[t].close = candle[t]
                          /\ Certain(price[t])

RightReply ==
    reply # None => \A i \in 1..Len(reply.prices) :
        Fits(reply.query, reply.asked, i, reply.prices[i])

Right == RightCache /\ (\A t \in Threads : RightThread(t)) /\ RightReply

\* Rounding down to a minute.
LEMMA Floors ==
    /\ \A x \in Int : FloorMinute(x) \in Int /\ FloorMinute(x) <= x
    /\ \A x, y \in Int : x <= y => FloorMinute(x) <= FloorMinute(y)
    /\ \A x \in Int : FloorMinute(FloorMinute(x) - Minute) = FloorMinute(x) - Minute
  <1> USE Constants
  <1>1. ASSUME NEW x \in Int PROVE FloorMinute(x) \in Int /\ FloorMinute(x) <= x
    BY DEF FloorMinute
  <1>2. ASSUME NEW x \in Int, NEW y \in Int, x <= y PROVE FloorMinute(x) <= FloorMinute(y)
    BY <1>2 DEF FloorMinute
  <1>3. ASSUME NEW k \in Int PROVE (k * Minute) \div Minute = k
    OBVIOUS
  <1>4. ASSUME NEW x \in Int PROVE FloorMinute(FloorMinute(x) - Minute) = FloorMinute(x) - Minute
    <2>1. PICK k \in Int : k = x \div Minute
      OBVIOUS
    <2>2. FloorMinute(x) - Minute = (k - 1) * Minute
      BY <2>1 DEF FloorMinute
    <2>3. ((k - 1) * Minute) \div Minute = k - 1
      BY <1>3
    <2> QED BY <2>2, <2>3 DEF FloorMinute
  <1> QED BY <1>1, <1>2, <1>4

\* A minute earlier.
LEMMA MinuteEarlier ==
    /\ \A a, b \in Int, n \in Nat :
           a <= b /\ b <= n => b - Minute >= a - Minute /\ b - Minute <= n - Minute
    /\ \A a \in Int, n \in Nat : a <= n - Minute => a <= n
  BY Constants

\* The candle a thread asks for is due.
LEMMA EnterDue ==
    ASSUME IInv, NEW t \in Threads, RightThread(t), Enter(t)
    PROVE  Due(query[t], asked[t], candle'[t])
  <1>1. pc[t] = "enter" /\ query[t] \in Query /\ now \in Nat /\ asked[t] \in Nat /\ asked[t] <= now
    BY Zenon DEF Enter, IInv, Places, LimitOK, ThreadOK, RightThread
  <1>2. query[t].timestamp \in Nat
    BY <1>1 DEF Query
  <1>3. CASE query[t].timestamp = 0
    <2>1. candle'[t] = FloorMinute(FloorMinute(now) - Minute)
      BY <1>3 DEF Enter, ClosedCandle, PreviousMinute, IInv, ThreadOK
    <2>2. /\ FloorMinute(now) \in Int /\ FloorMinute(now) <= now
          /\ FloorMinute(asked[t]) \in Int /\ FloorMinute(asked[t]) <= FloorMinute(now)
          /\ FloorMinute(FloorMinute(now) - Minute) = FloorMinute(now) - Minute
      BY <1>1, Floors
    <2>3. candle'[t] >= FloorMinute(asked[t]) - Minute /\ candle'[t] <= now - Minute
      <3>1. candle'[t] = FloorMinute(now) - Minute
        BY <2>1, <2>2, Zenon
      <3>2. /\ FloorMinute(now) - Minute >= FloorMinute(asked[t]) - Minute
            /\ FloorMinute(now) - Minute <= now - Minute
        BY <1>1, <2>2, MinuteEarlier
      <3> QED BY <3>1, <3>2, Zenon
    <2> QED BY <1>3, <2>3 DEF Due
  <1>4. CASE query[t].timestamp # 0
    <2>1. candle'[t] = FloorMinute(query[t].timestamp)
      BY <1>4 DEF Enter, ClosedCandle, IInv, ThreadOK
    <2> QED BY <1>4, <2>1 DEF Due
  <1> QED BY <1>3, <1>4

\* A candle that is due is over, unless somebody was ahead of the clock.
LEMMA DueIsOver ==
    ASSUME IInv, NEW t \in Threads, RightThread(t), pc[t] \in Exchanging
    PROVE  candle[t] <= now \/ <<query[t].symbol, candle[t]>> \in early
  <1>1. /\ now \in Nat /\ candle[t] \in Int
        /\ Foreseen(query[t]) /\ Due(query[t], asked[t], candle[t])
    BY Zenon DEF IInv, LimitOK, ThreadOK, RightThread, Exchanging
  <1>2. CASE query[t].timestamp = 0
    <2>1. candle[t] <= now - Minute
      BY <1>1, <1>2, Zenon DEF Due
    <2> QED BY <1>1, <2>1, MinuteEarlier, Zenon
  <1>3. CASE query[t].timestamp # 0
    BY <1>1, <1>3, Zenon DEF Due, Foreseen
  <1> QED BY <1>2, <1>3

\* A thread a step does not concern, while the clock stands still.
LEMMA RightKept ==
    ASSUME NEW u \in Threads, RightThread(u), now' = now, early \subseteq early',
           /\ pc'[u] = pc[u] /\ query'[u] = query[u] /\ asked'[u] = asked[u]
           /\ candle'[u] = candle[u] /\ price'[u] = price[u] /\ prices'[u] = prices[u]
    PROVE  RightThread(u)'
  <1>1. ASSUME NEW p, Certain(p) PROVE p.final = TRUE \/ <<p.symbol, p.close>> \in early'
    BY <1>1, Zenon DEF Certain
  <1>2. \A i \in 1..Len(prices'[u]) : Fits(query[u], asked[u], i, prices[u][i])'
    BY <1>1, Zenon DEF RightThread, Fits, Due, Certain
  <1>3. pc'[u] # "idle" => asked'[u] <= now' /\ Foreseen(query[u])'
    BY Zenon DEF RightThread, Foreseen
  <1>4. pc'[u] \in Exchanging => Due(query[u], asked[u], candle[u])'
    BY Zenon DEF RightThread, Due
  <1>5. pc'[u] = "store" => /\ price'[u].source = Current(u)'
                            /\ price'[u].symbol = query'[u].symbol /\ price'[u].close = candle'[u]
                            /\ Certain(price[u])'
    BY <1>1, Zenon DEF RightThread, Certain, Current
  <1> QED BY <1>2, <1>3, <1>4, <1>5, Zenon DEF RightThread

\* A thread without a query.
LEMMA IdleRight ==
    ASSUME NEW t \in Threads, prices'[t] = <<>>, pc'[t] = "idle"
    PROVE  RightThread(t)'
  <1>1. /\ 1..Len(prices'[t]) = {} /\ pc'[t] \notin Exchanging /\ pc'[t] # "store"
    BY DEF Exchanging
  <1> QED BY <1>1, Zenon DEF RightThread

\* The elements of a sequence with one more.
LEMMA AppendElements ==
    ASSUME NEW seq \in Seq(Price), NEW e \in Price
    PROVE  \A i \in 1..Len(Append(seq, e)) :
               \/ i = Len(seq) + 1 /\ Append(seq, e)[i] = e
               \/ i \in 1..Len(seq) /\ Append(seq, e)[i] = seq[i]
  <1>1. Len(seq) \in Nat /\ Len(Append(seq, e)) = Len(seq) + 1
    OBVIOUS
  <1> SUFFICES ASSUME NEW i \in 1..Len(Append(seq, e)), i # Len(seq) + 1
               PROVE  i \in 1..Len(seq) /\ Append(seq, e)[i] = seq[i]
    BY <1>1
  <1>2. i \in 1..Len(seq)
    BY <1>1
  <1> QED BY <1>1, <1>2

\* A thread replies with prices that fit.
LEMMA FinishRight ==
    ASSUME IInv, \A u \in Threads : RightThread(u), NEW t \in Threads,
           NEW flags, NEW result \in Seq(Price), Finish(t, flags, result), now' = now, early' = early,
           \A i \in 1..Len(result) : Fits(query[t], asked[t], i, result[i])
    PROVE  (\A u \in Threads : RightThread(u)') /\ RightReply'
  <1>1. /\ reply' = [query |-> query[t], asked |-> asked[t], flags |-> flags, prices |-> result]
        /\ pc' = [pc EXCEPT ![t] = "idle"]
        /\ query' = [query EXCEPT ![t] = None] /\ asked' = [asked EXCEPT ![t] = 0]
        /\ candle' = [candle EXCEPT ![t] = 0] /\ price' = [price EXCEPT ![t] = None]
        /\ prices' = [prices EXCEPT ![t] = <<>>]
    BY DEF Finish
  <1>2. RightReply'
    <2>1. reply'.query = query[t] /\ reply'.asked = asked[t] /\ reply'.prices = result
      BY <1>1
    <2> QED BY <2>1, Zenon DEF RightReply, Fits, Due, Certain
  <1>3. pc'[t] = "idle" /\ prices'[t] = <<>>
    BY <1>1, Zenon DEF IInv, ThreadOK
  <1>4. RightThread(t)'
    BY <1>3, IdleRight, Zenon
  <1>5. ASSUME NEW u \in Threads \ {t} PROVE RightThread(u)'
    <2>1. /\ pc'[u] = pc[u] /\ query'[u] = query[u] /\ asked'[u] = asked[u]
          /\ candle'[u] = candle[u] /\ price'[u] = price[u] /\ prices'[u] = prices[u]
      BY <1>1, Zenon DEF IInv, ThreadOK
    <2> QED BY <2>1, RightKept
  <1> QED BY <1>2, <1>4, <1>5

\* A provider returns a price that fits.
LEMMA ReturnRight ==
    ASSUME IInv, \A u \in Threads : RightThread(u), NEW t \in Threads, pc[t] # "idle",
           NEW p \in Price, Fits(query[t], asked[t], Len(prices[t]) + 1, p), Return(t, p),
           now' = now, early' = early
    PROVE  (\A u \in Threads : RightThread(u)') /\ RightReply'
  <1> DEFINE all == Append(prices[t], p)
  <1>1. prices[t] \in Seq(Price) /\ all \in Seq(Price)
    <2>1. prices[t] \in Seq(Price)
      BY Zenon DEF IInv, ThreadOK
    <2> QED BY <2>1
  <1>2. \A i \in 1..Len(all) : Fits(query[t], asked[t], i, all[i])
    <2>1. \A i \in 1..Len(all) : \/ i = Len(prices[t]) + 1 /\ all[i] = p
                                 \/ i \in 1..Len(prices[t]) /\ all[i] = prices[t][i]
      <3>1. prices[t] \in Seq(Price) /\ p \in Price
        BY <1>1
      <3> QED BY <3>1, AppendElements, Zenon
    <2>2. \A i \in 1..Len(prices[t]) : Fits(query[t], asked[t], i, prices[t][i])
      BY DEF RightThread
    <2> HIDE DEF all
    <2> QED BY <2>1, <2>2, Zenon
  <1> HIDE DEF all
  <1>3. CASE Len(prices[t]) + 1 = Len(Sources[query[t].oracle])
    <2>1. Finish(t, "NO_ERROR", all)
      BY <1>3 DEF Return, all
    <2> QED BY <1>1, <1>2, <2>1, FinishRight, Zenon
  <1>4. CASE Len(prices[t]) + 1 # Len(Sources[query[t].oracle])
    <2>1. /\ prices' = [prices EXCEPT ![t] = all]
          /\ candle' = [candle EXCEPT ![t] = 0] /\ price' = [price EXCEPT ![t] = None]
          /\ pc' = [pc EXCEPT ![t] = "enter"]
          /\ reply' = None
          /\ UNCHANGED <<query, asked>>
      BY <1>4, Zenon DEF Return, all
    <2>2. /\ prices'[t] = all /\ pc'[t] = "enter"
          /\ query'[t] = query[t] /\ asked'[t] = asked[t]
      BY <2>1 DEF IInv, ThreadOK
    <2>3. \A i \in 1..Len(prices'[t]) : Fits(query[t], asked[t], i, prices[t][i])'
      <3> SUFFICES ASSUME NEW i \in 1..Len(all) PROVE Fits(query[t], asked[t], i, prices[t][i])'
        BY <2>2
      <3>1. Fits(query[t], asked[t], i, all[i])
        BY <1>2
      <3>2. Due(query[t], asked[t], prices[t][i].close)'
        BY <2>2, <3>1 DEF Fits, Due
      <3>3. Certain(prices[t][i])'
        BY <2>2, <3>1 DEF Fits, Certain
      <3> QED BY <2>2, <3>1, <3>2, <3>3 DEF Fits
    <2>4. RightThread(t)'
      BY <2>1, <2>2, <2>3, Zenon DEF RightThread, Exchanging, Foreseen
    <2>5. ASSUME NEW u \in Threads \ {t} PROVE RightThread(u)'
      <3>1. /\ pc'[u] = pc[u] /\ query'[u] = query[u] /\ asked'[u] = asked[u]
            /\ candle'[u] = candle[u] /\ price'[u] = price[u] /\ prices'[u] = prices[u]
        BY <2>1, Zenon DEF IInv, ThreadOK
      <3> QED BY <3>1, RightKept, Zenon
    <2> QED BY <2>1, <2>4, <2>5, Zenon DEF RightReply
  <1> QED BY <1>3, <1>4

\* A query comes in.
LEMMA AskRight ==
    ASSUME IInv, Right, NEW t \in Threads, NEW o \in OracleIds, NEW s \in Symbols,
           NEW ts \in Timestamps, Ask(t, [oracle |-> o, symbol |-> s, timestamp |-> ts])
    PROVE  Right'
  <1> DEFINE q == [oracle |-> o, symbol |-> s, timestamp |-> ts]
  <1>1. /\ pc[t] = "idle" /\ prices[t] = <<>> /\ early \subseteq early'
        /\ FloorMinute(q.timestamp) > now => <<q.symbol, FloorMinute(q.timestamp)>> \in early'
        /\ query' = [query EXCEPT ![t] = q] /\ asked' = [asked EXCEPT ![t] = now]
        /\ pc' = [pc EXCEPT ![t] = "enter"] /\ reply' = None
        /\ UNCHANGED <<now, _cache, limitVars, candle, price, prices>>
    BY DEF Ask, IInv, Places
  <1>5. FloorMinute(q.timestamp) \in Int
    BY Constants DEF FloorMinute
  <1> HIDE DEF q
  <1>2. /\ pc'[t] = "enter" /\ query'[t] = q /\ asked'[t] = now /\ now' = now /\ prices'[t] = <<>>
        /\ now \in Nat
    BY <1>1, Zenon DEF IInv, ThreadOK, LimitOK
  <1>3. RightThread(t)'
    <2>1. 1..Len(prices'[t]) = {} /\ pc'[t] \notin Exchanging /\ pc'[t] # "store"
      <3>1. Len(<<>>) = 0 /\ 1..0 = {}
        OBVIOUS
      <3>2. pc'[t] \notin Exchanging /\ pc'[t] # "store"
        BY <1>2, Zenon DEF Exchanging
      <3> QED BY <1>2, <3>1, <3>2, Zenon
    <2>2. asked'[t] <= now' /\ Foreseen(query[t])'
      <3>1. now <= now /\ (FloorMinute(q.timestamp) <= now \/ FloorMinute(q.timestamp) > now)
        BY <1>2, <1>5
      <3> QED BY <1>1, <1>2, <3>1, Zenon DEF Foreseen
    <2> QED BY <2>1, <2>2, Zenon DEF RightThread
  <1>4. ASSUME NEW u \in Threads \ {t} PROVE RightThread(u)'
    <2>1. /\ pc'[u] = pc[u] /\ query'[u] = query[u] /\ asked'[u] = asked[u]
          /\ candle'[u] = candle[u] /\ price'[u] = price[u] /\ prices'[u] = prices[u]
      BY <1>1, Zenon DEF IInv, ThreadOK
    <2> QED BY <1>1, <2>1, RightKept, Zenon DEF Right
  <1>6. RightCache'
    BY <1>1, Zenon DEF Right, RightCache, Certain
  <1> QED BY <1>1, <1>3, <1>4, <1>6, Zenon DEF Right, RightReply

\* A step that moves one thread on and changes no price.
LEMMA MoveRight ==
    ASSUME IInv, Right, NEW t \in Threads, pc[t] \in Exchanging,
           NEW next \in {"limit", "sleep", "fetch"}, pc' = [pc EXCEPT ![t] = next],
           reply' = None, UNCHANGED <<now, _cache, query, asked, candle, price, prices, early>>
    PROVE  Right'
  <1>1. pc'[t] = next /\ \A u \in Threads \ {t} : pc'[u] = pc[u]
    BY DEF IInv, ThreadOK
  <1>2. RightThread(t)'
    BY <1>1, Zenon DEF Right, RightThread, Exchanging, Fits, Due, Certain, Foreseen
  <1>3. \A u \in Threads \ {t} : RightThread(u)'
    BY <1>1, RightKept, Zenon DEF Right
  <1> QED BY <1>2, <1>3, Zenon DEF Right, RightCache, RightReply, Certain

\* The thread takes up a candle that is due.
LEMMA EnterRight ==
    ASSUME IInv, Right, NEW t \in Threads, Enter(t)
    PROVE  Right'
  <1>1. /\ pc[t] = "enter" /\ pc' = [pc EXCEPT ![t] = "check"] /\ reply' = None
        /\ \E c : candle' = [candle EXCEPT ![t] = c]
        /\ UNCHANGED <<now, _cache, limitVars, query, asked, price, prices, early>>
    BY Zenon DEF Enter
  <1>2. /\ pc'[t] = "check"
        /\ \A u \in Threads \ {t} : pc'[u] = pc[u] /\ candle'[u] = candle[u]
    BY <1>1, Zenon DEF IInv, ThreadOK
  <1>3. Due(query[t], asked[t], candle'[t])
    BY EnterDue DEF Right
  <1>4. RightThread(t)'
    BY <1>1, <1>2, <1>3, Zenon DEF Right, RightThread, Fits, Due, Certain, Foreseen
  <1>5. \A u \in Threads \ {t} : RightThread(u)'
    BY <1>1, <1>2, RightKept DEF Right
  <1> QED BY <1>1, <1>4, <1>5, Zenon DEF Right, RightCache, RightReply, Certain

\* An entry found under the thread's candle fits the thread's query.
LEMMA CheckRight ==
    ASSUME IInv, Right, NEW t \in Threads, CheckCache(t)
    PROVE  Right'
  <1>1. pc[t] = "check" /\ pc[t] \in Exchanging /\ UNCHANGED <<now, _cache, limitVars, early>>
    BY DEF CheckCache, Exchanging
  <1>2. CASE \E k \in Cached(t) : Return(t, _cache[Current(t)][k].price)
    <2>1. PICK k \in Cached(t) : Return(t, _cache[Current(t)][k].price)
      BY <1>2
    <2> DEFINE p == _cache[Current(t)][k].price
    <2>2. /\ Current(t) \in Providers /\ k \in DOMAIN _cache[Current(t)]
          /\ k = <<query[t].symbol, candle[t]>>
      <3>1. Current(t) \in Providers
        BY <1>1, CurrentType DEF IInv
      <3> QED BY <2>1, <3>1 DEF Cached
    <2>3. p \in Price
      BY <2>2 DEF IInv, CacheOK, Entry
    <2>4. k = <<p.symbol, p.close>> /\ p.source = Current(t) /\ Certain(p)
      BY <2>2 DEF Right, RightCache
    <2>5. p.symbol = query[t].symbol /\ p.close = candle[t]
      BY <2>2, <2>4
    <2>6. Due(query[t], asked[t], candle[t])
      BY <1>1, Zenon DEF Right, RightThread
    <2>7. Fits(query[t], asked[t], Len(prices[t]) + 1, p)
      BY <2>4, <2>5, <2>6, Zenon DEF Fits, Current
    <2> HIDE DEF p
    <2>8. (\A u \in Threads : RightThread(u)') /\ RightReply'
      BY <1>1, <2>1, <2>3, <2>7, ReturnRight DEF Right, p
    <2> QED BY <1>1, <2>8, Zenon DEF Right, RightCache, Certain
  <1>3. CASE pc' = [pc EXCEPT ![t] = "limit"] /\ reply' = None
             /\ UNCHANGED <<query, asked, candle, price, prices>>
    BY <1>1, <1>3, MoveRight, Zenon
  <1> QED BY <1>2, <1>3 DEF CheckCache

\* What the exchange answers.
LEMMA FetchRight ==
    ASSUME IInv, Right, NEW t \in Threads, Fetch(t)
    PROVE  Right'
  <1>1. pc[t] = "fetch" /\ pc[t] \in Exchanging /\ UNCHANGED <<now, _cache, limitVars, early>>
    BY DEF Fetch, Exchanging
  <1>2. RightCache'
    BY <1>1, Zenon DEF Right, RightCache, Certain
  <1>3. CASE FetchFails(t)
    <2>1. PICK flags \in {"ORACLE_UNAVAIL", "INVALID_ARG"} : Finish(t, flags, <<>>)
      BY <1>3 DEF FetchFails
    <2>2. <<>> \in Seq(Price) /\ 1..Len(<<>>) = {}
      OBVIOUS
    <2> QED BY <1>1, <1>2, <2>1, <2>2, FinishRight, Zenon DEF Right
  <1>4. CASE FetchPrice(t)
    <2> DEFINE new == [source |-> Current(t), symbol |-> query[t].symbol, close |-> candle[t],
                       final |-> candle[t] <= now]
    <2>1. /\ price' = [price EXCEPT ![t] = new]
          /\ pc' = [pc EXCEPT ![t] = "store"] /\ reply' = None
          /\ UNCHANGED <<query, asked, candle, prices>>
      BY <1>4 DEF FetchPrice
    <2>2. new.source = Current(t) /\ new.symbol = query[t].symbol /\ new.close = candle[t]
      OBVIOUS
    <2>3. candle[t] <= now \/ <<query[t].symbol, candle[t]>> \in early
      BY <1>1, DueIsOver DEF Right
    <2>4. new.final = (candle[t] <= now)
      OBVIOUS
    <2>5. Certain(new)
      BY <2>2, <2>3, <2>4, Zenon DEF Certain
    <2> HIDE DEF new
    <2>6. /\ pc'[t] = "store" /\ price'[t] = new
          /\ \A u \in Threads \ {t} : pc'[u] = pc[u] /\ price'[u] = price[u]
      BY <2>1 DEF IInv, ThreadOK
    <2>7. RightThread(t)'
      <3>1. /\ \A i \in 1..Len(prices[t]) : Fits(query[t], asked[t], i, prices[t][i])
            /\ asked[t] <= now /\ Foreseen(query[t]) /\ Due(query[t], asked[t], candle[t])
        BY <1>1, Zenon DEF Right, RightThread
      <3>2. \A i \in 1..Len(prices'[t]) : Fits(query[t], asked[t], i, prices[t][i])'
        BY <1>1, <2>1, <3>1, Zenon DEF Fits, Due, Certain
      <3>3. asked'[t] <= now' /\ Foreseen(query[t])' /\ Due(query[t], asked[t], candle[t])'
        BY <1>1, <2>1, <3>1, Zenon DEF Foreseen, Due
      <3>4. /\ price'[t].source = Current(t)' /\ price'[t].symbol = query'[t].symbol
            /\ price'[t].close = candle'[t] /\ Certain(price[t])'
        <4>1. Current(t)' = Current(t) /\ query' = query /\ candle' = candle /\ early' = early
          BY <1>1, <2>1, Zenon DEF Current
        <4>2. Certain(price[t])'
          BY <2>5, <2>6, <4>1 DEF Certain
        <4> QED BY <2>2, <2>6, <4>1, <4>2, Zenon
      <3> QED BY <3>2, <3>3, <3>4, Zenon DEF RightThread
    <2>8. \A u \in Threads \ {t} : RightThread(u)'
      BY <1>1, <2>1, <2>6, RightKept DEF Right
    <2> QED BY <1>2, <2>1, <2>7, <2>8 DEF Right, RightReply
  <1> QED BY <1>3, <1>4 DEF Fetch

\* The price of the entry that is put into the cache.
LEMMA EntryPrice ==
    ASSUME NEW e, NEW q, NEW n, e = [price |-> q, fetchTime |-> n] PROVE e.price = q
  OBVIOUS

\* The price is filed under its candle and goes back.
LEMMA StoreRight ==
    ASSUME IInv, Right, NEW t \in Threads, Store(t)
    PROVE  Right'
  <1>1. /\ pc[t] = "store" /\ pc[t] \in Exchanging /\ Return(t, price[t])
        /\ now' = now /\ early' = early
    BY DEF Store, Exchanging
  <1>2. /\ price[t] \in Price /\ Due(query[t], asked[t], candle[t])
        /\ price[t].source = Current(t) /\ Certain(price[t])
        /\ price[t].symbol = query[t].symbol /\ price[t].close = candle[t]
    BY <1>1, Stored, Zenon DEF Right, RightThread
  <1>3. Fits(query[t], asked[t], Len(prices[t]) + 1, price[t])
    BY <1>2, Zenon DEF Fits, Current
  <1>4. (\A u \in Threads : RightThread(u)') /\ RightReply'
    BY <1>1, <1>2, <1>3, ReturnRight, Zenon DEF Right
  <1>5. ASSUME NEW p \in Providers, NEW k \in DOMAIN _cache'[p]
        PROVE  /\ k = <<_cache'[p][k].price.symbol, _cache'[p][k].price.close>>
               /\ _cache'[p][k].price.source = p
               /\ Certain(_cache'[p][k].price)
    <2>1. CASE p = Current(t) /\ k = <<query[t].symbol, candle[t]>>
               /\ _cache'[p][k] = [price |-> price[t], fetchTime |-> now]
      <3>1. _cache'[p][k].price = price[t]
        BY <2>1, EntryPrice, Zenon
      <3>2. k = <<price[t].symbol, price[t].close>>
        BY <1>2, <2>1
      <3> QED BY <1>2, <2>1, <3>1, <3>2, Zenon
    <2>2. CASE k \in DOMAIN _cache[p] /\ _cache'[p][k] = _cache[p][k]
      BY <2>2 DEF Right, RightCache
    <2> QED BY <2>1, <2>2, Stored, Zenon
  <1> QED BY <1>1, <1>4, <1>5, Zenon DEF Right, RightCache, Certain

\* A query that is refused gets no price; nor does one about the mock oracle here.
LEMMA RefuseRight ==
    ASSUME IInv, Right, NEW t \in Threads, UnknownOracle(t) \/ MockPrice(t)
    PROVE  Right'
  <1>1. /\ UNCHANGED <<now, _cache, limitVars, early>>
        /\ \E flags \in Flags : Finish(t, flags, <<>>)
    BY DEF UnknownOracle, MockPrice, Flags
  <1>2. <<>> \in Seq(Price) /\ 1..Len(<<>>) = {}
    OBVIOUS
  <1>3. (\A u \in Threads : RightThread(u)') /\ RightReply'
    BY <1>1, <1>2, FinishRight, Zenon DEF Right
  <1> QED BY <1>1, <1>3, Zenon DEF Right, RightCache, Certain

\* A candle that is due stays due as time passes.
LEMMA DueLater ==
    ASSUME NEW q, NEW a, NEW c \in Int, Due(q, a, c), now \in Nat, now' = now + 1
    PROVE  IF q.timestamp = 0 THEN c >= FloorMinute(a) - Minute /\ c <= now' - Minute
           ELSE c = FloorMinute(q.timestamp)
  BY Constants DEF Due

\* What was due stays due.
LEMMA TickRight ==
    ASSUME IInv, Right, Tick
    PROVE  Right'
  <1>1. /\ now' = now + 1 /\ now \in Nat /\ reply' = None
        /\ UNCHANGED <<_cache, limitVars, threadVars, early>>
    BY DEF Tick, IInv, LimitOK
  <1>2. ASSUME NEW t \in Threads PROVE RightThread(t)'
    <2>1. /\ pc'[t] = pc[t] /\ query'[t] = query[t] /\ asked'[t] = asked[t]
          /\ candle'[t] = candle[t] /\ price'[t] = price[t] /\ prices'[t] = prices[t]
          /\ candle[t] \in Int /\ asked[t] \in Nat /\ prices[t] \in Seq(Price)
      BY <1>1 DEF threadVars, IInv, ThreadOK
    <2>2. ASSUME NEW i \in 1..Len(prices[t]) PROVE Fits(query[t], asked[t], i, prices[t][i])'
      <3>1. prices[t][i] \in Price
        BY <2>1
      <3>2. prices[t][i].close \in Int /\ Fits(query[t], asked[t], i, prices[t][i])
        BY <3>1, Zenon DEF Price, Right, RightThread
      <3>3. Due(query[t], asked[t], prices[t][i].close)'
        <4>1. Due(query[t], asked[t], prices[t][i].close)
          BY <3>2, Zenon DEF Fits
        <4>2. IF query[t].timestamp = 0
              THEN /\ prices[t][i].close >= FloorMinute(asked[t]) - Minute
                   /\ prices[t][i].close <= now' - Minute
              ELSE prices[t][i].close = FloorMinute(query[t].timestamp)
          BY <1>1, <3>2, <4>1, DueLater, Zenon
        <4> QED BY <2>1, <4>2, Zenon DEF Due
      <3> QED BY <1>1, <2>1, <3>2, <3>3, Zenon DEF Fits, Certain
    <2>3. ASSUME pc[t] \in Exchanging PROVE Due(query[t], asked[t], candle[t])'
      <3>1. Due(query[t], asked[t], candle[t])
        BY <2>3, Zenon DEF Right, RightThread
      <3>2. IF query[t].timestamp = 0
            THEN candle[t] >= FloorMinute(asked[t]) - Minute /\ candle[t] <= now' - Minute
            ELSE candle[t] = FloorMinute(query[t].timestamp)
        BY <1>1, <2>1, <3>1, DueLater
      <3> QED BY <2>1, <3>2, Zenon DEF Due
    <2>4. pc[t] # "idle" => asked[t] <= now' /\ Foreseen(query[t])'
      <3> SUFFICES ASSUME pc[t] # "idle" PROVE asked[t] <= now' /\ Foreseen(query[t])'
        OBVIOUS
      <3>1. asked[t] <= now /\ Foreseen(query[t]) /\ query[t] \in Query
        BY Zenon DEF Right, RightThread, IInv, Places
      <3>2. FloorMinute(query[t].timestamp) \in Int
        BY <3>1, Constants DEF FloorMinute, Query
      <3>3. \A x \in Int : x <= now => x <= now'
        BY <1>1
      <3>4. asked[t] \in Int
        BY <2>1
      <3> QED BY <1>1, <2>1, <3>1, <3>2, <3>3, <3>4, Zenon DEF Foreseen
    <2>5. ASSUME pc[t] = "store"
          PROVE  /\ price[t].source = Current(t)'
                 /\ price[t].symbol = query[t].symbol /\ price[t].close = candle[t]
                 /\ Certain(price[t])'
      BY <1>1, <2>1, <2>5, Zenon DEF Right, RightThread, Current, Certain
    <2> QED BY <2>1, <2>2, <2>3, <2>4, <2>5, Zenon DEF RightThread
  <1> QED BY <1>1, <1>2, Zenon DEF Right, RightCache, RightReply, Certain

\* Every step keeps the prices right.
LEMMA StepRight ==
    ASSUME IInv, Right, [Next]_vars
    PROVE  Right'
  <1>1. CASE UNCHANGED vars
    <2>1. RightCache'
      BY <1>1, Zenon DEF vars, Right, RightCache, Certain
    <2>2. ASSUME NEW t \in Threads PROVE RightThread(t)'
      <3>1. /\ pc'[t] = pc[t] /\ query'[t] = query[t] /\ asked'[t] = asked[t]
            /\ candle'[t] = candle[t] /\ price'[t] = price[t] /\ prices'[t] = prices[t]
            /\ now' = now /\ early' = early
        BY <1>1, Zenon DEF vars, threadVars
      <3> QED BY <3>1, RightKept, Zenon DEF Right
    <2>3. RightReply'
      BY <1>1, Zenon DEF vars, Right, RightReply, Fits, Due, Certain
    <2> QED BY <2>1, <2>2, <2>3 DEF Right
  <1>2. CASE \E t \in Threads, o \in OracleIds, s \in Symbols, ts \in Timestamps :
                 Ask(t, [oracle |-> o, symbol |-> s, timestamp |-> ts])
    BY <1>2, AskRight
  <1>3. ASSUME NEW t \in Threads, enforceRateLimit(t) \/ LimitWake(t) PROVE Right'
    BY <1>3, MoveRight DEF enforceRateLimit, LimitWait, LimitPass, LimitWake, Exchanging
  <1>4. ASSUME NEW t \in Threads, Step(t) PROVE Right'
    BY <1>3, <1>4, RefuseRight, EnterRight, CheckRight, FetchRight, StoreRight DEF Step
  <1>5. CASE Tick
    BY <1>5, TickRight
  <1> QED BY <1>1, <1>2, <1>4, <1>5, Zenon DEF Next

\* The prices are right throughout.
LEMMA AlwaysRight == Spec => []Right
  <1>1. Init => Right
    <2> SUFFICES ASSUME Init PROVE Right
      OBVIOUS
    <2>1. RightCache
      BY DEF Init, RightCache
    <2>2. ASSUME NEW t \in Threads PROVE RightThread(t)
      <3>1. prices[t] = <<>> /\ pc[t] = "idle"
        BY DEF Init
      <3>2. 1..Len(prices[t]) = {} /\ pc[t] \notin Exchanging /\ pc[t] # "store"
        BY <3>1 DEF Exchanging
      <3> QED BY <3>1, <3>2, Zenon DEF RightThread
    <2>3. RightReply
      BY DEF Init, RightReply
    <2> QED BY <2>1, <2>2, <2>3 DEF Right
  <1> QED BY <1>1, StepRight, Invariance, PTL DEF Spec

\* A query is answered with the candle that was asked for, by each of its sources,
\* whatever other threads file in the shared caches meanwhile
\* (getPriceAtTimestamp).
THEOREM PricesMatch == Spec => []PricesMatchQuery
  <1>1. Right => PricesMatchQuery
    BY Zenon DEF Right, RightReply, Fits, Due, PricesMatchQuery
  <1> QED BY <1>1, AlwaysRight, PTL

\* A price that can still change is in a reply only if a query for its candle came
\* before the candle was over (getPriceAtTimestamp).
THEOREM UnfinishedAskedEarly == Spec => []UnfinishedOnlyIfAskedEarly
  <1>1. Right => UnfinishedOnlyIfAskedEarly
    BY Zenon DEF Right, RightReply, Fits, Certain, UnfinishedOnlyIfAskedEarly
  <1> QED BY <1>1, AlwaysRight, PTL
===============================================================================
