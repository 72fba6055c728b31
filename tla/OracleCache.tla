------------------------------ MODULE OracleCache ------------------------------
(***************************************************************************)
(* node/src/oracle_cache.{h,cpp}: the TTL cache in front of the interface  *)
(* services.  Every public operation holds _mutex from its first to its    *)
(* last statement, so each is one action.  The clock is a variable of its  *)
(* own: time passes only between operations.                               *)
(***************************************************************************)
EXTENDS Integers, FiniteSets

CONSTANTS QueryIds,            \* oracleQueryId of a query
          Interfaces,          \* oracleInterfaceIndex of a query
          Payloads,            \* interface-specific reply bytes
          ErrorFlags,          \* oracleMachineErrorFlags; 0 is "no error"
          NoEntry,             \* a key that is not in the map
          Configs,             \* the configurations a cache may be built with
          MaxTime,             \* bound on the clock
          MaxLookups           \* bound on the number of lookups

CacheKey == [oracleQueryId : QueryIds, oracleInterfaceIndex : Interfaces]

CacheEntry == [payloadData : Payloads, errorFlag : ErrorFlags, timeStamp : Nat]

Config == [enabled : BOOLEAN, ttlSeconds : Nat, maxEntries : Nat, cleanUpIntervalSec : Nat]

ASSUME CacheAssumption ==
    /\ Configs \subseteq Config
    /\ MaxTime \in Nat
    /\ MaxLookups \in Nat
    /\ 0 \in ErrorFlags

ASSUME NoEntryAssumption == NoEntry \notin CacheEntry

VARIABLES _config,          \* fixed by the constructor
          _cacheStorage,    \* the map, total over CacheKey
          _totalRequests,
          _cacheHits,
          _cacheMisses,
          _lastCleanupTime,
          now,              \* steady_clock, in half seconds
          answer,           \* outcome of the operation just executed
          written           \* history: the entry last stored for each key and
                            \* not cleared since

stats == <<_totalRequests, _cacheHits, _cacheMisses>>
vars == <<_config, _cacheStorage, stats, _lastCleanupTime, now, answer, written>>

\* The clock resolution: duration_cast<seconds> truncates what is below.
TicksPerSecond == 2
Seconds(from) == (now - from) \div TicksPerSecond

Quiet == [kind |-> "none"]
Miss(k) == [kind |-> "miss", key |-> k]
Hit(k, e) == [kind |-> "hit", key |-> k, entry |-> e]

TypeOK ==
    /\ _config \in Configs
    /\ _cacheStorage \in [CacheKey -> CacheEntry \cup {NoEntry}]
    /\ _totalRequests \in Nat /\ _cacheHits \in Nat /\ _cacheMisses \in Nat
    /\ _lastCleanupTime \in Nat
    /\ now \in Nat
    /\ answer \in {Quiet} \cup [kind : {"miss"}, key : CacheKey]
                          \cup [kind : {"hit"}, key : CacheKey, entry : CacheEntry]
    /\ written \in [CacheKey -> CacheEntry \cup {NoEntry}]

Present(storage) == {k \in CacheKey : storage[k] # NoEntry}

Without(storage, K) == [k \in CacheKey |-> IF k \in K THEN NoEntry ELSE storage[k]]

Init ==
    /\ _config \in Configs
    /\ _cacheStorage = [k \in CacheKey |-> NoEntry]
    /\ _totalRequests = 0 /\ _cacheHits = 0 /\ _cacheMisses = 0
    /\ _lastCleanupTime = 0
    /\ now = 0
    /\ answer = Quiet
    /\ written = [k \in CacheKey |-> NoEntry]
-------------------------------------------------------------------------------
\* Mutant: an entry as old as the TTL still counts as valid.
isValidInclusive(entry) == Seconds(entry.timeStamp) <= _config.ttlSeconds

isValid(entry) == Seconds(entry.timeStamp) < _config.ttlSeconds

cleanupExpired(storage) ==
    Without(storage, {k \in Present(storage) : ~isValid(storage[k])})

CleanupDue == Seconds(_lastCleanupTime) >= _config.cleanUpIntervalSec

\* Mutant: the periodic clean-up is forgotten.
SweptNever == _cacheStorage

\* The storage a lookup searches, after its periodic clean-up.
Swept == IF CleanupDue THEN cleanupExpired(_cacheStorage) ELSE _cacheStorage

\* Mutant: the early return of a disabled cache reports a hit.
LookupDisabledHit(key) ==
    /\ ~_config.enabled
    /\ _cacheHits' = _cacheHits + 1
    /\ answer' = Hit(key, _cacheStorage[key])
    /\ UNCHANGED <<_cacheStorage, _cacheMisses, _lastCleanupTime>>

LookupDisabled(key) ==
    /\ ~_config.enabled
    /\ _cacheMisses' = _cacheMisses + 1
    /\ answer' = Miss(key)
    /\ UNCHANGED <<_cacheStorage, _cacheHits, _lastCleanupTime>>

\* Mutant: an expired entry is renewed instead of removed.
LookupRenewing(key) ==
    /\ _config.enabled
    /\ _lastCleanupTime' = _lastCleanupTime
    /\ \/ /\ _cacheStorage[key] = NoEntry
          /\ answer' = Miss(key)
          /\ _cacheMisses' = _cacheMisses + 1
          /\ UNCHANGED <<_cacheStorage, _cacheHits>>
       \/ /\ _cacheStorage[key] # NoEntry
          /\ _cacheStorage' = [_cacheStorage EXCEPT ![key].timeStamp = now]
          /\ answer' = Hit(key, _cacheStorage'[key])
          /\ _cacheHits' = _cacheHits + 1
          /\ UNCHANGED _cacheMisses

LookupEnabled(key) ==
    /\ _config.enabled
    /\ _lastCleanupTime' = IF CleanupDue THEN now ELSE _lastCleanupTime
    /\ \/ /\ Swept[key] = NoEntry
          /\ _cacheStorage' = Swept
          /\ answer' = Miss(key)
          /\ _cacheMisses' = _cacheMisses + 1
          /\ UNCHANGED _cacheHits
       \/ /\ Swept[key] # NoEntry
          /\ ~isValid(Swept[key])
          /\ _cacheStorage' = Without(Swept, {key})
          /\ answer' = Miss(key)
          /\ _cacheMisses' = _cacheMisses + 1
          /\ UNCHANGED _cacheHits
       \/ /\ Swept[key] # NoEntry
          /\ isValid(Swept[key])
          /\ _cacheStorage' = Swept
          /\ answer' = Hit(key, Swept[key])
          /\ _cacheHits' = _cacheHits + 1
          /\ UNCHANGED _cacheMisses

lookup(key) ==
    /\ _totalRequests < MaxLookups
    /\ _totalRequests' = _totalRequests + 1
    /\ LookupDisabled(key) \/ LookupEnabled(key)
    /\ UNCHANGED <<_config, now, written>>
-------------------------------------------------------------------------------
\* Mutant: the comparison is the wrong way round.
Newest(storage) ==
    {k \in Present(storage) :
        \A j \in Present(storage) : storage[k].timeStamp >= storage[j].timeStamp}

\* The entries removeOldest may pick.  The strict comparison keeps the first
\* of several equally old ones, in the unspecified order of unordered_map.
Oldest(storage) ==
    {k \in Present(storage) :
        \A j \in Present(storage) : storage[k].timeStamp <= storage[j].timeStamp}

\* The storages removeOldest may leave; an empty map has no entry to erase.
removeOldest(storage) ==
    IF Present(storage) = {} THEN {storage}
    ELSE {Without(storage, {k}) : k \in Oldest(storage)}

\* Mutant: the full test is off by one.
MakeRoomLate(storage) ==
    IF Cardinality(Present(storage)) > _config.maxEntries THEN removeOldest(storage) ELSE {storage}

\* The storages store may insert into: at capacity one entry is evicted first,
\* whether or not the key is already there.
MakeRoom(storage) ==
    IF Cardinality(Present(storage)) >= _config.maxEntries THEN removeOldest(storage) ELSE {storage}

\* A disabled cache and an error reply are early returns that change nothing.
StoreIgnored(error_flags) ==
    /\ ~_config.enabled \/ error_flags # 0
    /\ UNCHANGED <<_cacheStorage, written>>

StoreInserted(key, payload, error_flags) ==
    LET entry == [payloadData |-> payload, errorFlag |-> error_flags, timeStamp |-> now]
    IN  /\ _config.enabled /\ error_flags = 0
        /\ \E room \in MakeRoom(_cacheStorage) :
               _cacheStorage' = [room EXCEPT ![key] = entry]
        /\ written' = [written EXCEPT ![key] = entry]

store(key, payload, error_flags) ==
    /\ StoreIgnored(error_flags) \/ StoreInserted(key, payload, error_flags)
    /\ answer' = Quiet
    /\ UNCHANGED <<_config, stats, _lastCleanupTime, now>>

Forget(K) ==
    /\ _cacheStorage' = Without(_cacheStorage, K)
    /\ written' = Without(written, K)
    /\ answer' = Quiet
    /\ UNCHANGED <<_config, stats, _lastCleanupTime, now>>

clear == Forget(CacheKey)

cleanInterface(interface_index) ==
    Forget({k \in CacheKey : k.oracleInterfaceIndex = interface_index})

\* steady_clock advances by an arbitrary amount while no operation runs.
Tick ==
    /\ \E t \in now + 1 .. MaxTime : now' = t
    /\ answer' = Quiet
    /\ UNCHANGED <<_config, _cacheStorage, stats, _lastCleanupTime, written>>

Next ==
    \/ \E key \in CacheKey : lookup(key)
    \/ \E key \in CacheKey, payload \in Payloads, e \in ErrorFlags : store(key, payload, e)
    \/ clear
    \/ \E i \in Interfaces : cleanInterface(i)
    \/ Tick

Spec == Init /\ [][Next]_vars
-------------------------------------------------------------------------------
(* Properties *)

\* A lookup that hits returns exactly the entry last stored for its own key
\* since the key was last cleared, that entry is younger than the TTL, and it is
\* never an error reply (lookup, store, isValid, clear, cleanInterface).
HitIsLatestFreshReply ==
    answer.kind = "hit" =>
        /\ written[answer.key] = answer.entry
        /\ now - answer.entry.timeStamp < _config.ttlSeconds * TicksPerSecond
        /\ answer.entry.errorFlag = 0

\* The map never outgrows maxEntries; maxEntries = 0 still keeps one entry,
\* because removeOldest on an empty map erases nothing and store inserts anyway.
SizeBounded ==
    Cardinality(Present(_cacheStorage)) <= IF _config.maxEntries = 0 THEN 1 ELSE _config.maxEntries

\* Clean-up rides on lookups only: right after any lookup no entry, whatever
\* key was asked for, is older than the TTL plus one clean-up interval.
LookupsBoundStaleness ==
    _config.enabled /\ answer.kind # "none" =>
        \A k \in Present(_cacheStorage) :
            now - _cacheStorage[k].timeStamp
                < (_config.ttlSeconds + _config.cleanUpIntervalSec) * TicksPerSecond

\* A reply that is still valid leaves the cache only on an explicit clear of its
\* key, or as the oldest entry of a cache that is full when another reply is
\* stored: neither a lookup nor the passing of time evicts it.
ValidLeavesOnlyWhenFull ==
    [][\A k \in Present(_cacheStorage) :
          isValid(_cacheStorage[k]) /\ _cacheStorage'[k] = NoEntry =>
              \/ written'[k] = NoEntry
              \/ /\ Cardinality(Present(_cacheStorage)) >= _config.maxEntries
                 /\ \A j \in Present(_cacheStorage) :
                        _cacheStorage[k].timeStamp <= _cacheStorage[j].timeStamp]_vars

\* The cache as its caller sees it: the valid entries' payloads.
Visible == [k \in CacheKey |->
               IF _cacheStorage[k] # NoEntry /\ isValid(_cacheStorage[k])
               THEN _cacheStorage[k].payloadData ELSE NoEntry]

VisibleAnswer ==
    [key |-> IF answer.kind = "none" THEN NoEntry ELSE answer.key,
     reply |-> IF answer.kind = "hit" THEN answer.entry.payloadData ELSE NoEntry]

Caller == INSTANCE ReplyCache WITH
              Key <- CacheKey, Reply <- Payloads, NoReply <- NoEntry,
              content <- Visible, answer <- VisibleAnswer

\* Clock, TTL, clean-up and eviction together never do more than forget: only a
\* store brings a reply in, for its own key, and no lookup revives or alters one
\* (lookup, store, clear, cleanInterface implement ReplyCache).
ImplementsReplyCache == Caller!Spec
===============================================================================
