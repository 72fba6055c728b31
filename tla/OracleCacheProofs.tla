--------------------------- MODULE OracleCacheProofs ---------------------------
(***************************************************************************)
(* OracleCache for any keys, payloads, configurations and any number of    *)
(* operations: what a hit returns, how large the map grows, and how long   *)
(* an expired entry can stay.                                              *)
(***************************************************************************)
EXTENDS OracleCache, FiniteSetTheorems, TLAPS

\* What is in the map was stored last for its key, and was no error reply.
Entries ==
    \A k \in Present(_cacheStorage) :
        /\ _cacheStorage[k] = written[k]
        /\ _cacheStorage[k].errorFlag = 0
        /\ _cacheStorage[k].timeStamp <= now

\* An entry was valid at the last clean-up, or was stored since.
Cleaned ==
    /\ _lastCleanupTime <= now
    /\ \A k \in Present(_cacheStorage) :
           \/ _lastCleanupTime - _cacheStorage[k].timeStamp < _config.ttlSeconds * TicksPerSecond
           \/ _lastCleanupTime <= _cacheStorage[k].timeStamp

\* The cache is finite and within its bound.
Sized == IsFiniteSet(Present(_cacheStorage)) /\ SizeBounded

\* What lookups have returned.
Answered == HitIsLatestFreshReply /\ LookupsBoundStaleness

\* The inductive invariant.
IInv == TypeOK /\ Entries /\ Cleaned /\ Sized /\ Answered

\* Truncation to seconds does not lengthen the TTL.
LEMMA Truncation ==
    ASSUME NEW a \in Int, NEW b \in Nat
    PROVE  (a \div TicksPerSecond < b) <=> (a < b * TicksPerSecond)
BY DEF TicksPerSecond

\* Erasing keys keeps the type and the other entries.
LEMMA Erased ==
    ASSUME NEW storage \in [CacheKey -> CacheEntry \cup {NoEntry}], NEW K
    PROVE  /\ Without(storage, K) \in [CacheKey -> CacheEntry \cup {NoEntry}]
           /\ Present(Without(storage, K)) = Present(storage) \ K
           /\ \A k \in Present(storage) \ K : Without(storage, K)[k] = storage[k]
BY DEF Without, Present

\* Erasing keys never makes the map larger.
LEMMA ErasedSize ==
    ASSUME NEW storage \in [CacheKey -> CacheEntry \cup {NoEntry}], NEW K,
           IsFiniteSet(Present(storage))
    PROVE  /\ IsFiniteSet(Present(Without(storage, K)))
           /\ Cardinality(Present(Without(storage, K))) \in Nat
           /\ Cardinality(Present(storage)) \in Nat
           /\ Cardinality(Present(Without(storage, K))) <= Cardinality(Present(storage))
<1>1. Present(Without(storage, K)) \subseteq Present(storage)
  BY Erased
<1> QED
  BY <1>1, FS_Subset, FS_CardinalityType

\* The clean-up of a lookup keeps valid entries only.
LEMMA SweptEntries ==
    ASSUME TypeOK
    PROVE  /\ Swept \in [CacheKey -> CacheEntry \cup {NoEntry}]
           /\ \E K : Swept = Without(_cacheStorage, K)
           /\ Present(Swept) \subseteq Present(_cacheStorage)
           /\ \A k \in Present(Swept) : Swept[k] = _cacheStorage[k]
           /\ CleanupDue => \A k \in Present(Swept) : isValid(Swept[k])
<1> DEFINE K == IF CleanupDue THEN {k \in Present(_cacheStorage) : ~isValid(_cacheStorage[k])}
                ELSE {}
<1> HIDE DEF K
<1>1. _cacheStorage \in [CacheKey -> CacheEntry \cup {NoEntry}]
  BY DEF TypeOK
<1>2. Without(_cacheStorage, {}) = _cacheStorage
  BY <1>1 DEF Without
<1>3. Swept = Without(_cacheStorage, K)
  BY <1>2 DEF Swept, K, cleanupExpired
<1>4. /\ Swept \in [CacheKey -> CacheEntry \cup {NoEntry}]
      /\ Present(Swept) = Present(_cacheStorage) \ K
      /\ \A k \in Present(_cacheStorage) \ K : Swept[k] = _cacheStorage[k]
  BY <1>1, <1>3, Erased
<1>5. CleanupDue => \A k \in Present(Swept) : isValid(Swept[k])
  <2> SUFFICES ASSUME CleanupDue, NEW k \in Present(Swept) PROVE isValid(Swept[k])
    OBVIOUS
  <2>1. k \in Present(_cacheStorage) /\ k \notin K
    BY <1>4
  <2>2. isValid(_cacheStorage[k])
    BY <2>1 DEF K
  <2> QED
    BY <1>4, <2>1, <2>2
<1> QED
  BY <1>3, <1>4, <1>5

\* What a lookup leaves in the map: entries it found there, all valid if the
\* clean-up was due.
LEMMA LookupStorage ==
    ASSUME TypeOK, NEW key \in CacheKey, LookupEnabled(key)
    PROVE  /\ \E K : _cacheStorage' = Without(_cacheStorage, K)
           /\ _cacheStorage' \in [CacheKey -> CacheEntry \cup {NoEntry}]
           /\ Present(_cacheStorage') \subseteq Present(Swept)
           /\ \A k \in Present(_cacheStorage') : _cacheStorage'[k] = Swept[k]
<1>1. PICK K : Swept = Without(_cacheStorage, K)
  BY SweptEntries
<1>2. Swept \in [CacheKey -> CacheEntry \cup {NoEntry}]
  BY SweptEntries
<1>3. CASE _cacheStorage' = Swept
  BY <1>1, <1>2, <1>3
<1>4. CASE _cacheStorage' = Without(Swept, {key})
  <2>1. Without(Swept, {key}) = Without(_cacheStorage, K \cup {key})
    BY <1>1 DEF Without
  <2>2. /\ Without(Swept, {key}) \in [CacheKey -> CacheEntry \cup {NoEntry}]
        /\ Present(Without(Swept, {key})) \subseteq Present(Swept)
        /\ \A k \in Present(Without(Swept, {key})) : Without(Swept, {key})[k] = Swept[k]
    BY <1>2, Erased
  <2> QED
    BY <1>4, <2>1, <2>2
<1> QED
  BY <1>3, <1>4, Zenon DEF LookupEnabled

\* The room store inserts into: a part of the map, with a place to spare.
LEMMA Room ==
    ASSUME TypeOK, Sized, NEW room \in MakeRoom(_cacheStorage)
    PROVE  /\ room \in [CacheKey -> CacheEntry \cup {NoEntry}]
           /\ Present(room) \subseteq Present(_cacheStorage)
           /\ \A k \in Present(room) : room[k] = _cacheStorage[k]
           /\ IsFiniteSet(Present(room))
           /\ Cardinality(Present(room)) + 1 <=
                  IF _config.maxEntries = 0 THEN 1 ELSE _config.maxEntries
<1> DEFINE n == Cardinality(Present(_cacheStorage))
<1>1. /\ _cacheStorage \in [CacheKey -> CacheEntry \cup {NoEntry}]
      /\ _config.maxEntries \in Nat
  BY CacheAssumption DEF TypeOK, Config
<1>2. n \in Nat /\ n <= IF _config.maxEntries = 0 THEN 1 ELSE _config.maxEntries
  BY FS_CardinalityType DEF Sized, SizeBounded
<1>3. CASE room = _cacheStorage /\ n < _config.maxEntries
  BY <1>1, <1>2, <1>3 DEF Sized
<1>4. CASE room = _cacheStorage /\ Present(_cacheStorage) = {}
  BY <1>1, <1>4, FS_EmptySet DEF Sized
<1>5. ASSUME NEW k \in Present(_cacheStorage), room = Without(_cacheStorage, {k})
      PROVE  /\ room \in [CacheKey -> CacheEntry \cup {NoEntry}]
             /\ Present(room) = Present(_cacheStorage) \ {k}
             /\ \A j \in Present(room) : room[j] = _cacheStorage[j]
             /\ IsFiniteSet(Present(room))
             /\ Cardinality(Present(room)) = n - 1
  <2>1. /\ room \in [CacheKey -> CacheEntry \cup {NoEntry}]
        /\ Present(room) = Present(_cacheStorage) \ {k}
        /\ \A j \in Present(room) : room[j] = _cacheStorage[j]
    BY <1>1, <1>5, Erased
  <2> QED
    BY <1>5, <2>1, FS_RemoveElement DEF Sized
<1>6. \/ room = _cacheStorage /\ n < _config.maxEntries
      \/ room = _cacheStorage /\ Present(_cacheStorage) = {}
      \/ \E k \in Present(_cacheStorage) : room = Without(_cacheStorage, {k})
  BY <1>1, <1>2 DEF MakeRoom, removeOldest, Oldest
<1>7. CASE \E k \in Present(_cacheStorage) : room = Without(_cacheStorage, {k})
  <2>1. PICK k \in Present(_cacheStorage) : room = Without(_cacheStorage, {k})
    BY <1>7
  <2>2. /\ room \in [CacheKey -> CacheEntry \cup {NoEntry}]
        /\ Present(room) = Present(_cacheStorage) \ {k}
        /\ \A j \in Present(room) : room[j] = _cacheStorage[j]
        /\ IsFiniteSet(Present(room))
        /\ Cardinality(Present(room)) = n - 1
    BY <1>5, <2>1
  <2> HIDE DEF n
  <2> QED
    BY <1>1, <1>2, <2>2
<1> QED
  BY <1>3, <1>4, <1>6, <1>7

\* Fewer entries, of the same or a smaller size, keep what is said of each and
\* of their number.
LEMMA Shrunk ==
    ASSUME TypeOK, Entries, Sized, NEW K, _cacheStorage' = Without(_cacheStorage, K)
    PROVE  /\ _cacheStorage' \in [CacheKey -> CacheEntry \cup {NoEntry}]
           /\ Present(_cacheStorage') = Present(_cacheStorage) \ K
           /\ \A k \in Present(_cacheStorage') : _cacheStorage'[k] = _cacheStorage[k]
           /\ UNCHANGED _config => Sized'
<1>1. _cacheStorage \in [CacheKey -> CacheEntry \cup {NoEntry}]
  BY DEF TypeOK
<1>2. /\ _cacheStorage' \in [CacheKey -> CacheEntry \cup {NoEntry}]
      /\ Present(_cacheStorage') = Present(_cacheStorage) \ K
      /\ \A k \in Present(_cacheStorage') : _cacheStorage'[k] = _cacheStorage[k]
  BY <1>1, Erased
<1>3. ASSUME UNCHANGED _config PROVE Sized'
  <2>1. _config.maxEntries \in Nat
    BY CacheAssumption DEF TypeOK, Config
  <2>2. /\ IsFiniteSet(Present(_cacheStorage'))
        /\ Cardinality(Present(_cacheStorage')) \in Nat
        /\ Cardinality(Present(_cacheStorage)) \in Nat
        /\ Cardinality(Present(_cacheStorage')) <= Cardinality(Present(_cacheStorage))
    BY <1>1, ErasedSize DEF Sized
  <2> QED
    BY <1>3, <2>1, <2>2 DEF Sized, SizeBounded, Present
<1> QED
  BY <1>2, <1>3

\* A lookup, with its clean-up, preserves IInv.
LEMMA LookupInduction ==
    ASSUME IInv, NEW key \in CacheKey, lookup(key)
    PROVE  IInv'
<1> USE DEF IInv
<1>1. CASE LookupDisabled(key)
  BY <1>1 DEF lookup, LookupDisabled, TypeOK, Entries, Cleaned, Sized, Answered, Present,
     SizeBounded, HitIsLatestFreshReply, LookupsBoundStaleness, Miss, isValid
<1>2. CASE LookupEnabled(key)
  <2>1. PICK K : _cacheStorage' = Without(_cacheStorage, K)
    BY <1>2, LookupStorage
  <2>2. /\ _cacheStorage' \in [CacheKey -> CacheEntry \cup {NoEntry}]
        /\ Present(_cacheStorage') \subseteq Present(_cacheStorage)
        /\ \A k \in Present(_cacheStorage') : _cacheStorage'[k] = _cacheStorage[k]
        /\ Sized'
    BY <2>1, Shrunk DEF lookup
  <2>3. TypeOK'
    <3>1. answer' \in [kind : {"miss"}, key : CacheKey]
                          \cup [kind : {"hit"}, key : CacheKey, entry : CacheEntry]
      BY <1>2, SweptEntries DEF LookupEnabled, Miss, Hit
    <3>2. _lastCleanupTime' \in Nat /\ _cacheHits' \in Nat /\ _cacheMisses' \in Nat
      BY <1>2 DEF LookupEnabled, TypeOK
    <3> QED
      BY <2>2, <3>1, <3>2 DEF TypeOK, lookup
  <2>4. Entries'
    BY <2>2 DEF Entries, lookup, Present
  <2>5. /\ _config.ttlSeconds \in Nat /\ _config.cleanUpIntervalSec \in Nat
        /\ now \in Nat /\ _lastCleanupTime \in Nat /\ _lastCleanupTime <= now
        /\ UNCHANGED <<_config, now, written>>
    BY CacheAssumption DEF TypeOK, Config, Cleaned, lookup
  <2>6. ASSUME NEW k \in Present(_cacheStorage')
        PROVE  /\ k \in Present(_cacheStorage)
               /\ _cacheStorage'[k] = _cacheStorage[k]
               /\ _cacheStorage[k].timeStamp \in Nat
               /\ CleanupDue =>
                    now - _cacheStorage[k].timeStamp < _config.ttlSeconds * TicksPerSecond
    <3>1. k \in Present(Swept) /\ k \in Present(_cacheStorage)
          /\ Swept[k] = _cacheStorage[k] /\ _cacheStorage'[k] = _cacheStorage[k]
      BY <1>2, <2>2, LookupStorage, SweptEntries
    <3>2. _cacheStorage[k].timeStamp \in Nat
      BY <3>1 DEF TypeOK, Present, CacheEntry
    <3>3. CleanupDue => isValid(_cacheStorage[k])
      BY <3>1, SweptEntries
    <3> QED
      BY <2>5, <3>1, <3>2, <3>3, Truncation DEF isValid, Seconds
  <2>7. Cleaned'
    <3>1. CASE CleanupDue
      BY <1>2, <2>5, <2>6, <3>1 DEF Cleaned, LookupEnabled
    <3>2. CASE ~CleanupDue
      BY <1>2, <2>5, <2>6, <3>2 DEF Cleaned, LookupEnabled
    <3> QED
      BY <3>1, <3>2
  <2>8. HitIsLatestFreshReply'
    <3> SUFFICES ASSUME answer'.kind = "hit" PROVE HitIsLatestFreshReply'
      BY DEF HitIsLatestFreshReply
    <3>1. Swept[key] # NoEntry /\ isValid(Swept[key]) /\ answer' = Hit(key, Swept[key])
      BY <1>2 DEF LookupEnabled, Miss
    <3>2. key \in Present(_cacheStorage) /\ Swept[key] = _cacheStorage[key]
      BY <3>1, SweptEntries DEF Present
    <3>3. _cacheStorage[key].timeStamp \in Nat
      BY <3>2 DEF TypeOK, Present, CacheEntry
    <3>4. now - _cacheStorage[key].timeStamp < _config.ttlSeconds * TicksPerSecond
      BY <2>5, <3>1, <3>2, <3>3, Truncation DEF isValid, Seconds
    <3>5. answer'.key = key /\ answer'.entry = _cacheStorage[key]
      BY <3>1, <3>2 DEF Hit
    <3>6. written[key] = _cacheStorage[key] /\ _cacheStorage[key].errorFlag = 0
      BY <3>2 DEF Entries
    <3> QED
      BY <2>5, <3>4, <3>5, <3>6 DEF HitIsLatestFreshReply
  <2>9. LookupsBoundStaleness'
    <3> SUFFICES ASSUME NEW k \in Present(_cacheStorage')
                 PROVE  now - _cacheStorage[k].timeStamp
                          < (_config.ttlSeconds + _config.cleanUpIntervalSec) * TicksPerSecond
      BY <2>5, <2>6 DEF LookupsBoundStaleness
    <3>1. CASE CleanupDue
      BY <2>5, <2>6, <3>1 DEF TicksPerSecond
    <3>2. CASE ~CleanupDue
      <4>1. now - _lastCleanupTime < _config.cleanUpIntervalSec * TicksPerSecond
        BY <2>5, <3>2 DEF CleanupDue, Seconds, TicksPerSecond
      <4> QED
        BY <2>5, <2>6, <4>1 DEF Cleaned, TicksPerSecond
    <3> QED
      BY <3>1, <3>2
  <2> QED
    BY <2>2, <2>3, <2>4, <2>7, <2>8, <2>9 DEF Answered
<1> QED
  BY <1>1, <1>2 DEF lookup

\* A store that is ignored, and one that evicts and inserts, preserve IInv.
LEMMA StoreInduction ==
    ASSUME IInv, NEW key \in CacheKey, NEW payload \in Payloads, NEW e \in ErrorFlags,
           store(key, payload, e)
    PROVE  IInv'
<1> USE DEF IInv
<1> DEFINE entry == [payloadData |-> payload, errorFlag |-> e, timeStamp |-> now]
<1>1. Answered'
  BY DEF store, Answered, HitIsLatestFreshReply, LookupsBoundStaleness, Quiet
<1>2. CASE StoreIgnored(e)
  BY <1>1, <1>2 DEF store, StoreIgnored, stats, TypeOK, Entries, Cleaned, Sized, SizeBounded,
     Present
<1>3. CASE StoreInserted(key, payload, e)
  <2>1. PICK room \in MakeRoom(_cacheStorage) : _cacheStorage' = [room EXCEPT ![key] = entry]
    BY <1>3 DEF StoreInserted
  <2>2. entry \in CacheEntry /\ entry # NoEntry
    BY NoEntryAssumption DEF TypeOK, CacheEntry
  <2>3. /\ room \in [CacheKey -> CacheEntry \cup {NoEntry}]
        /\ Present(room) \subseteq Present(_cacheStorage)
        /\ \A k \in Present(room) : room[k] = _cacheStorage[k]
        /\ IsFiniteSet(Present(room))
        /\ Cardinality(Present(room)) + 1 <=
               IF _config.maxEntries = 0 THEN 1 ELSE _config.maxEntries
    BY Room
  <2>4. /\ written' = [written EXCEPT ![key] = entry]
        /\ e = 0
        /\ UNCHANGED <<_config, stats, _lastCleanupTime, now>>
        /\ answer' = Quiet
    BY <1>3 DEF store, StoreInserted
  <2> HIDE DEF entry
  <2>5. TypeOK'
    BY <2>1, <2>2, <2>3, <2>4 DEF TypeOK, stats
  <2>6. Present(_cacheStorage') = Present(room) \cup {key}
    BY <2>1, <2>2, <2>3 DEF Present
  <2>7. Entries' /\ Cleaned'
    <3> SUFFICES ASSUME NEW k \in Present(_cacheStorage')
                 PROVE  /\ _cacheStorage'[k] = written'[k]
                        /\ _cacheStorage'[k].errorFlag = 0
                        /\ _cacheStorage'[k].timeStamp <= now
                        /\ \/ _lastCleanupTime - _cacheStorage'[k].timeStamp
                                < _config.ttlSeconds * TicksPerSecond
                           \/ _lastCleanupTime <= _cacheStorage'[k].timeStamp
      BY <2>4 DEF Entries, Cleaned
    <3>1. CASE k = key
      <4>1. _cacheStorage'[k] = entry /\ written'[k] = entry
        BY <2>1, <2>3, <2>4, <3>1 DEF TypeOK
      <4> QED
        BY <2>4, <4>1 DEF entry, TypeOK, Cleaned
    <3>2. CASE k # key
      <4>1. /\ k \in Present(_cacheStorage)
            /\ _cacheStorage'[k] = _cacheStorage[k] /\ written'[k] = written[k]
        BY <2>1, <2>3, <2>4, <2>6, <3>2 DEF TypeOK, Present
      <4> QED
        BY <4>1 DEF Entries, Cleaned
    <3> QED
      BY <3>1, <3>2
  <2>8. Sized'
    <3>1. /\ IsFiniteSet(Present(room) \cup {key})
          /\ Cardinality(Present(room)) \in Nat
          /\ Cardinality(Present(room) \cup {key}) \in Nat
          /\ Cardinality(Present(room) \cup {key}) <= Cardinality(Present(room)) + 1
      <4>1. /\ IsFiniteSet(Present(room) \cup {key})
            /\ \/ Cardinality(Present(room) \cup {key}) = Cardinality(Present(room))
               \/ Cardinality(Present(room) \cup {key}) = Cardinality(Present(room)) + 1
        BY <2>3, FS_AddElement
      <4>2. Cardinality(Present(room)) \in Nat /\ Cardinality(Present(room) \cup {key}) \in Nat
        BY <2>3, <4>1, FS_CardinalityType
      <4> QED
        BY <4>1, <4>2
    <3>2. _config.maxEntries \in Nat
      BY CacheAssumption DEF TypeOK, Config
    <3>3. IsFiniteSet(Present(_cacheStorage')) /\ Cardinality(Present(_cacheStorage')) <=
               IF _config.maxEntries = 0 THEN 1 ELSE _config.maxEntries
      BY <2>3, <2>6, <3>1, <3>2
    <3> QED
      BY <2>4, <3>3 DEF Sized, SizeBounded, Present
  <2> QED
    BY <1>1, <2>5, <2>7, <2>8
<1> QED
  BY <1>2, <1>3 DEF store

\* clear and cleanInterface preserve IInv.
LEMMA ForgetInduction ==
    ASSUME IInv, NEW K, Forget(K)
    PROVE  IInv'
<1> USE DEF IInv
<1>1. /\ _cacheStorage' \in [CacheKey -> CacheEntry \cup {NoEntry}]
      /\ Present(_cacheStorage') = Present(_cacheStorage) \ K
      /\ \A k \in Present(_cacheStorage') : _cacheStorage'[k] = _cacheStorage[k]
      /\ Sized'
  BY Shrunk DEF Forget
<1>2. /\ written' \in [CacheKey -> CacheEntry \cup {NoEntry}]
      /\ \A k \in CacheKey \ K : written'[k] = written[k]
  BY DEF Forget, Without, TypeOK
<1>3. TypeOK'
  BY <1>1, <1>2 DEF TypeOK, Forget, stats
<1>4. Entries' /\ Cleaned'
  BY <1>1, <1>2 DEF Entries, Cleaned, Forget, Present
<1>5. Answered'
  BY DEF Forget, Answered, HitIsLatestFreshReply, LookupsBoundStaleness, Quiet
<1> QED
  BY <1>1, <1>3, <1>4, <1>5

\* The passing of time preserves IInv.
LEMMA TickInduction ==
    ASSUME IInv, Tick
    PROVE  IInv'
<1> USE DEF IInv
<1>1. now' \in Nat /\ now <= now'
  BY CacheAssumption DEF Tick, TypeOK
<1>2. TypeOK'
  BY <1>1 DEF TypeOK, Tick, stats
<1>3. \A k \in Present(_cacheStorage) : _cacheStorage[k].timeStamp \in Nat
  BY DEF TypeOK, Present, CacheEntry
<1>4. Entries' /\ Cleaned' /\ Sized'
  BY <1>1, <1>3 DEF Entries, Cleaned, Sized, SizeBounded, Tick, Present, TypeOK
<1>5. Answered'
  BY DEF Tick, Answered, HitIsLatestFreshReply, LookupsBoundStaleness, Quiet
<1> QED
  BY <1>2, <1>4, <1>5

\* Every operation of the cache preserves IInv.
THEOREM Invariance == Spec => []IInv
<1>1. Init => IInv
  <2> SUFFICES ASSUME Init PROVE IInv
    OBVIOUS
  <2> USE DEF Init
  <2>1. TypeOK
    BY DEF TypeOK
  <2>2. Present(_cacheStorage) = {}
    BY DEF Present
  <2>3. IsFiniteSet({}) /\ Cardinality({}) = 0
    BY FS_EmptySet
  <2>4. Sized
    BY <2>2, <2>3, CacheAssumption DEF Sized, SizeBounded, Config
  <2>5. Entries /\ Cleaned
    BY <2>2 DEF Entries, Cleaned
  <2>6. Answered
    BY DEF Answered, HitIsLatestFreshReply, LookupsBoundStaleness, Quiet
  <2> QED
    BY <2>1, <2>4, <2>5, <2>6 DEF IInv
<1>2. IInv /\ [Next]_vars => IInv'
  <2> SUFFICES ASSUME IInv, [Next]_vars PROVE IInv'
    OBVIOUS
  <2>1. ASSUME NEW key \in CacheKey, lookup(key) PROVE IInv'
    BY <2>1, LookupInduction
  <2>2. ASSUME NEW key \in CacheKey, NEW payload \in Payloads, NEW e \in ErrorFlags,
               store(key, payload, e)
        PROVE IInv'
    BY <2>2, StoreInduction
  <2>3. CASE clear
    BY <2>3, ForgetInduction DEF clear
  <2>4. ASSUME NEW i \in Interfaces, cleanInterface(i) PROVE IInv'
    BY <2>4, ForgetInduction DEF cleanInterface
  <2>5. CASE Tick
    BY <2>5, TickInduction
  <2>6. CASE UNCHANGED vars
    BY <2>6 DEF vars, stats, IInv, TypeOK, Entries, Cleaned, Sized, SizeBounded, Answered,
       HitIsLatestFreshReply, LookupsBoundStaleness, Present
  <2> QED
    BY <2>1, <2>2, <2>3, <2>4, <2>5, <2>6 DEF Next
<1> QED
  BY <1>1, <1>2, PTL DEF Spec

\* Whatever the configuration, the state and the answer of the cache keep their
\* types; in particular a hit carries an entry (lookup).
THEOREM TypeCorrect == Spec => []TypeOK
<1>1. IInv => TypeOK
  BY DEF IInv
<1> QED
  BY <1>1, Invariance, PTL

\* A hit returns the reply last stored for its key, younger than the TTL and no
\* error (lookup, store, isValid, clear, cleanInterface).
THEOREM HitsLatestAndFresh == Spec => []HitIsLatestFreshReply
<1>1. IInv => HitIsLatestFreshReply
  BY DEF IInv, Answered
<1> QED
  BY <1>1, Invariance, PTL

\* The map never outgrows maxEntries, except for the one entry of maxEntries = 0
\* (store, removeOldest).
THEOREM SizeIsBounded == Spec => []SizeBounded
<1>1. IInv => SizeBounded
  BY DEF IInv, Sized
<1> QED
  BY <1>1, Invariance, PTL

\* After a lookup no entry is older than the TTL and a clean-up interval
\* (lookup, cleanupExpired).
THEOREM StalenessIsBounded == Spec => []LookupsBoundStaleness
<1>1. IInv => LookupsBoundStaleness
  BY DEF IInv, Answered
<1> QED
  BY <1>1, Invariance, PTL
-------------------------------------------------------------------------------
(* What may leave the cache, and the promise to the caller *)

\* A valid entry survives a lookup, whether or not its clean-up is due.
LEMMA ValidSurvivesLookup ==
    ASSUME TypeOK, NEW key \in CacheKey, lookup(key),
           NEW k \in Present(_cacheStorage), isValid(_cacheStorage[k])
    PROVE  _cacheStorage'[k] = _cacheStorage[k]
<1>1. k \in CacheKey /\ _cacheStorage[k] # NoEntry
  BY DEF Present
<1>2. CASE LookupDisabled(key)
  BY <1>2 DEF LookupDisabled
<1>3. CASE LookupEnabled(key)
  <2>1. Swept[k] = _cacheStorage[k]
    BY <1>1 DEF Swept, cleanupExpired, Without
  <2>2. CASE _cacheStorage' = Swept
    BY <2>1, <2>2
  <2>3. CASE _cacheStorage' = Without(Swept, {key}) /\ ~isValid(Swept[key])
    <3>1. k # key
      BY <2>1, <2>3
    <3> QED
      BY <1>1, <2>1, <2>3, <3>1 DEF Without
  <2> QED
    BY <1>3, <2>2, <2>3, Zenon DEF LookupEnabled
<1> QED
  BY <1>2, <1>3 DEF lookup

\* A store takes no entry away but the oldest of a full cache.
LEMMA StoreEvictsOldest ==
    ASSUME TypeOK, NEW key \in CacheKey, NEW payload \in Payloads, NEW e \in ErrorFlags,
           store(key, payload, e), NEW k \in Present(_cacheStorage), _cacheStorage'[k] = NoEntry
    PROVE  /\ Cardinality(Present(_cacheStorage)) >= _config.maxEntries
           /\ \A j \in Present(_cacheStorage) :
                  _cacheStorage[k].timeStamp <= _cacheStorage[j].timeStamp
<1> DEFINE entry == [payloadData |-> payload, errorFlag |-> e, timeStamp |-> now]
<1>1. k \in CacheKey /\ _cacheStorage[k] # NoEntry
  BY DEF Present
<1>2. StoreInserted(key, payload, e)
  BY <1>1 DEF store, StoreIgnored
<1>3. PICK room \in MakeRoom(_cacheStorage) : _cacheStorage' = [room EXCEPT ![key] = entry]
  BY <1>2 DEF StoreInserted
<1>4. _cacheStorage \in [CacheKey -> CacheEntry \cup {NoEntry}] /\ entry # NoEntry
  BY NoEntryAssumption DEF TypeOK, CacheEntry
<1> HIDE DEF entry
<1>5. CASE room = _cacheStorage
  BY <1>1, <1>3, <1>4, <1>5
<1>6. ASSUME NEW j \in Oldest(_cacheStorage), room = Without(_cacheStorage, {j}),
             Cardinality(Present(_cacheStorage)) >= _config.maxEntries
      PROVE  /\ Cardinality(Present(_cacheStorage)) >= _config.maxEntries
             /\ k \in Oldest(_cacheStorage)
  BY <1>1, <1>3, <1>4, <1>6 DEF Without
<1>7. k \in Oldest(_cacheStorage) /\ Cardinality(Present(_cacheStorage)) >= _config.maxEntries
  BY <1>5, <1>6, <1>1, <1>3, <1>4 DEF MakeRoom, removeOldest
<1> QED
  BY <1>7 DEF Oldest

\* A reply that is still valid is lost to a clear of its key or to a store in a
\* full cache, never to a lookup or to time (lookup, store, removeOldest).
THEOREM ValidLeavesWhenFull == Spec => ValidLeavesOnlyWhenFull
<1>1. ASSUME TypeOK, [Next]_vars
      PROVE  [\A k \in Present(_cacheStorage) :
                  isValid(_cacheStorage[k]) /\ _cacheStorage'[k] = NoEntry =>
                      \/ written'[k] = NoEntry
                      \/ /\ Cardinality(Present(_cacheStorage)) >= _config.maxEntries
                         /\ \A j \in Present(_cacheStorage) :
                                _cacheStorage[k].timeStamp <= _cacheStorage[j].timeStamp]_vars
  <2> SUFFICES ASSUME NEW k \in Present(_cacheStorage), isValid(_cacheStorage[k]),
                      _cacheStorage'[k] = NoEntry, Next
               PROVE  \/ written'[k] = NoEntry
                      \/ /\ Cardinality(Present(_cacheStorage)) >= _config.maxEntries
                         /\ \A j \in Present(_cacheStorage) :
                                _cacheStorage[k].timeStamp <= _cacheStorage[j].timeStamp
    BY <1>1
  <2>1. k \in CacheKey /\ _cacheStorage[k] # NoEntry
    BY DEF Present
  <2>2. ~ \E key \in CacheKey : lookup(key)
    BY <1>1, <2>1, ValidSurvivesLookup
  <2>3. ASSUME NEW K, Forget(K) PROVE written'[k] = NoEntry
    BY <2>1, <2>3 DEF Forget, Without
  <2>4. ~Tick
    BY <2>1 DEF Tick
  <2> QED
    BY <1>1, <2>2, <2>3, <2>4, StoreEvictsOldest DEF Next, clear, cleanInterface
<1> QED
  BY <1>1, TypeCorrect, PTL DEF Spec, ValidLeavesOnlyWhenFull

\* A cache that is switched off holds nothing.
Off == _config.enabled \/ Present(_cacheStorage) = {}

\* A cache that is disabled never holds an entry (StoreIgnored).
LEMMA OffStaysEmpty == Spec => []Off
<1>1. Init => Off
  BY DEF Init, Off, Present
<1>2. ASSUME TypeOK, Off, [Next]_vars PROVE Off'
  <2> USE <1>2
  <2>1. ASSUME NEW key \in CacheKey, lookup(key) PROVE Off'
    BY <2>1 DEF Off, lookup, LookupDisabled, LookupEnabled, Present
  <2>2. ASSUME NEW key \in CacheKey, NEW payload \in Payloads, NEW e \in ErrorFlags,
               store(key, payload, e)
        PROVE Off'
    BY <2>2 DEF Off, store, StoreIgnored, StoreInserted, Present
  <2>3. ASSUME NEW K, Forget(K) PROVE Off'
    BY <2>3, Erased DEF Off, Forget, TypeOK, Present, Without
  <2>4. CASE Tick \/ UNCHANGED vars
    BY <2>4 DEF Off, Tick, vars, Present
  <2> QED
    BY <2>1, <2>2, <2>3, <2>4 DEF Next, clear, cleanInterface
<1> QED
  BY <1>1, <1>2, TypeCorrect, PTL DEF Spec

\* What is too old stays too old.
LEMMA Aging ==
    ASSUME NEW a \in Nat, NEW b \in Nat, NEW t \in Nat, NEW ttl \in Nat, a <= b,
           (b - t) \div TicksPerSecond < ttl
    PROVE  (a - t) \div TicksPerSecond < ttl
BY DEF TicksPerSecond

\* An entry that time has not touched is no more visible later than it was before.
LEMMA NoRevival ==
    ASSUME TypeOK, TypeOK', UNCHANGED _config, now <= now',
           NEW k \in CacheKey, _cacheStorage'[k] \in {_cacheStorage[k], NoEntry}
    PROVE  Visible'[k] \in {Visible[k], NoEntry}
<1>1. CASE _cacheStorage'[k] = NoEntry
  BY <1>1 DEF Visible
<1>2. CASE _cacheStorage'[k] = _cacheStorage[k] /\ _cacheStorage[k] # NoEntry
  <2> DEFINE t == _cacheStorage[k].timeStamp
             ttl == _config.ttlSeconds
  <2>1. t \in Nat /\ ttl \in Nat /\ now \in Nat /\ now' \in Nat
    BY <1>2, CacheAssumption DEF TypeOK, CacheEntry, Config
  <2>2. (now' - t) \div TicksPerSecond < ttl => (now - t) \div TicksPerSecond < ttl
    BY <2>1, Aging
  <2>3. Visible'[k] = IF (now' - t) \div TicksPerSecond < ttl
                      THEN _cacheStorage[k].payloadData ELSE NoEntry
    BY <1>2 DEF Visible, isValid, Seconds
  <2>4. Visible[k] = IF (now - t) \div TicksPerSecond < ttl
                     THEN _cacheStorage[k].payloadData ELSE NoEntry
    BY <1>2 DEF Visible, isValid, Seconds
  <2> HIDE DEF t, ttl
  <2> QED
    BY <2>2, <2>3, <2>4
<1> QED
  BY <1>1, <1>2

\* A step that adds nothing to the map is one that forgets.
LEMMA Forgets ==
    ASSUME TypeOK, TypeOK', UNCHANGED _config, now <= now',
           \A k \in CacheKey : _cacheStorage'[k] \in {_cacheStorage[k], NoEntry}
    PROVE  Visible' \in Caller!Forgetting({})
<1>1. Visible' \in Caller!Contents
  <2>1. ASSUME NEW k \in CacheKey, _cacheStorage'[k] # NoEntry
        PROVE  _cacheStorage'[k].payloadData \in Payloads
    BY <2>1 DEF TypeOK, CacheEntry
  <2> QED
    BY <2>1 DEF Visible, Caller!Contents
<1> QED
  BY <1>1, NoRevival DEF Caller!Forgetting

\* A lookup, sweep included, is a lookup of the abstract cache after it has forgotten what expired.
LEMMA LookupImplements ==
    ASSUME TypeOK, TypeOK', Off, NEW key \in CacheKey, lookup(key)
    PROVE  Caller!Lookup(key)
<1>1. UNCHANGED <<_config, now>> /\ now \in Nat
  BY DEF lookup, TypeOK
<1>2. CASE LookupDisabled(key)
  <2>1. _cacheStorage' = _cacheStorage /\ answer' = Miss(key) /\ _cacheStorage[key] = NoEntry
    BY <1>2 DEF LookupDisabled, Off, Present
  <2>2. Visible' \in Caller!Forgetting({})
    BY <1>1, <2>1, Forgets
  <2>3. VisibleAnswer' = [key |-> key, reply |-> NoEntry] /\ Visible'[key] = NoEntry
    BY <2>1 DEF VisibleAnswer, Miss, Visible
  <2> QED
    BY <2>2, <2>3 DEF Caller!Lookup
<1>3. CASE LookupEnabled(key)
  <2>1. PICK K : _cacheStorage' = Without(_cacheStorage, K)
    BY <1>3, LookupStorage
  <2>2. Visible' \in Caller!Forgetting({})
    BY <1>1, <2>1, Forgets DEF Without
  <2>3. CASE answer' = Miss(key) /\ _cacheStorage'[key] = NoEntry
    BY <2>2, <2>3 DEF VisibleAnswer, Miss, Visible, Caller!Lookup
  <2>4. CASE /\ answer' = Hit(key, Swept[key]) /\ _cacheStorage' = Swept
             /\ Swept[key] # NoEntry /\ isValid(Swept[key])
    <3>1. Visible'[key] = Swept[key].payloadData
      BY <1>1, <2>4 DEF Visible, isValid, Seconds
    <3>2. VisibleAnswer' = [key |-> key, reply |-> Swept[key].payloadData]
      BY <2>4 DEF VisibleAnswer, Hit
    <3> QED
      BY <2>2, <3>1, <3>2 DEF Caller!Lookup
  <2>5. Without(Swept, {key})[key] = NoEntry
    BY DEF Without
  <2> QED
    BY <1>3, <2>3, <2>4, <2>5 DEF LookupEnabled
<1> QED
  BY <1>2, <1>3 DEF lookup

\* A store puts its reply in place, unless it is ignored or the TTL is zero.
LEMMA StoreImplements ==
    ASSUME TypeOK, TypeOK', Sized, NEW key \in CacheKey, NEW payload \in Payloads,
           NEW e \in ErrorFlags, store(key, payload, e)
    PROVE  Caller!Drop \/ Caller!Put(key, payload)
<1> DEFINE entry == [payloadData |-> payload, errorFlag |-> e, timeStamp |-> now]
<1>1. UNCHANGED <<_config, now>> /\ now \in Nat
  BY DEF store, TypeOK
<1>2. VisibleAnswer' = Caller!Quiet
  BY DEF store, VisibleAnswer, Quiet, Caller!Quiet
<1>3. CASE StoreIgnored(e)
  BY <1>1, <1>2, <1>3, Forgets DEF StoreIgnored, Caller!Drop
<1>4. CASE StoreInserted(key, payload, e)
  <2>1. PICK room \in MakeRoom(_cacheStorage) : _cacheStorage' = [room EXCEPT ![key] = entry]
    BY <1>4 DEF StoreInserted
  <2>2. /\ room \in [CacheKey -> CacheEntry \cup {NoEntry}]
        /\ \A k \in Present(room) : room[k] = _cacheStorage[k]
    BY Room
  <2>3. ASSUME NEW k \in CacheKey, k # key
        PROVE  Visible'[k] \in {Visible[k], NoEntry}
    <3>1. _cacheStorage'[k] \in {_cacheStorage[k], NoEntry}
      BY <2>1, <2>2, <2>3 DEF Present
    <3> QED
      BY <1>1, <3>1, NoRevival
  <2>4. Visible'[key] \in {payload, NoEntry}
    <3>1. _cacheStorage'[key].payloadData = payload
      BY <2>1, <2>2
    <3> QED
      BY <3>1 DEF Visible
  <2>5. Visible' \in Caller!Contents
    <3>1. ASSUME NEW k \in CacheKey, _cacheStorage'[k] # NoEntry
          PROVE  _cacheStorage'[k].payloadData \in Payloads
      BY <3>1 DEF TypeOK, CacheEntry
    <3> QED
      BY <3>1 DEF Visible, Caller!Contents
  <2> QED
    BY <1>2, <2>3, <2>4, <2>5 DEF Caller!Drop, Caller!Put, Caller!Forgetting
<1> QED
  BY <1>3, <1>4 DEF store

\* lookup, store, clear, cleanInterface and the clock together do no more than
\* ReplyCache allows: nothing is invented, altered or revived.
THEOREM Refinement == Spec => ImplementsReplyCache
<1>1. Init => Caller!Init
  BY DEF Init, Caller!Init, Visible, VisibleAnswer, Quiet, Caller!Quiet
<1>2. ASSUME IInv, IInv', Off, [Next]_vars
      PROVE  [Caller!Next]_<<Visible, VisibleAnswer>>
  <2> USE <1>2
  <2>1. TypeOK /\ TypeOK' /\ Sized
    BY DEF IInv
  <2>2. ASSUME NEW key \in CacheKey, lookup(key) PROVE Caller!Next
    BY <2>1, <2>2, LookupImplements DEF Caller!Next
  <2>3. ASSUME NEW key \in CacheKey, NEW payload \in Payloads, NEW e \in ErrorFlags,
               store(key, payload, e)
        PROVE  Caller!Next
    BY <2>1, <2>3, StoreImplements DEF Caller!Next
  <2>4. ASSUME NEW K, Forget(K) PROVE Caller!Drop
    <3>1. /\ UNCHANGED _config /\ now <= now'
          /\ \A k \in CacheKey : _cacheStorage'[k] \in {_cacheStorage[k], NoEntry}
      BY <2>1, <2>4 DEF Forget, Without, TypeOK
    <3>2. VisibleAnswer' = Caller!Quiet
      BY <2>4 DEF Forget, VisibleAnswer, Quiet, Caller!Quiet
    <3> QED
      BY <2>1, <3>1, <3>2, Forgets DEF Caller!Drop
  <2>5. CASE Tick
    <3>1. UNCHANGED <<_config, _cacheStorage>> /\ now <= now'
      BY <2>1, <2>5, CacheAssumption DEF Tick, TypeOK
    <3>2. VisibleAnswer' = Caller!Quiet
      BY <2>5 DEF Tick, VisibleAnswer, Quiet, Caller!Quiet
    <3> QED
      BY <2>1, <3>1, <3>2, Forgets DEF Caller!Drop, Caller!Next
  <2>6. CASE UNCHANGED vars
    BY <2>6 DEF vars, Visible, VisibleAnswer, isValid, Seconds
  <2> QED
    BY <2>2, <2>3, <2>4, <2>5, <2>6 DEF Next, clear, cleanInterface, Caller!Next
<1> QED
  BY <1>1, <1>2, Invariance, OffStaysEmpty, PTL DEF Spec, ImplementsReplyCache, Caller!Spec
===============================================================================
