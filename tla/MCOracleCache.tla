----------------------------- MODULE MCOracleCache -----------------------------
(* Small instances of OracleCache. *)
EXTENDS OracleCache, TLC

\* Three keys for two places, so that evictions and overwrites at capacity occur;
\* the boundary maxEntries = 0; a TTL of zero; a disabled cache.
MCConfigs == {[enabled |-> TRUE, ttlSeconds |-> 1, maxEntries |-> 2, cleanUpIntervalSec |-> 1],
              [enabled |-> TRUE, ttlSeconds |-> 0, maxEntries |-> 0, cleanUpIntervalSec |-> 1],
              [enabled |-> FALSE, ttlSeconds |-> 1, maxEntries |-> 2, cleanUpIntervalSec |-> 1]}

\* Queries, interfaces and payloads are told apart by equality only.
MCSymmetry == Permutations(QueryIds) \cup Permutations(Interfaces) \cup Permutations(Payloads)
===============================================================================
