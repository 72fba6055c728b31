# Verification of the Qubic oracle machine

TLA+ models of the oracle machine, the properties TLC checks on small instances
of them, and theorems TLAPS proves for every value of their constants.
`PROJECT.json` maps each definition to the lines it models, and lists the runs,
the mutants that show each property can fail, the hazards and the findings.

## The system

    core node --TCP--> NodeConnection -> RequestHandler -> OracleCache
                        (TcpServer)            |
                                        InterfaceClient --TCP--> oracle service
                                        (one per interface)      (TcpServer or Python)
                                                                       |
                                                              exchanges, RPC endpoints

A core node sends an `OracleMachineQuery`.  A session thread of the server hands
it to `RequestHandler`, which looks in the cache, and otherwise queues it at the
client of its interface and blocks.  The client's worker thread exchanges queries
for replies over one connection, strictly one after the other.  The service at
the other end works out the reply: a price, an EVM log, a Qubic log, a verdict on a
Doge share.  The reply is compared with the query id, cached and sent back.

### Inventory

| Part | Source | Module | |
|---|---|---|---|
| OracleCache | `node/src/oracle_cache.*` | `OracleCache`, `ReplyCache` | modelled, proved |
| InterfaceClient | `node/src/interface_client.*` | `InterfaceClient` | modelled, proved |
| TcpServer | `libs/om_network/src/tcp_server.cpp` | `TcpServer` | modelled, proved |
| Session, TcpClient | `libs/om_network/src/` | `OracleSession` and the two above | partly, proved |
| RequestHandler, NodeConnection, OracleMachineNode | `node/src/` | `OracleMachineNode`, `QueryService`, `OracleSession` | modelled (composition) but for the whitelist, proved |
| BaseOracleService | `oracles/core/` | `OracleSession` | partly, proved |
| Price service | `oracles/price/src/` | `PriceService`, `PriceArithmetic` | partly, proved |
| read_evm_log | `oracles/read_evm_log/` | `ReadEvmLog`, `OracleSession` | modelled, proved |
| read_qubic_log | `oracles/read_qubic_log/` | `ReadQubicLog`, `OracleSession` | modelled, proved |
| Doge share validation | `oracles/doge_share_validation/src/doge_service.cpp` | `DogeShare` | modelled, proved |
| scrypt | `oracles/doge_share_validation/src/scrypt.c` | `Sha256`, `Smix`, `ROMix` | streaming and mixing, proved |
| Test node | `tools/qubic_test_node/` | `TestNode` | modelled but for its options, proved |
| Mock service, Config, Logger, docker | | - | no state over time, or output only |

### Plan

What could come next: several interface clients in the composition;
`NodeConnection`'s whitelist; `dateTimeToUnixMs` and `normalizeOracleId`; HMAC and
PBKDF2 on top of `Sha256`.

## Modules

**`OracleCache`** - `_cacheStorage` is a function from keys to entries; `lookup`,
`store`, `clear` and `cleanInterface` are actions, each the whole locked body:
`lookup` includes the periodic sweep, `store` the eviction.  `Seconds` truncates as
`duration_cast` does.  `written` and `answer` are history.  Time passes between
operations, not inside one.  `ReplyCache` is the promise to the caller: a lookup
gives what was stored for the key, or nothing; entries may vanish at any time.

**`InterfaceClient`** - callers run `query` (`QueryEnter`, `AsyncCheck`, `AsyncPush`,
`AsyncNotify`, then `QueryComplete` or `QueryTimeout`), the worker its loop
(`WorkerTop` ... `WorkerCallback`), a third thread `start` and `stop`.  The wait on the
condition variable has three steps: the test of the predicate, the moment before
blocking, and blocked.  The connection is two queues and the state of the far end.
The stack frame of `query` is a record that the callback writes to, also when the
call has returned (`CallbackTooLate`): what such a write may hit is a
nondeterministic choice.  The service replies to a query, skips it (a packet that is
no query of its interface gets no reply) or closes, as the sessions of `OracleSession` do.
`skew`, `asked`, `missed` and `ub` are history: the headers that have timed out on the
connection, the requests sent on it, a notification nobody waited for, undefined
behaviour.

**`TcpServer`** - the accept loop, client threads and `stop`, with descriptors and
thread ids taken from small sets, so that they are reused; other parts of the
process open and close descriptors, too (`OtherOpen`, `OtherClose`).

**`OracleMachineNode`** - extends `InterfaceClient` with the session threads, the
request handler and the cache (by its abstract `ReplyCache`, which `OracleCache`
implements), and the order in which `start` and `stop` deal with server and
clients.  `QueryService` is its promise to a core node.

**`OracleSession`** - a connection as a sequence of cells that arrive in pieces of any
size, and the three loops that read one: `NodeConnection::handleSession`,
`BaseOracleService::handleSession`, which reads packets of one size, and the Python
`serve`, which goes by the size in the header.  `Receive`, `Timeout` and `EndOfFile` are
the outcomes of one `recv` inside `receiveExact` (`got` is what it has so far);
`ReadHeader`, `ReadBody` and `HandlePacket` are what the loops do with a whole piece.  A
header read from the middle of a message can be anything (`Decode`).  The module
justifies what `InterfaceClient` takes for granted of a service: replies come in the
order of the queries.

**`TestNode`** - the program at the other end of such a connection: calls, rounds and
pairs of `main`, and `sendQuery` with its time-outs, replies that come late, a peer that
closes or resets.  The machine is the session of the node seen from the other end: it
answers in order, from a cache that goes by the id.  `asked`, `late`, `shown` and `fresh` are history.

**`PriceService`** - session threads that share provider objects; the check of
the candle cache, the rate limit with its sleep under the mutex, the HTTP request
and the update of the cache are separate steps, because no lock spans them.  A
price is the provider and the candle it is from and whether that candle was over when
the exchange was asked.  A query may be ahead of the clock, which the code does not
refuse; `early` is history and says of which candles that is so.

**`PriceArithmetic`** - `priceStringToRational`, `gcd` and `computeMean` as operators
over integers of a given width, in the order `CombinedPriceProvider` applies them.  The
loop over a text only multiplies and adds, so its integers are exact and wrap around once,
at its end (`Wrap`), which gives the same as wrapping in every round.  In the fallback the
cast of a double that does not fit is undefined, so `Cast` may give either end of the range.  `gcd`
is defined for all pairs; it is only asked of denominators that differ.

**`ReadEvmLog`** - `get_receipt` with its two RPC calls per endpoint as separate
steps, against a chain that may replace blocks above its finalized head and
endpoints whose view of it jumps forward.

**`ReadQubicLog`** - the same for bobs: one step per bob asked, bobs that are honest
and lag, and others that say anything.  A bob that does not know the outcome has no
receipt, or one that says "pending".

**`DogeShare`** - `processInterfaceQuery` of the Doge service as operators on one query:
the pieces of `additionalData`, the Merkle root, the computor, the comparison with the
target.  A hash is the term that says of what it is the hash, so that two roots are
equal only if they were computed alike.  The reference is the Merkle tree of the whole
block, of which a pool hands out one branch.  `additionalDataSize` is counted modulo
`SizeModulus`, 2^32 in the code: a size that has wrapped around can pass the checks
though the pieces end beyond the area, and the verdict is then `UNDEFINED`.

**`Sha256`** - `SHA256_Update`, `SHA256_Pad` and `SHA256_Final` as a machine whose state is
the bytes the compression function has been given; the message comes in pieces of any
length, also of none.

**`Smix`** - `smix` with two rounds to a turn and two blocks that change places.
`ROMix` is the loop of the numbered comments, with one block; `Smix` implements it, with
the block of the second half of a turn in `Y`.

`MCServices` and `MCConversations` look at one of several components at a time: they have
no state in common, and a variable that never changes says which one moves.

## Runs

| Run | Shows |
|---|---|
| `oracle_cache` | a hit is the last reply stored and fresh; size and staleness bounds; a valid entry leaves only when the cache is full; implements `ReplyCache` |
| `tcp_server` | no foreign descriptor is shut down, the accept loop waits only for threads past their session, `stop` returns and leaves nothing |
| `node` | the client: no request waits with the worker asleep, replies lag by no more than the headers that timed out, and not at all without; the node: implements `QueryService`, the cache holds replies to its own keys |
| `node_liveness` | handlers return and the machine stops |
| `conversations` | replies in the order of the queries, and one for each, in whatever pieces they come; none answered twice, also by a service that is out of step; the test node's lines lag by its time-outs, a clean exit has shown every pair its own price if its ids were fresh, and a call ends |
| `price_service` | the source and the candle asked for; an unfinished candle only if a query was ahead of it; requests one delay apart; every query replied to |
| `services` | EVM: one endpoint that held still makes an answer final, a settled log is answered; Qubic: one honest bob is enough, a log all know is answered; price: the mean is exact for all texts whose digits fit; Doge: the root is that of the block, judged exactly if its pieces fit; hashes: nothing is lost between pieces, the padding is the standard's, `Smix` implements `ROMix` |

The client has no run of its own: `node` extends it, with handlers for callers, and
checks its invariants there.  The type invariants of the server, the node, the price
service and the other services are not among the runs' invariants, since they are proved
or part of an inductive invariant that is; those of the two ends of a connection are
checked as one (`ConversationsTypeOK`).

Five runs expect a violation.  They show where the code does less than a comment
says; each is a finding in `PROJECT.json`, with the line it quotes.

| Run | The comment | What happens |
|---|---|---|
| `client_late_callback` | the callback signals completion | it writes to a frame that has returned |
| `client_stop_hangs` | waits for the worker to finish | the worker misses the notification and is joined forever |
| `client_force_shutdown` | "Thread-safe force shutdown" | the session is tested and used while the worker destroys it |
| `price_current` | "latest completed 1-minute candle" | the candle before that one |
| `price_ahead` | "previous finished minute candle" | a query ahead of the clock caches the price so far, and one that comes when the candle is over is given it |

Also met while modelling, and kept in the models as the code has it:

- `removeOldest` (`oracle_cache.cpp:234`, "LRU") goes by the time of the store; a
  lookup does not save an entry from eviction.
- After a header time-out, `query` may return the reply to an earlier query, as many
  places back as headers have timed out at most (`LagBoundedByTimeouts`), fewer if the
  service has skipped one; `RequestHandler` then refuses it.
- The retry on a stale connection (`interface_client.h:134`) covers a failed send; a
  connection the peer has closed fails at the receive, which is not retried.
- What an exchange says about the time of the candle it sends is not compared with the
  time asked for; the model takes the exchange to send the candle it was asked for.
- Every price oracle has provider objects of its own, and so a rate limit of its
  own: an exchange may be asked more often than the limit says.
- An EVM endpoint is asked for its finalized head after the receipt, and may have
  moved on in between; `OneSteadyEndpointSuffices` says when that is harmless.
- The test node seeds its ids with the second ("to prevent wrong OM cache hits",
  `main.cpp:575`): two calls within one second use the same ids.  A reply that comes
  after the time-out is printed beside the next pair (`main.cpp:393`), and a send after
  a reset ends the program by SIGPIPE.
- A Python service ends a session that is idle for its time-out, as
  `BaseOracleService` does; only `NodeConnection` goes on.

`CHECK_DEADLOCK FALSE` stands where the system really stops (a stopped machine, an
ended session, a finished computation) or where a bound ends the clock.

### Bounds

- Cache: three keys and limits of zero and two entries, so that eviction, replacement
  in a full cache and the zero limit occur; two ticks to a second, so that
  truncation does; time to live and clean-up interval both run out.
- Server: three descriptors and three thread ids, shared with the rest of the process,
  so that each is reused while an earlier owner is in its last steps.
- Node: two callers, two query ids and an interface that is not served; two requests
  (`MaxQueries`, the only counter that needs a bound), so that one can time out and the
  other take its reply; one retry.
- Session: three messages with sizes that are too small, without a body, of another
  kind of message, of a query, and too large, so that sessions end for each reason and a C++ service
  falls out of step within the run.
- Test node: two calls, up to three lines each, so that a time-out can be followed by a
  late reply and a second call can repeat ids.
- Price: two threads, a minute of two ticks, a delay of one, a time to live of two:
  the clock starts at the first query with a candle to ask for and passes
  `LastAsk`, the last time of a query, so that candles turn over, entries expire and threads queue at the limit within the run.
- Arithmetic: 13 bits, where three digits fit as 18 do in 64 bits
  (`2 * 10^Digits < 2^(Width - 1)`); all texts of up to four characters, so that
  texts that do not fit and wrap around are met, too.
- EVM: two endpoints, three blocks, two blocks that hold the transaction.
- Qubic: three bobs, any of them honest; receipts whose log ids are not positions, and a
  pending one.
- Doge: up to six transactions, so that levels with an odd last hash occur; an area of
  eight cells, which the pieces fill, miss and exceed; sizes modulo ten, so that some
  wrap around.
- SHA-256: blocks of eight bytes, base 16, words of two bytes: 40 bytes of message pass
  every place in a block and overflow the low word of the count.
- smix: four rounds, two turns of each loop; all blocks of two halves out of three.

### Fairness

Threads run (`WF` on their steps), time passes, and receives end because they have
time-outs.  Strong fairness is assumed in one place, a caller's push: it takes
the queue mutex, which is free again and again as the worker loops.  A service or
an exchange need not answer, and clients need not disconnect: a session is
assumed to end only after its socket has been shut down.  `HandlerReturns` excepts a worker
stuck in a late callback, `MachineStops` that and a notification that was missed: the
two states the violating runs of the client exhibit.  A session thread and the test
node run (`WF` of `Serve` and of `Program`); what has been sent arrives, in pieces.  A
time-out of a session is not assumed to happen.  `CallEnds` needs no answer of the
machine, but a receive time-out that is set.

## Proofs

| Module | Theorems | From |
|---|---|---|
| `OracleCacheProofs` | `TypeCorrect`, `HitsLatestAndFresh`, `SizeIsBounded`, `StalenessIsBounded`, `ValidLeavesWhenFull`, `Refinement` | `Invariance`, `OffStaysEmpty` |
| `NodeProofs` | `TypeCorrect`, `RequestsNotLost`, `RepliesAligned`, `LagBounded` of `InterfaceClient`; `NodeTypeCorrect`, `CacheHoldsOwn`, `NodeUsesClient`, `NodeRefinement` | `Invariance`, `LaggingInduction`; `NodeInvariance` |
| `TcpServerProofs` | `TypeCorrect`, `ListedLive`, `CleanupSafe`, `StopClean` | `Invariance` |
| `PriceServiceProofs` | `TypeCorrect`, `Spaced`, `PricesMatch`, `UnfinishedAskedEarly` | `Invariance`, `AlwaysRight` |
| `ArithmeticProofs` | `MeanCorrect` of `PriceArithmetic`; `ShareJudged`, `ShareRefused` of `DogeShare` | `PriceStep`, `ShareStep` |
| `LogReadersProofs` | `EvmTypeCorrect`, `SteadyEndpointSuffices`, `FinalAnswered`; `QubicTypeCorrect`, `HonestBobSuffices`, `KnownAnswered` | `EvmInvariance`, `QubicInvariance` |
| `ScryptProofs` | `TypeCorrect`, `Refinement` of `Smix`; `ShaTyped`, `NothingLostInvariance`, `PaddingCorrect` of `Sha256` | `TypeStep`, `StepMaps`; `ShaInvariance` |
| `ConversationsProofs` | `RepliesInOrder`, `AnsweredOnce`, `SessionTyped`; `CleanExit`, `LagIsTimeouts`; `ConversationsTyped` | `SessionInvariance`, `OnceStep`, `TestNodeInvariance` |

Each module states an inductive invariant, proves that it holds initially and
is preserved action by action, and derives the properties the runs check.

- *Cache.*  `HitIsLatestFreshReply` speaks of an answer only; that it holds needs
  that every entry in the map is what was last written for its key and not newer
  than the clock (`Entries`), that the clean-up time is not in the future
  (`Cleaned`), and a finite map within its limit (`Sized`), which is what makes
  `removeOldest` free a place.  The refinement maps the map to the payloads of its
  valid entries: a sweep, an eviction and the clock only ever forget.
- *Client.*  `NoLostRequest` needs `Waiting`: also in the step before it blocks, the
  worker has seen an empty queue under the mutex, which a push would need.
  `AlignedReply` needs `Aligned`: what is in the two queues of a connection, in
  order, are the requests sent on it that have not been answered, the last of them
  the worker's own; `Stages` says at which steps a connection may have any.
  `LagBoundedByTimeouts` needs `Lagging`: all requests sent on the connection but the last
  ones, one for each header that timed out and one the worker waits for, are settled, and
  what is under way belongs to those last ones, in order and with gaps where the
  service has skipped a query (`Lags`).
- *Server.*  The descriptor lists, the thread table and the places of the threads
  determine each other; a thread id is in the finished list only from its
  marking to its collection, which is what makes its reuse harmless.
- *Node.*  `Handling`: a session that waits in the client has a query for the
  interface that is served.  Every step is a step of the client or leaves it alone
  (`NodeUsesClient`), and a step of `QueryService` or none; that the handler
  compares the id is what makes a late reply of the client harmless.
- *Price.*  `Sleepers`: a thread that sleeps at the rate limit holds its mutex and
  wakes no earlier than one delay after the last request.  `Right`: what a cache and
  a thread hold is the price of the provider and the candle they hold it for, and was
  asked for when that candle was over, or the candle is one that a query was ahead of
  (`Certain`, `Foreseen`).
- *Arithmetic.*  The loops are recursive functions.  `Recursion` (and `RecursionForever`, for
  all naturals) shows that a function with the equation of the loop exists, so that the
  loop may be unfolded; `Climb` and `ClimbForever` are induction, for a set of naturals in
  place of a predicate, from the least element of what is left out (`Least`).  With them:
  what the scan has after each character is the number read so far and the power of ten
  below it (`NumeralRead`); Euclid's loop ends, for every pair of integers, since the
  absolute value of the second falls (`WalkEnds`, `GcdIs`), and for two powers of ten it
  gives the smaller one (`GcdOfTens`).  The quotients of `computeMean` are then powers of ten,
  and `Fits` is what keeps each product and sum below the `Limit` (`MeanOfNumerals`).
  `PriceInv` carries the price of each text asked so far from step to step.
- *Doge.*  A level of the tree has half the hashes of the one below, rounded up, so there is
  a first level with one hash (`LevelLength`, `HeightIs`), and on each level below it the
  leftmost hash has a sibling.  By induction on the level the hash of the loop is the
  leftmost of the level (`RootFound`).  `AreaIs` and `EncodeIs` say where each piece of a query
  lies, `PartsIs`, `LengthsIs` and `BranchesIs` that the code takes the same pieces out again
  when they fit.  `ComparisonIs`: the last byte that differs decides which number is larger,
  because the bytes below it add up to less than its place (`NotAboveNext`).
- *EVM.*  What is final in an endpoint's view is final on the chain (`Views`), and as
  long as the handler takes the receipt for final, each endpoint asked has moved or
  has vouched for it (`Backed`).
- *Qubic.*  An honest bob that has been asked has vouched for the ledger's receipt, or
  did not know it when the query came and said that there is none, or a pending one
  (`Vouched`).
- *smix.*  The counter is even, so that the second half of a turn stays in the table,
  and a step of a half is one round of `ROMix`.
- *SHA-256.*  `ShaInv`: the count is the bits of all that was given (`Counted`), also
  when its low word has wrapped around; in the loop of `SHA256_Update` what was
  transformed and what is left of the input are together what was given, and whole
  blocks were transformed (`InLoop`); and what was given is the message, then its
  padding, then its length, according to where the caller is (`Given`).  The place in
  the buffer is read off the count, which is why the proof needs that a word counts
  whole blocks.  `WordsAdded` is the carry between the words, `KeptInBuffer` and
  `KeptInBlocks` the two cases of a call, byte by byte.
- *Session.*  `AnswersInOrder` speaks of the replies only.  `SessionInv` says what is left
  to read: the header in hand, the buffer and the stream together are a run of whole
  messages, each followed by the next, up to the last one sent (`Lined`), and the
  replies are those to the messages before the first of the run (`InOrder`).  So a header
  that is read is the start of a message, never the middle of one.  A C++ service falls
  out of step at the first message that has not the size of a packet; until then
  (`InStep`) the same holds of it.  After that, `OnceInv`: the beginnings of messages among
  what is left to read are in order and later than any reply, so a packet that has an id
  has a new one (`AnsweredOnce`).
- *Test node.*  `Aligned`: the replies and then the queries on the way are, in order, the
  last ids asked on the connection, from the first that is neither answered nor given
  up.  A reply that is read is therefore the one `late` places back.  `CleanSoFar`: as
  long as nothing has failed, nothing is late, each line shows its own price, and
  what the machine knows of the id being asked is about the same pair, if the ids
  of the call were fresh.

The assumptions are those on the constants that the types of the code give:
`CacheAssumption` and `NoEntryAssumption`, `ClientAssumption` and `NoneAssumption`,
`NoFDAssumption`, `ServedAssumption` and `NoQueryAssumption`, `PriceAssumption`,
`ArithmeticAssumption`, `ShareAssumption`, `EvmAssumption`, `QubicAssumption`, `SmixAssumption`, `ShaAssumption`, `SessionAssumption`,
`TestNodeAssumption`: limits and time-outs are naturals, configurations are records of
such, there is an endpoint, a bob or a pair to ask for, the number of rounds is even, a
word of the count is a multiple of the bits of a block, a packet of a service holds a
header and the smallest query, and a null pointer is none of the values it stands
beside.  `ArithmeticAssumption` says which digits fit: `2 * 10^Digits` is below the limit of
the integers, as it is for 18 digits and 64 bits.  `ShareAssumption`: a hash and a target have
the same length, their bytes are below the radix, and the nonce holds the bytes of the
index.  `ShaAssumption` also says that the powers of the base are positive, and
`ArithmeticAssumption` that `2^(Width - 1)` is a natural: facts about exponentiation, of which
the provers know nothing, so they are stated and evaluated by TLC for the instance.

Only model-checked are the liveness properties (`StopReturns`, `HandlerReturns`,
`MachineStops`, `QueryAnswered`, `CallEnds`, `QueryReplied`): fairness is out of the
prover's reach.

## What the models leave out

Log output, statistics, byte layouts and JSON.  In `InterfaceClient`, a header that
arrives in part.  A client that is started again after a stop.  `_connectionMutex`, which only the
worker takes while it runs.  The exchanges' answers are a candle or a failure; the
digits are in `PriceArithmetic` only.  `std::stod` on signs and exponents.  Overflow
in `PriceArithmetic` wraps around, as the builds do, although the language leaves
it undefined.  `EVM_MIN_CONFIRMATIONS` is not told apart from the finalized tag:
the head is a block number below which nothing changes.

Of scrypt: `SHA256_Transform` and `salsa20_8`, fixed formulas on words that a small
instance does not exercise, and HMAC and PBKDF2, which call `Sha256` in a fixed order.
Of `read_qubic_log`: the identity of a hash (KangarooTwelve and base 26).  Of the Doge
service: what is read beyond the area when a size has wrapped around, and the copying of
the header's other fields.  Of the test node: calls refused for their options, packets that arrive in
part, queries that are on the way when it closes.  Of `NodeConnection`: the whitelist
of addresses.  `Config` reads the environment once, `Logger` only writes, the mock
service doubles a number.
