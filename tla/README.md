# TLA+ verification of tastytrade-research-mcp

The repository is a TypeScript MCP server that answers research questions from tastytrade,
DXLink and a backtest service: candles, live option snapshots, historical option packages,
replays and audits. This directory holds TLA+ models of its stateful parts, TLC
configurations that check them on small instances, and TLAPS proofs. `PROJECT.json` lists
the runs, the mutants that show each property can fail, the source lines of every definition,
the hazards and the theorems. File names without a directory are files of `src/src/`.

    tlc -workers 2 -config RateLimiter.cfg MCRateLimiter.tla     # a run
    tlapm DiscoveryProofs.tla                                    # its proofs

## 1. The system and its components

| Component | Files | State it keeps | Operations | What is hard | What makes it correct |
|---|---|---|---|---|---|
| Backtester client and rate limiter | `provider-rate-limit.ts`, `backtester-client.ts` | next slot, cooldown, 429 counters, the tail of a promise chain | `run`, `recordRateLimit`, `recordSuccess`, `status` | callers asleep at the gate while late 429s and successes arrive | spacing, no start in a cooldown, monotone cooldowns, nobody stuck |
| Evidence cache: storage | `evidence-cache.ts` | files, `storageTail`, `requestTails`, `accountedBytes` | `withStorageLock`, `commit`, `writeImmutable`, `writeMutable`, `removeTrackedFile`, `warmup` | several writes per commit, I/O errors, crashes, quota | exact accounting, closed indexes, no lost revision |
| Evidence cache: lookup and fetch | `evidence-cache.ts` | request index, failure pointer, `inFlight`, metrics | `execute` and what it calls | concurrent misses, refreshes, expiry and copying across contexts | only complete answers are indexed, one provider call per mode, replayable results |
| DXLink candle snapshot | `historical-candles.ts` | socket stage, retained rows, transactions, byte and event ledgers | `readSnapshot`, authenticated reconnect | queued messages, transactions, budgets, reconnect, deadline | bounded memory, exact ledgers, committed rows kept |
| Calendar recovery | `historical-candles.ts` | recovery windows, budgets and credentials shared by the snapshots of a request | `getHistoricalCandlesBatch` | a refusal re-enters the operation in the middle of a window | shared limits, one window each, no claim of unproved credentials |
| Credentials | `oauth-client.ts`, `dxlink.ts` | access token, quote token | `getAccessToken`, `getQuoteToken`, `withDxlinkAuthRecovery` | shared caches without single flight, stale invalidation | one refresh per request, fresh credentials |
| Live option snapshot | `live-option-snapshot.ts`, `live-option-quality.ts` | batches, sockets, one event per subscription, transactions | `getSnapshot` | many sockets, a second round, deadlines, late events | nothing of a refused round, every batch accounted for, sockets closed |
| Bounded history | `bounded-history-provider.ts` | pages, cursors, attempts, records and budgets of one request | `getBoundedHistory`, `getHistoricalCandlesBatch` | paging, retries, timeouts, conflicting pages | complete or says why not, within its budgets |
| SPX candidate range | `historical-spx-candidate-range.ts`, `...-progress.ts` | worker pool, results by session; between calls only the cursor that the client holds | range discovery | workers that race the deadline and a shared rate limit; a cursor made of the cursor before | every session accounted for once, cooldowns that outlive the process, no session starved |
| SPX candidates | `historical-spx-candidates.ts`, `historical-spx-reconstruction.ts`, `dd-iv-measurement.ts` | none between calls | discovery of one session, reconstruction from candles, universe of contracts | candles that are running, stale or missing; batches that fail; strikes nobody saw | no look-ahead, a universe that is complete or says where it is not |
| Option packages | `historical-option-package.ts`, `historical-option-package-horizons.ts`, `resolution-profile.ts`, `rth-calendar.ts`, `time.ts` | none between calls | package at a checkpoint, along a path, at horizons | fallback between resolutions, age and skew of legs, modelled legs | values that are observed or named as modelled |
| Execution and event path | `historical-execution-*.ts`, `execution-evidence.ts`, `historical-event-path.ts`, `historical-fill.ts`, `historical-strategy-evidence.ts`, `decimal.ts`, `package-pricing.ts` | none between calls | normalisation of quotes, simulation of an order, verification of a fill | quotes that are late, early, too small or from two sources; instants without a quote | no fill without its quotes, no "no fill" without a proof |
| Replay | `historical-replay.ts` | none between calls | report | records that agree with themselves and not with the study | denominators, order of closing, a complete report that is complete |
| Broker history and audit | `broker-history.ts`, `oo-broker-audit.ts` | none between calls | paging, matching | pages that change | complete or says why not |
| Servers and adapters | `server.ts`, `http-server.ts`, `http.ts`, `index.ts`, `entra-oauth.ts`, `spread-adapter.ts`, `backtest-selector.ts` | none | dispatch | - | - |

How they interact. An MCP tool call (`server.ts`) is one asynchronous operation on the
singletons of the process, and operations interleave at every `await`. Candle requests pass
through the evidence cache, which calls the DXLink candle client (or the bounded-history
adapter) on a miss; that client obtains a quote token through the shared token caches, opens
a socket, and may go through one token refresh. Live snapshots share the token caches. All
calls of the backtest service share one limiter; a range discovery calls it from several
workers and carries its cooldown in the cursor. The research tools are chained by the client:
candidates are frozen, packages read at their horizons, quotes normalised, orders simulated
cell by cell and a report built of the records, each call checking what the one before it
handed over. The evidence cache is the only part with state on disk; what a crash means to it
and to a client that resumes a range with its cursor is modelled.

## 2. The modules

| Module | Models | Variables and the code they stand for |
|---|---|---|
| `RateLimiter` | `ProviderRateLimiter` and the request life cycle in `TastytradeBacktesterClient.request` | `queue` is the promise chain, `phase` where a call stands, `nextRequestAt`, `cooldownUntil`, `consecutive`... the limiter's fields. `Enter...` and `Wake...` are the body of `start()` before and after its sleep, `Respond...` the outcomes of the HTTP call |
| `RevisionLog` | what readers of the evidence store are promised: a log of revisions per fingerprint that only grows, and a pointer to the last failure | `log`, `retry` |
| `EvidenceStore` | the storage layer under `execute`: both lock chains, `commit` with its concurrent immutable writes and its final pointer write, I/O errors at every file operation, process crashes | `files`, `temps`, `index`, `pointer` are the disk; `storeQueue`, `requestQueue` the lock tails; `accounted`, `usage`, `delta` the quota accounting |
| `EvidenceCache` | `execute` and everything it calls for one fingerprint, with commits as one step | `index`, `pointer`, `flight` (`inFlight` per mode), `metrics`, and per call its `pc` and local variables |
| `CandleSnapshot` | `readSnapshot`: the handshake, the message queue, `applyCandleEvents` flag by flag, the budgets, and the reconnect on the same state | `data` (rows, bytes, the index set), `pending` (open transactions), `queued`, `bytes`, `events`, `stage`, `outcome` |
| `CalendarRecovery` | the request around it: initial snapshot, reconnect, recovery windows, token refresh | `left`, `events`, `bytes` are the budgets; `observed`, `mark`, `window`, `at` (resumeIndex) |
| `QuoteToken` | `getAccessToken`, `getQuoteToken` and `withDxlinkAuthRecovery` for several requests and a REST client | `access`, `quote` are the caches; `pc`, `round`, `held` the requests |
| `LiveSnapshot` | the collection of a live snapshot: workers, sockets, states, both rounds | `next`, `stage`, `open`, `results`, `heard`, `pending` |
| `BoundedHistory` | `getBoundedHistory` with its pages, retries and timeouts, and the candle results made of it | `cursor`, `seen`, `pages`, `mine`, `partial` of the shard, `records`, `usage`, `shards` |
| `CandidateDiscovery` | the pure parts of a discovery: the candidate in the logs of a backtest, the classification of errors (with `isRetryable` through causes), failures and statuses of results | operators only |
| `CandidateRange` | the range discovery: a client that resumes a range with cursors, the worker pool with attempts, deadlines and pauses, the schedule, the merging of rate limits, encoding and decoding of the cursor | `cursor` is the client's; `run` the schedule and `next` of the pool, `worker` the local variables of `runCheckpoint`, `results` its results, `limiter` the provider's state in this process |
| `CandidateReconstruction` | candidates and the universe of contracts reconstructed from candles: the grid of strikes, its batches, the forward by parity, deltas, nearest contracts, missing strikes and statuses | operators only |
| `OptionPackage` | a package at a checkpoint or along a path of bars: completed candles, the order of resolutions, age, skew, failures | operators only |
| `PackageHorizons` | packages at entry and three and five sessions later: their validation, valuation, modelled legs, coverage | operators only |
| `ExecutionEvidence` | quotes of the legs at expected instants: the reasons that make one unusable, package quotes, coverage, validation | operators only |
| `ExecutionModel` | the simulation of an entry and an exit: profiles, limits, coverage, fees, profit and loss | operators only |
| `HistoricalFill` | the verification of a fill against a path | operators only |
| `ReplayReport` | the validation of a study and its records, then the matrix, counts, groups, drawdown, sensitivity and status | operators only |
| `ReplayStudy` | the chain of these tools as a client drives it: `RequestHorizons`, `PackageCheckpoint`, `NormalizeEvidence`, `SimulateCell`, `BuildReport`, or instead `VerifyPath`, `ReconstructCandidates`, `ReconstructUniverse` | `study` is what was frozen, `answers` and `requests` what providers and sources gave, `horizons`, `records`, `report`, `fill`, `chain` the results |
| `EvidenceStoreProofs`, `EvidenceCacheProofs`, `CandleSnapshotProofs`, `CalendarRecoveryProofs`, `LiveSnapshotProofs`, `BoundedHistoryProofs` | the proofs, of every safety property of the module without `Proofs` | - |
| `TokenAndStudyProofs` | the same for `QuoteToken`, and three of the properties of `ReplayStudy` | - |
| `DiscoveryProofs` | the same for `RateLimiter` and `CandidateRange`, and that the limiter of the second is the first | - |
| `MC...` | the constants of the runs | - |

One action is one stretch of code between two points where others can run: JavaScript runs
to completion between `await`s, and a step ends where the code awaits, sets a timer or
returns. History variables (`trail`, `followed`, `lastStart`, `authorized`...) record what
happened for the properties and are marked `history` where they are declared. Each module
names, in its first comment, the operators that are faulty variants of another definition:
they are the mutants that the properties are tested with, and nothing else uses them.

The research tools are functions of their input, so their modules hold operators, and what
TLC explores is `ReplayStudy`: which study was frozen and what providers and sources answer at
every instant, with the tools applied to each other's results as the client does. Its
properties speak of what the sources showed (`answers`, `requests`, `chain.given`), never of
the intermediate values by which the code decides.

`EvidenceStore` implements `RevisionLog` (`ImplementsLog`, by the mapping `log <- index`,
`retry <- pointer`). `EvidenceCache` takes from it that a commit is one step, and implements
the same log for its one fingerprint.
`CalendarRecovery` takes one `readSnapshot` as a step with any outcome that `CandleSnapshot`
allows for it. `CandidateRange` keeps of the limiter what `getProviderRateLimitState` shows of
it, and `DiscoverySeesTheGate` proves that this is `RateLimiter`: whatever the gate does in a
step, discovery sees nothing of it or one of the 429s that it models, and the gate refuses a
call for a cooldown exactly when discovery takes it to.

## 3. The runs

Each run takes at most about three minutes with two workers.

| Run | Bounds | Shows |
|---|---|---|
| `rate` | two callers, two calls each up to time 5, a fallback table of two entries, headers of both kinds | `SpacedStarts`, `NoStartInCooldown` (also for a caller that slept while the cooldown moved), `CooldownNeverShortened` (nor is its source taken over by a shorter wait), `WaitersLeave` |
| `store` | two tasks on one fingerprint with two operations, two answers that share an object, one crash | `QuotaAccounted` (the total is exact and nothing is published over the quota), `IndexClosed` (no index names a file that is not there, at any crash point), `ImplementsLog`, `OperationsEnd` |
| `cache` | two callers of different contexts, three calls in all, one expiry | `IndexReplays` (only complete answers are indexed, and what a call returned replays), `FlightsShared` (one provider call per mode, counters that add up, nobody waits for a flight that has landed), `PrefersValid` |
| `snapshot` | two symbols, two indexes, two rows that differ in size and range, every combination of flags, three events, a buffer that a third item overfills | `LedgerExact` (the bytes are those of what is kept, within buffer, row and event budgets), `CommitsHold` (a snapshot ends with committed data only and keeps it over the reconnect), `CompletedKept`, `RequestEnds` |
| `tokens` | two requests and a REST client, one retry, tokens that expire within the run | `Reacquired` (a refused request gets new credentials, a refused token is handed to nobody), `TokensAlive` |
| `calendar` | two symbols, three sessions, windows of two, budgets below what all would need | `SharedBudgets` (with one window per symbol), `StatusProved` |
| `live` | three batches for two workers, a symbol spread over two batches | `NothingOld`, `SocketsReleased` (under one deadline), `StatusesProved` (every batch reported, no claim of an unproved session), `ReadyIsCommitted` |
| `bounded` | two shards, two symbols, records of three kinds (all requested fields, all but one that is not of the OHLC, a part of the OHLC null), two cursors for a page limit of two, pages of one size, budgets and time for a little less than all | `BudgetsHold`, `OneRevision`, `ReturnedInTime`, `EveryGapNamed` (with shards that are COMPLETE only at their null cursor; candles that are less than AVAILABLE without a failure reason lack no bar, and a warning tells what is null or which symbol has nothing) |
| `range` | three sessions, two workers, two sessions per call, two attempts, a deadline of two, one 429 and one crash, two calls that return, the last one begun by time 2, cursors of all three versions | `CursorFaithful` (decoding a cursor gives what it was made of, and the sessions partition the range), `CompletedStays`, `CooldownDurable` (over calls, processes and cursors), `DeadlineKept`, `RoundRobin` (no session waits for a second turn of the others) |
| `research` | eight families of studies: entry orders, exits, native quotes, paths, groups of candidates, candles with a fallback model, diagonal packages, reconstruction | `NoLookahead`, `FillsExecutable`, `NoFillProved`, `OptimisticIsBest`, `SimulationsAccepted` (the report takes every simulation), `ReportProved`, `ValuationsHonest`, `VerdictProved` |
| `cache_retry`, `snapshot_drop` | as small as shows the disagreement | see section 5 |

Why these bounds are enough to be of interest: every actor that can interfere has a second
one to interfere with; every budget is smaller than what the environment can send, so that
each limit is hit exactly, missed by one, and hit in the middle of a step; clocks run past
every deadline, cooldown and expiry; each queue or table is long enough to take its growing,
its last and its empty branch. Counters that the code never bounds (calls, operations,
crashes, time, retries of the run) are capped by the constants named `Max...`, `LastArrival`
and `LastStart` in guards. Because calls and time are capped, and a request that returned does
nothing more, every run may stop: `CHECK_DEADLOCK FALSE`. That somebody waits for good is
what `WaitersLeave`, `OperationsEnd`, `RequestEnds` and `FlightsShared` exclude. Symmetry is
used for interchangeable callers, contexts, requests, symbols, cursors and workers, and only in runs
without liveness. In `research` a family varies what its properties need and fixes the rest:
quotes over two or three instants before, at and after an order, each with every flaw that the
code tells apart; candles that are finished, running, stale or missing; candidates that tie,
expire or share a session. Longer studies repeat these cells, which the code treats one by
one; what relates cells (the matrix, groups, drawdown) has families of several candidates.

Fairness. `RateLimiter`: time passes while a timer is pending, and a caller whose turn has
come or whose timer is due runs, as the event loop promises; responses need not arrive.
`EvidenceStore`: every task whose file operation is pending goes on, with success or an
error; crashes are not forced. `CandleSnapshot`: queued messages are processed, the
continuation of an attempt runs, and the deadline timer, which the loop checks between
messages although messages keep arriving, fires eventually (hence `SF`). No provider owes an
answer in any of them. The other runs check safety only.

## 4. The proofs

TLC checks the small instances above; TLAPS proves the following for every value of the
constants that the named assumptions allow.

`DiscoveryProofs`, about `RateLimiter`, from `PacingAssumption`, `FallbackAssumption`, `JitterAssumption`,
`SecondAssumption`, `HeaderAssumption`, `NeverAssumption` and `BoundAssumption`:
`GateTypeCorrect`, `PacingHolds` (`SpacedStarts`), `CooldownRespected` (`NoStartInCooldown`),
`CooldownMonotone` (`CooldownNeverShortened`), `AdvertisedWaitCovers` (the wait that a caller
is told covers the cooldown), `FallbackWithinCap`. The properties are not inductive: that a
start is spaced needs that only the head of the chain sleeps, that its timer is set for the
slot that is still the next one, and that the slot lies `MinInterval` after the latest start.
The arithmetic of jitter and of rounding to seconds is in lemmas of its own.

`DiscoveryProofs`, about `CandidateRange`, for any range of sessions, pool, deadlines, errors,
answers and first cursor: `CursorIsFaithful` (`CursorFaithful`), `DeadlineIsKept`
(`DeadlineKept`), `RoundRobinKept` (`RoundRobin`), `CompletedIsKept` and `CooldownIsDurable` (the
temporal properties `CompletedStays` and `CooldownDurable`), `RangeTypeCorrect`. The inductive
invariant `IInv` has a part for each reason why they hold. `Plans`: the cursor stands for the state
that the next call starts from, because encoding and decoding cancel (`RoundTrip`). `Taken`: a call's
schedule, and what it left for later, are made of its plan as it was when the call began. `Pool`: every
checkpoint of the schedule has a result, a worker that is at it or a turn to come, so that a
call ends with a result for each. `Checks`: a result says what its failure says, which is what
the merge of rate limits reads. `Timers`: what a worker sleeps on is due by the deadline of its
checkpoint, and it pauses only before its last attempt. `Order`: a session that was passed over
stands, in the queue of the state, ahead of those that were tried meanwhile; slicing the
schedule off that queue keeps this, for which `PickedDates` and `AheadOnce` say what filtering a
sequence preserves. `Remembered`: the cursor knows of every cooldown that a call was told of.
Each kind of step of a worker either moves its attempt on or stores a result, and these two
are proved once each for the whole invariant. Beyond what kind of
values constants are (`PoolAssumption`, `DelayAssumption`, `PricingAssumption`,
`ErrorAssumption`, `ProviderAssumption`, `NoneAssumption`), they rest on `CursorAssumption`, that
the client begins with no cursor or with one of the form that calls hand out, and on
`GrowthAssumption`, that a power of three is a natural number: an arithmetic fact that needs an
induction.

`EvidenceStoreProofs`, for any files, sizes and quota: `IndexAlwaysClosed` (after any I/O
errors and crashes every manifest an index names is there with its objects),
`StoreImplementsLog` (the store refines `RevisionLog`) and `QuotaIsExact`
(`QuotaAccounted`). The invariant `StoreInv` says who holds the two locks, that a draft was
numbered after the index its task protects with the request lock, and that a commit whose
immutable writes succeeded has its files on disk. The first and the second give that a
published revision is the next one of the log, the third that it is whole. The accounting
needs `QuotaInv` on top of it: half way through a commit `usage` is what a scan would find
without the files of the commit and `delta` is what they and the mutable file add, whichever
of them are published, so that the total is right when the commit reports and within the
quota at every step before.

`EvidenceCacheProofs`, for any callers, contexts and TTL: `WhatIsIndexedReplays`
(`IndexReplays`), `ValidIsPreferred` (`PrefersValid`), `ProviderCallsAreShared`
(`FlightsShared`), `TypeCorrect`, and `CacheImplementsLog`: the calls on one fingerprint refine
`RevisionLog` too. `IInv` says what a call holds in each control state, that every valid
manifest is a revision of a complete answer, that a flight and the call that owns it name each
other, that the lock is queued for by the calls that write, and that the counters of provider
calls add up over the calls that own one. `Throwing`, `Settling` and `Returning` are the three
ways in which calls end.

`CandleSnapshotProofs`, for any finite sets of symbols and indexes, any rows, sizes, flags and
budgets: `LedgerIsExact` (`LedgerExact`), `CommittedRowsHold` (`CommitsHold`),
`CompletedSymbolsKeep` (the action property `CompletedKept`) and `TypeCorrect`. `LedgerExact`
is not inductive: a SNAPSHOT_BEGIN gives back `snap` bytes, of which it says nothing. `Grown`
adds that `snap` is what a symbol's rows weigh beyond those that the reconnect protects;
`Transactions`, that nothing is buffered or being applied for a symbol that ended; `Attempts`,
what a second attempt starts from. The sums of bytes are cardinalities of sets of units
(`Total`), because the prover cannot do the induction that a fold over a set needs; `TotalUpdate`
is what the proofs use of them.

`CalendarRecoveryProofs`: `BudgetsShared` (`SharedBudgets`), `StatusIsProved`
(`StatusProved`), `TypeCorrect`. That a symbol gets one window rests on `Windows`: the symbols
ahead of the loop had none, and the one that it is at no other than the window in hand, also
when a refusal interrupts it. That the status is proved rests on the credentials being
unconfirmed from a refusal until the next snapshot that the provider authorized.

`TokenAndStudyProofs`, about `QuoteToken`, from `TimeAssumption` (an HTTP call is over before a token that it could
have obtained expires): `RefusedReacquire` (`Reacquired`), `TokensLive` (the action property
`TokensAlive`), `TypeCorrect`. Needed besides: every call in flight is within its timeout, a
refused request's calls were sent after the refusal, and a request buys one quote token per
round.

`TokenAndStudyProofs`, about `ReplayStudy`, for any studies, windows, observations, chains and
plans: `NoLookaheadHolds` (`NoLookahead`), `FillsExecutableHolds` (`FillsExecutable`),
`NoFillIsProved` (`NoFillProved`), `OptimisticIsTheBest` (`OptimisticIsBest`),
`ValuationsAreHonest` (`ValuationsHonest`), and `StudyInvHolds`, on which they rest. The properties say
what a record or a result claims, and the claim is about sources that it no longer holds;
`StudyInv` keeps the way back to them. `HorizonsKept`: every horizon is what its place came to
by the answer that is kept for that place, under a request that was valid; for that the next place must
be one without an answer, which is why places are left as long as horizons are asked for
(`NextPlaceFact`). `RequestsKept`: every request is one that some source
gave for this candidate at this horizon, and passed the checks. `RecordsKept`: a record is the
simulation, under the profile of its scenario, of what the requests of its entry and of its
own horizon normalise to. `FromPlan`: a chain is what its plan and its answers give. What is left
is, for each property, a fact about the functions of the tools. The price and the size of a usable
package are those of the quotes it was made of (`PackageSizeFact` and the lemmas about
`Observation`, `LegQuote` and `QuoteTimingReasons`); an order is filled at the first instant that
trades, and `OrderFact` and `ShownIsObserved` lead from that instant to the quotes shown then.
That the optimistic scenario is best rests on rounding: the price of every other model that reaches
the limit is a multiple of the tick no lower than the midpoint, and what the midpoint comes to
is the least of these (`CeilingFact`, `UnitPrice`, `OtherPrice`, `MidpointIsBest`). The code lets
scenarios differ in latency, size and tick, so that the property compares those of which the
optimistic one waits no longer and asks for no more (`Comparable`). For
a value at a horizon `SelectedFact` says that the resolution selected is the first whole batch,
`LegFact` that a leg without a reason against it has a fresh candle there, and that of one that may
be modelled nothing was to be seen, not even a stale or misaligned candle, and `PickedFact` picks the candles within the skew. For
the reconstruction `ObservedIsKnown` says of which candles a contract's observation can be made,
`ForwardIsKnown`, `DeltaFact`, `CandidateIsKnown` and `UniverseIsKnown` that nothing else enters
the forward, the deltas, the candidates and the universe. The choices that code makes by sorting
exist because finite sets of integers and of short sequences of them have least elements
(`LeastNumber`, `FirstOfFour`). Sums of cash are functions of the values summed, so that it is
never needed what a sum is. The assumptions are what types and checks at the doors of the tools
let through: a quote has its fields, sizes are natural numbers, times and prices integers
(`PriceAssumption`, `EvidenceAssumption`); legs come in a sequence, and a policy accepts
AVAILABLE candidates only (`StudyAssumption`, `historical-replay.ts:2285-2305`); the frame of a study
has other fields than those a cell adds (`FrameAssumption`); a provider returns candles of the window that it was asked for only
(`PackageAssumption`, `historical-candles.ts:2132-2139`); a candle is over when it is available,
a batch that answers for fewer contracts than it was asked for fails, and plans have integers
(`ChainAssumption`, `historical-spx-reconstruction.ts:1228,2253`).

`LiveSnapshotProofs`, for any subscriptions in any batches and any number of workers:
`NoOldEvents` (`NothingOld`), `SocketsAreReleased` (`SocketsReleased`), `StatusesAreProved`
(`StatusesProved`), `ReadyAfterCommit` (`ReadyIsCommitted`), `TypeCorrect`. Three of these
speak of the result; `IInv` says what holds of states and results while the batches are
read, in both rounds, and that workers take the batches in order.

`BoundedHistoryProofs`: `WindowsTile` (the shards cover the range without gap or overlap),
`BudgetsAlwaysHold`, `RevisionsUnique`, `DeadlineKept` and `GapsAreNamed` (`EveryGapNamed`), from
the assumptions of the module. To the properties the invariant `RequestInv` adds that a running
timer is due by the deadline and that a page is asked for only below the page limit;
`KeptRecords` is the lemma that a page adds at most one record per key and no more than it was
charged for. `GapInv` adds that the pages of the current shard are a chain of cursors from
the null cursor whose records are all kept, and that a shard is COMPLETE exactly if its
chain came to its end. `DelayAssumption` (a backoff is a natural number) replaces the induction over
powers of two that this prover cannot do; TLC evaluates it.

The assumptions on constants say what kind of values they are (`SizeAssumption`,
`BudgetAssumption`, `BatchAssumption`...), that a null is none of the values it stands beside
(`NoneAssumption`, `NullAssumption`), and that sets of symbols, indexes, callers and digests
are finite. Each inductive invariant was checked by TLC on the instance of its run before it
was proved, and TLC evaluates every assumption in the runs.

Only model-checked: every liveness property (fairness and `ENABLED` are beyond the prover);
of `ReplayStudy`, `SimulationsAccepted`, `ReportProved` and `VerdictProved` (counts, averages,
drawdowns and gaps along a path, folded over cells and bars), about which an induction
over data would be needed.
`ExpiredReadRetries` and `CompleteIsWhole` do not hold of the code (section 5).

## 5. Disagreements between the code and what it says

- `cache_retry`: a read after the expiry of a failure pointer may end in
  `EVIDENCE_CACHE_INDEX_MISSING`, because another call removes the file between its `stat`
  and its `readFile`; `src/docs/evidence-cache.md:219` says that it retries.
- `snapshot_drop`: an event with the END flag whose own row does not fit the buffer leaves
  `snapshot_complete` true although the row is missing; `src/README.md:479` says that it
  means no local truncation.

Seen while modelling and reproduced by the models, but without a run of their own:

- An unchanged record that a later page repeats is refused as one of `conflicting revisions`
  (`bounded-history-provider.ts:2111-2118`), because the retrieval time of the page is part of
  what is compared.
- The alignment of a package is unknown as soon as one leg is missing, so that a valuation
  with a modelled leg may combine observed legs further apart than the skew, although
  `src/docs/historical-option-package.md:276-279` excludes misaligned packages from valuation.
  `ValuationsHonest` therefore asks for the skew of fully observed packages only.
- Where no resolution has a whole snapshot the package has the legs without their candles, so that
  a leg that was answered in full is modelled as well (`historical-option-package.ts:1065-1075`,
  `historical-option-package-horizons.ts:1590`); `Candles` therefore counts candles of
  whole batches only, and so does `NothingSeen`, by which a modelled leg is one without an error
  and without any candle that was available.
- A candle result can be PARTIAL with no `failure_reasons`: when a requested field other than the
  OHLC is null in some record of the request, or another symbol has no records, only the warnings
  say so (`bounded-history-provider.ts:2186-2206`, `2432-2465`). `EveryGapNamed` says that nothing
  else can be the matter then.
- A report may be COMPLETE with records that are values without a trade (`CompletenessProved`
  says so), and a universe may be COMPLETE although a batch of parity pairs failed; its deltas
  then rest on the spot as forward, and say so.

## 6. Assumptions and abstractions

- `EvidenceStore`: a manifest has at most three immutable files, all started at once; the file system
  renames and links atomically, and `Posix` is the file-system mode: on POSIX a temp file is
  linked to its final name and stays until the read-back, on Azure Files (SMB) it is renamed. A temp
  file is always removed: that closing or removing it fails is left out.
  `EvidenceCache`: a commit is one step; the manifest of a failure that may not be retried,
  which no index names, is not kept; the provider permit is not
  modelled (a newcomer may pass a waiter that was woken and not yet run, and the limit is then
  exceeded by one, `evidence-cache.ts:2450-2464`).
- `CandleSnapshot`: the server sends the handshake in protocol order; the raw and the
  canonical name of an unknown symbol are charged together; a row conflicts with any committed row
  of its timestamp, where the code asks the first of them (`historical-candles.ts:2144-2148`); the stage that a refused attempt
  reports is not kept. `CalendarRecovery`: the bytes of a row are one unit; a refused
  snapshot received nothing; errors that abort the whole request are left out.
- `QuoteToken`: the provider issues fresh tokens, and HTTP calls time out. The run has one
  retry where the code has two.
- `LiveSnapshot`: timers fire on time; of the handshake only the steps after which the code
  behaves differently are kept; values of events are left out.
- `BoundedHistory`: whatever `normalizePage` refuses is one refused page; retryable errors
  are alike up to their code; a timer and the processing of a page may each be late by `Late`.
  A record is `Full`, `Lean` (its OHLC is complete, so that it is a candle, but another requested
  field is null) or `Bare` (a part of its OHLC is null, so that it is skipped).
- `CandidateRange`: a discovery lets others run after the reconstruction, after each item and
  while it waits for a backtest; an item has one candidate at most, and the run has one item
  per session. Only the discovery itself uses the limiter. A crash loses the call and the
  limiter, never the cursor that the client already holds. That decoding refuses a count of 429s
  or retries above a million (`historical-spx-candidate-range.ts:749,797`) is left out: retries
  are capped before they are encoded, and a process meets no million 429s between two calls.
- The research modules: prices and times are integers, a content ID is the value that it
  stands for, and averages are kept as their two terms. `OptionPrice` and `CallDelta` stand for
  Black-Scholes and Black-76: they grow and fall with the same arguments, and nothing checked
  depends on more. Calendars, resolution profiles and contract identities are given as the
  code normalises them. `require_sizes`, which the code insists on being true
  (`historical-execution-evidence.ts:1543-1547`), is not a parameter. The client of
  `ReplayStudy` takes candidates and horizons in order, and cells in some order, which changes
  no result because the calls share nothing; what ties in every key of a sort is chosen, where the
  code takes what was read first (`historical-spx-reconstruction.ts:1320-1327`); the grid of strikes has a radius of a few steps.
- Logging, the wording of messages and the layout of results are left out everywhere.

## 7. Not modelled yet, and the plan

In this order:

1. The rest of the pure algorithms: `EventPath` (`historical-event-path.ts`), the strategy
   evidence and `PackagePricing`, the quality and alignment of live values
   (`live-option-quality.ts`), the measurement of implied volatility (`dd-iv-measurement.ts`).
2. `BrokerHistory` (pages that change under the reader), `ManifestSet` and the provider
   permit of the evidence cache, the validation of bounded-history requests.

Left out for good: the heuristic signed GEX and the option model (floating-point numerics
that TLC cannot evaluate), and the servers and adapters, which dispatch one request each and
keep no state.
