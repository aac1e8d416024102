----------------------------- MODULE CandidateRange -----------------------------
(***************************************************************************)
(* SPX candidate discovery over a range of sessions                        *)
(* (historical-spx-candidate-range.ts): a client resumes a range with the  *)
(* cursor of the call before until no session is pending.  Each call       *)
(* schedules some sessions, a pool of workers discovers them one by one    *)
(* with retries under a deadline each, and the results, the cooldown of    *)
(* the provider and the sessions left are folded into the next cursor.     *)
(*                                                                         *)
(* Sessions are 1..NumDates in calendar order.  A discovery stops after    *)
(* the reconstruction, after each item and while it waits for a backtest:  *)
(* the calls of an item in between meet nothing that changes but the       *)
(* limiter, which refuses new calls in a cooldown; what other tools do     *)
(* with the limiter is left out.  Timers fire on time.  The metadata of a  *)
(* rate limit is without retry_after_seconds and remaining.  A call of the *)
(* client may be lost with the process.                                    *)
(*                                                                         *)
(* OnlyThisRun, RotatedFirst, ForgetsPlan, UncappedPause, AlwaysNamed and  *)
(* IgnoresCooldown are faulty variants of the definition after them, for   *)
(* testing the properties.                                                 *)
(***************************************************************************)
EXTENDS CandidateDiscovery, FiniteSets, FiniteSetsExt

CONSTANTS
  NumDates, Workers, MaxConcurrency, MaxCheckpointsPerRun,
  CheckpointDeadline, MaxAttempts, Backoff,
  PollInterval, MaxPolls,
  FallbackDelays, MaxFallback, Multipliers,  \* the last in percent
  MaxRetryCount,
  Provider,         \* the name of the backtest service
  Logs,             \* what getBacktestLogs may bring
  Simulations,      \* what simulateTrade may bring
  ProviderErrors,   \* errors of a backtest call other than a 429
  CandleErrors,     \* errors of the reconstruction from candles
  Pricings,         \* whether a reconstructed candidate has price and delta
  Modes,            \* evidence_cache.mode
  FirstCursors,     \* cursors the client may begin with
  Cooldowns,        \* lengths of a cooldown that a 429 may ask for
  Max429, MaxCrashes, MaxRuns, LastStart  \* bounds: 429s of a process,
                    \* crashes, calls of the client that return, and their last start

ASSUME PoolAssumption ==
  {NumDates, MaxConcurrency, MaxCheckpointsPerRun, CheckpointDeadline,
   MaxAttempts, MaxRetryCount} \subseteq Nat \ {0} /\ Cardinality(Workers) = MaxConcurrency
ASSUME DelayAssumption ==
  /\ {Backoff, PollInterval, MaxPolls, MaxFallback} \subseteq Nat
  /\ FallbackDelays \in Seq(Nat) /\ FallbackDelays # <<>> /\ Multipliers \subseteq Nat
  /\ Cooldowns \subseteq Nat
ASSUME PricingAssumption == Pricings \subseteq BOOLEAN
\* What a delay has grown to after some retries beyond the table.
Threefold(times) == 3 ^ times
ASSUME GrowthAssumption == \A times \in 0..MaxRetryCount : Threefold(times) \in Nat

Dates == 1..NumDates

\* The members of a sequence at some indices, in order.
Picked(s, indices) ==
  LET order == CHOOSE f \in [1..Cardinality(indices) -> indices] :
                 \A i, j \in DOMAIN f : i < j => f[i] < f[j]
  IN  [k \in DOMAIN order |-> s[order[k]]]

Least(a, b) == IF a < b THEN a ELSE b
Most(a, b) == IF a > b THEN a ELSE b

VARIABLES
  clock,
  limiter,  \* getProviderRateLimitState() of this process, None before a 429
  cursor,   \* continuation_cursor of the client's next call
  run,      \* the call: schedule, plan and the next index of the pool
  worker,   \* worker[w]: the checkpoint that w is at and how far it is
  results,  \* the checkpoints that are through, by index
  state,    \* history: what the cursor was made of
  passed,   \* history: passed[d] were attempted since d, eligible, was not
  told      \* history: the latest end of a cooldown that a call reported

vars == <<clock, limiter, cursor, run, worker, results, state, passed, told>>

-----------------------------------------------------------------------------
(* The cursor (encodeContinuation, decodeContinuation).                     *)

NoRetry == [count |-> 0, at |-> None, error |-> None, provider |-> None]
RetryOf(e) == [count |-> e.count, at |-> e.at, error |-> e.error, provider |-> e.provider]
EntryOf(d, r) ==
  [date |-> d, count |-> r.count, at |-> r.at, error |-> r.error, provider |-> r.provider]
Deferred(d) == EntryOf(d, NoRetry)

Statuses == {"AVAILABLE", "PARTIAL", "NOT_AVAILABLE"}
Causes == {"HTTP_429", "ACTIVE_COOLDOWN"}
Categories == <<"PROVIDER_TIMEOUT", "PROVIDER_RATE_LIMIT", "PROVIDER_ERROR", "CACHE_ERROR">>
CodeOf(category) == CHOOSE i \in DOMAIN Categories : Categories[i] = category

\* What cursors, failures and results of checkpoints can hold.
Completions == UNION {[D -> Statuses] : D \in SUBSET Dates}
Limits == [until : Nat, last : Nat, count : Nat]
Rates ==
  [provider : {Provider}, cause : Causes, until : Nat, last : Nat, count : Nat]
Metadatas ==
  [count : Nat, at : Nat \cup {None}, error : ToSet(Categories) \cup {None},
   provider : {None, Provider}]
Entries ==
  [date : Dates, count : Nat, at : Nat \cup {None}, error : ToSet(Categories) \cup {None},
   provider : {None, Provider}]
States ==
  [completed : Completions, unattempted : Seq(Dates), deferred : Seq(Entries),
   rate : Rates \cup {None}]
Codes ==
  Dates \X Nat \X (Nat \cup {None}) \X (DOMAIN Categories \cup {None}) \X {None, "", Provider}
Cursors ==
  [version : {3}, completed : Completions, unattempted : Seq(Dates), deferred : Seq(Codes),
   rate : Rates \cup {None}]
OldCursors ==
  [version : {1, 2}, completed : Completions, unattempted : Seq(Dates), deferred : Seq(Dates)]
Failures ==
  [category : ToSet(Categories), retryable : BOOLEAN, rate : Rates \cup {None}]
Checked ==
  [date : Dates, status : Statuses \cup ToSet(Categories), failure : Failures \cup {None},
   retry : Metadatas, attempts : Nat]

ErrorCodes ==
  TimeoutCodes \cup NetworkCodes \cup {"NONE", "PROVIDER_RATE_LIMIT", "ERR_CANCELED"}

\* An error of a provider has no metadata of a rate limit, nor has its cause.
PlainErrors(causes) ==
  [status : Nat, code : ErrorCodes, cache : BOOLEAN, retryable : BOOLEAN, rate : {None},
   cause : causes]

KeptErrors ==
  [status : Nat, code : ErrorCodes, cache : BOOLEAN, retryable : BOOLEAN,
   rate : Rates \cup {None}, cause : {None}]
Results ==
  [found : 0..NumItems, priced : BOOLEAN, tried : Nat, errors : Seq(KeptErrors)]

Stages == {"reconstruct", "item", "wait", "pause"}
Attempts ==
  [at : Nat \ {0}, attempt : 1..MaxAttempts, started : Nat, best : Results \cup {None},
   pc : Stages, left : 0..NumItems, found : 0..NumItems, priced : BOOLEAN, tried : Nat,
   errors : Seq(KeptErrors), polls : Nat, wake : Nat]

IdleRuns == [phase : {"idle", "complete"}, calls : Nat, crashes : Nat]
ActiveRuns ==
  [phase : {"running"}, calls : Nat, crashes : Nat, mode : Modes, plan : States,
   schedule : Seq(Entries), eligible : Seq(Entries), cooling : Seq(Entries),
   started : Nat, next : Nat \ {0}]

\* There is one provider, and the client begins with nothing or with a cursor
\* that a call handed out.
ASSUME ProviderAssumption == Provider \notin {"", None}
ASSUME CursorAssumption == FirstCursors \subseteq {None} \cup Cursors \cup OldCursors
ASSUME ErrorAssumption ==
  ProviderErrors \cup CandleErrors \subseteq PlainErrors({None} \cup PlainErrors({None}))
ASSUME NoneAssumption ==
  None \notin Nat \cup {""} \cup ToSet(Categories) \cup Limits \cup Rates \cup States \cup Cursors
              \cup OldCursors \cup Failures \cup Checked \cup Results
              \cup PlainErrors({None})

DefaultProvider(rate) == IF rate = None THEN None ELSE rate.provider

AlwaysNamed(s) ==
  [version |-> 3, completed |-> s.completed, unattempted |-> s.unattempted,
   deferred |-> [i \in DOMAIN s.deferred |->
      LET e == s.deferred[i]
      IN  <<e.date, e.count, e.at, IF e.error = None THEN None ELSE CodeOf(e.error),
            IF e.provider = None THEN None ELSE e.provider>>],
   rate |-> s.rate]
\* The provider of an entry is left out when it is that of the cursor, and ""
\* when there is none.
EncodeContinuation(s) ==
  [version |-> 3, completed |-> s.completed, unattempted |-> s.unattempted,
   deferred |-> [i \in DOMAIN s.deferred |->
      LET e == s.deferred[i]
      IN  <<e.date, e.count, e.at, IF e.error = None THEN None ELSE CodeOf(e.error),
            IF e.provider = DefaultProvider(s.rate) THEN None
            ELSE IF e.provider = None THEN "" ELSE e.provider>>],
   rate |-> s.rate]

DecodeDeferred(entry, default) ==
  [date |-> entry[1], count |-> entry[2], at |-> entry[3],
   error |-> IF entry[4] = None THEN None ELSE Categories[entry[4]],
   provider |-> IF entry[5] = None THEN default
                ELSE IF entry[5] = "" THEN None ELSE entry[5]]

DeferredDates(s) == [i \in DOMAIN s.deferred |-> s.deferred[i].date]

\* Completed, unattempted and deferred sessions partition the range, and the
\* unattempted ones are in calendar order.
ValidContinuation(s) ==
  LET completed == DOMAIN s.completed
      untried   == ToSet(s.unattempted)
      waiting   == ToSet(DeferredDates(s))
  IN  /\ \A i, j \in DOMAIN s.deferred : s.deferred[i].date = s.deferred[j].date => i = j
      /\ completed \cap untried = {} /\ completed \cap waiting = {}
      /\ untried \cap waiting = {}
      /\ completed \cup untried \cup waiting = Dates
      /\ \A i, j \in DOMAIN s.unattempted : i < j => s.unattempted[i] < s.unattempted[j]

DecodedV12(c) ==
  [completed |-> c.completed, unattempted |-> c.unattempted,
   deferred |-> [i \in DOMAIN c.deferred |-> Deferred(c.deferred[i])], rate |-> None]

DecodedV3(c) ==
  [completed |-> c.completed, unattempted |-> c.unattempted,
   deferred |-> [i \in DOMAIN c.deferred |->
                   DecodeDeferred(c.deferred[i], DefaultProvider(c.rate))],
   rate |-> c.rate]

\* None when the cursor is refused.
DecodeContinuation(c) ==
  LET s == IF c.version = 3 THEN DecodedV3(c) ELSE DecodedV12(c)
  IN  IF ValidContinuation(s) THEN s ELSE None

\* prepareRange: what a call starts from.
WholeRange == [completed |-> <<>>, unattempted |-> [i \in Dates |-> i],
               deferred |-> <<>>, rate |-> None]
Continuation == IF cursor = None THEN WholeRange ELSE DecodeContinuation(cursor)

-----------------------------------------------------------------------------
(* Which sessions a call runs.                                              *)

Concerns(rate, e) ==
  /\ e.error = "PROVIDER_RATE_LIMIT" /\ rate # None
  /\ e.provider \in {None, rate.provider}

IgnoresCooldown(e, rate) == e.count < MaxRetryCount
IsRetryEligible(e, rate) ==
  Most(IF e.at = None THEN 0 ELSE e.at, IF Concerns(rate, e) THEN rate.until ELSE 0) <= clock

FirstPass(plan) == plan.unattempted # <<>>
Ready(plan) == {i \in DOMAIN plan.deferred : IsRetryEligible(plan.deferred[i], plan.rate)}
Eligible(plan) == Picked(plan.deferred, Ready(plan))
Cooling(plan) == Picked(plan.deferred, DOMAIN plan.deferred \ Ready(plan))

Schedulable(plan, mode) ==
  IF FirstPass(plan) THEN [i \in DOMAIN plan.unattempted |-> Deferred(plan.unattempted[i])]
  ELSE IF mode = "CACHE_ONLY" THEN plan.deferred
  ELSE Eligible(plan)

Scheduled(plan, mode) ==
  LET all == Schedulable(plan, mode)
  IN  SubSeq(all, 1, Least(Len(all), MaxCheckpointsPerRun))

Idle == [at |-> 0]
NoRun == [phase |-> "idle", calls |-> 0, crashes |-> 0]

\* A worker takes the next checkpoint: runCheckpoint up to its first await.
AttemptOf(index, attempt, started, best) ==
  [at |-> index, attempt |-> attempt, started |-> started, best |-> best,
   pc |-> "reconstruct", left |-> NumItems, found |-> 0, priced |-> TRUE,
   tried |-> 0, errors |-> <<>>, polls |-> 0, wake |-> 0]

\* The first workers of the pool, whichever they are.
FreshWorkers(count) ==
  {[w \in Workers |-> IF \E i \in 1..count : pool[i] = w
                      THEN AttemptOf(CHOOSE i \in 1..count : pool[i] = w, 1, clock, None)
                      ELSE Idle] :
     pool \in {f \in [1..count -> Workers] : \A i, j \in 1..count : f[i] = f[j] => i = j}}

Init ==
  /\ clock = 0 /\ limiter = None
  /\ cursor \in FirstCursors
  /\ run = NoRun /\ worker = [w \in Workers |-> Idle] /\ results = <<>>
  /\ state = Continuation
  /\ passed = [d \in Dates |-> {}] /\ told = 0

StartRun(mode) ==
  /\ run.phase = "idle" /\ state # None
  /\ run.calls < MaxRuns /\ clock <= LastStart
  /\ LET plan == Continuation
         schedule == Scheduled(plan, mode)
         pool == Least(MaxConcurrency, Len(schedule))
     IN  /\ run' = [phase |-> "running", calls |-> run.calls, crashes |-> run.crashes,
                    mode |-> mode, plan |-> plan, schedule |-> schedule,
                    eligible |-> IF mode = "CACHE_ONLY" THEN plan.deferred ELSE Eligible(plan),
                    cooling |-> Cooling(plan), started |-> clock, next |-> pool + 1]
         /\ worker' \in FreshWorkers(pool)
         /\ results' = [i \in DOMAIN schedule |-> None]
  /\ UNCHANGED <<clock, limiter, cursor, state, passed, told>>

-----------------------------------------------------------------------------
(* The end of a checkpoint.                                                 *)

\* rateLimitFallbackDelay
Fallbacks(count) ==
  LET last == Len(FallbackDelays)
      growth == IF count <= last THEN FallbackDelays[count]
                ELSE FallbackDelays[last] * Threefold(count - last)
  IN  {Least(MaxFallback, (Least(growth, MaxFallback) * m) \div 100) : m \in Multipliers}

\* retryMetadataForFailure, one for each delay that random() may give.
RetriesAfterFailure(previous, failure) ==
  LET count == Least(MaxRetryCount, previous.count + 1)
  IN  IF failure.category # "PROVIDER_RATE_LIMIT"
      THEN {[count |-> count, at |-> None, error |-> failure.category, provider |-> None]}
      ELSE {[count |-> count, error |-> failure.category, provider |-> Provider,
             at |-> IF failure.rate = None THEN clock + delay
                    ELSE Most(clock, failure.rate.until)] : delay \in Fallbacks(count)}

Retries(previous, failure) ==
  IF failure # None THEN RetriesAfterFailure(previous, failure)
  ELSE {[previous EXCEPT !.at = None, !.error = None]}

\* The worker stores the result and takes the next checkpoint.
Finish(w, status, failure, attempts) ==
  LET at == worker[w].at
      entry == run.schedule[at]
  IN  /\ \E retry \in Retries(RetryOf(entry), failure) :
           results' = [results EXCEPT ![at] =
             [date |-> entry.date, status |-> status, failure |-> failure, retry |-> retry,
              attempts |-> attempts]]
      /\ IF run.next <= Len(run.schedule)
         THEN /\ worker' = [worker EXCEPT ![w] = AttemptOf(run.next, 1, clock, None)]
              /\ run' = [run EXCEPT !.next = @ + 1]
         ELSE worker' = [worker EXCEPT ![w] = Idle] /\ UNCHANGED run

DeadlineOf(w) == worker[w].started + CheckpointDeadline

\* The head of the loop for the attempt after this one.
NextAttempt(w, best) ==
  LET me == worker[w]
  IN  IF clock >= DeadlineOf(w)
      THEN Finish(w, FailureStatus(ProviderTimeout, best), ProviderTimeout, me.attempt + 1)
      ELSE /\ worker' = [worker EXCEPT ![w] = AttemptOf(me.at, me.attempt + 1, me.started, best)]
           /\ UNCHANGED <<run, results>>

UncappedPause(w) == Backoff
PauseFor(w) == Least(Backoff, Most(0, DeadlineOf(w) - clock))

TryAgain(w, best) ==
  IF Backoff = 0 THEN NextAttempt(w, best)
  ELSE /\ worker' = [worker EXCEPT ![w] =
            [AttemptOf(@.at, @.attempt, @.started, best) EXCEPT
               !.pc = "pause", !.wake = clock + PauseFor(w)]]
       /\ UNCHANGED <<run, results>>

ShortRetry(w, failure) ==
  /\ failure.retryable /\ failure.category # "PROVIDER_RATE_LIMIT"
  /\ worker[w].attempt < MaxAttempts

\* discover returned.
Returned(w, result) ==
  LET best == BetterResult(worker[w].best, result)
      failure == FailureFromResult(result)
  IN  IF failure # None /\ ShortRetry(w, failure) THEN TryAgain(w, best)
      ELSE Finish(w, IF failure # None /\ result.found = 0 THEN failure.category
                     ELSE CompletionStatus(result),
                  failure, worker[w].attempt)

\* discover threw.
Threw(w, error) ==
  LET failure == ClassifyFailure(error)
      best == worker[w].best
  IN  IF ShortRetry(w, failure) /\ clock < DeadlineOf(w) THEN TryAgain(w, best)
      ELSE Finish(w, FailureStatus(failure, best), failure, worker[w].attempt)

rangeVars == <<clock, cursor, state, passed, told>>

Wake(w) ==
  /\ worker[w].at # 0 /\ worker[w].pc = "pause" /\ clock >= worker[w].wake
  /\ NextAttempt(w, worker[w].best)
  /\ UNCHANGED <<rangeVars, limiter>>

-----------------------------------------------------------------------------
(* One discovery (discoverHistoricalSpxCandidates).                         *)

PlainError == [status |-> 0, code |-> "NONE", cache |-> FALSE, retryable |-> FALSE,
               rate |-> None, cause |-> None]
DeadlineError == [PlainError EXCEPT !.code = "PROVIDER_TIMEOUT"]
Metadata(l, cause) ==
  [provider |-> Provider, cause |-> cause,
   until |-> l.until, last |-> l.last, count |-> l.count]
LimitError(l, cause) ==
  [PlainError EXCEPT !.status = 429, !.code = "PROVIDER_RATE_LIMIT",
                     !.retryable = TRUE, !.rate = Metadata(l, cause)]

At(w, pc) == worker[w].at # 0 /\ worker[w].pc = pc

ResultOf(me) ==
  [found |-> me.found, priced |-> me.priced, tried |-> me.tried, errors |-> me.errors]

\* The next provider call of a discovery, unless its time is up.
Continue(w, me) ==
  IF clock >= DeadlineOf(w) THEN Threw(w, DeadlineError)
  ELSE worker' = [worker EXCEPT ![w] = me] /\ UNCHANGED <<run, results>>

\* The items that were found, in the candles or by a backtest, are counted;
\* without an item left the discovery returns.
Found(w, me) ==
  IF me.left = 0 THEN Returned(w, ResultOf(me)) ELSE Continue(w, [me EXCEPT !.pc = "item"])

Reconstructed(w, count, priced) ==
  LET found == [worker[w] EXCEPT !.found = count, !.priced = priced, !.tried = count,
                                 !.left = @ - count]
  IN  Found(w, IF run.mode = "CACHE_ONLY" THEN [found EXCEPT !.tried = NumItems, !.left = 0]
               ELSE found)

Reconstruct(w) ==
  /\ At(w, "reconstruct")
  /\ \/ \E count \in 0..NumItems, priced \in Pricings :
          (count = 0 => priced) /\ Reconstructed(w, count, priced)
     \/ \E error \in CandleErrors :
          IF IsProviderTimeoutError(error) \/ run.mode = "CACHE_ONLY" \/ error.cache
          THEN Threw(w, error) ELSE Reconstructed(w, 0, TRUE)
  /\ UNCHANGED <<rangeVars, limiter>>

ItemEnds(w, found, priced, errors) ==
  Found(w, [worker[w] EXCEPT !.left = @ - 1, !.tried = @ + 1, !.polls = 0, !.wake = 0,
                             !.found = @ + found, !.priced = @ /\ priced,
                             !.errors = @ \o errors])

\* A failed call ends its item, except that a candidate stays without its
\* price; a timeout ends the discovery.
CallFails(w, error) ==
  \/ IF IsProviderTimeoutError(error) THEN Threw(w, error)
     ELSE ItemEnds(w, 0, TRUE, <<ProviderErrorMetadata(error)>>)
  \/ ~IsProviderTimeoutError(error) /\ ItemEnds(w, 1, FALSE, <<>>)

\* The backtest is not completed: the next poll is a PollInterval away.
StillRunning(w) ==
  /\ At(w, "item")
  /\ IF worker[w].polls + 1 = MaxPolls
     THEN ItemEnds(w, 0, TRUE, <<ProviderErrorMetadata(PlainError)>>)
     ELSE Continue(w, [worker[w] EXCEPT !.pc = "wait", !.polls = @ + 1,
                         !.wake = Least(clock + PollInterval, DeadlineOf(w))])
  /\ UNCHANGED <<rangeVars, limiter>>

PollAgain(w) ==
  /\ At(w, "wait") /\ clock >= worker[w].wake
  /\ Continue(w, [worker[w] EXCEPT !.pc = "item", !.wake = 0])
  /\ UNCHANGED <<rangeVars, limiter>>

\* The backtest is completed, its logs are read and a candidate is enriched.
Evaluated(w) ==
  /\ At(w, "item")
  /\ \E logs \in Logs, simulation \in Simulations :
       IF ExtractCandidate(logs) = "CANDIDATE_FOUND"
       THEN ItemEnds(w, 1, EnrichCandidate(simulation), <<>>)
       ELSE ItemEnds(w, 0, TRUE, <<>>)
  /\ UNCHANGED <<rangeVars, limiter>>

Fails(w) ==
  /\ At(w, "item")
  /\ \E error \in ProviderErrors : CallFails(w, error)
  /\ UNCHANGED <<rangeVars, limiter>>

\* recordRateLimit.
Penalized(length) ==
  IF limiter = None THEN [until |-> clock + length, last |-> clock, count |-> 1]
  ELSE [until |-> Most(limiter.until, clock + length), last |-> clock,
        count |-> limiter.count + 1]
MayLimit == (IF limiter = None THEN 0 ELSE limiter.count) < Max429

Limited(w) ==
  /\ At(w, "item") /\ MayLimit
  /\ \E length \in Cooldowns :
       /\ limiter' = Penalized(length)
       /\ CallFails(w, LimitError(limiter', "HTTP_429"))
  /\ UNCHANGED rangeVars

\* A call that reaches the gate in a cooldown.
Suppressed(w) ==
  /\ At(w, "item") /\ limiter # None /\ clock < limiter.until
  /\ CallFails(w, LimitError(limiter, "ACTIVE_COOLDOWN"))
  /\ UNCHANGED <<rangeVars, limiter>>

\* The timer of the race, which abandons the discovery.
DeadlineExpires(w) ==
  /\ worker[w].at # 0 /\ worker[w].pc # "pause" /\ clock >= DeadlineOf(w)
  /\ Threw(w, DeadlineError)
  /\ UNCHANGED <<rangeVars, limiter>>

-----------------------------------------------------------------------------
(* The end of a call of the client.                                         *)

Checkpoints == [i \in DOMAIN results |-> results[i]]
IsLimited(c) == c.failure # None /\ c.failure.category = "PROVIDER_RATE_LIMIT"

KeyOf(rate) == <<rate.provider, rate.last, rate.count>>

\* The rate limits of the plan, of the process and of the checkpoints; a 429
\* without metadata gets the fallback of its checkpoint and counts as one.
ForgetsPlan(rate, process, checkpoints) ==
  IF process # None THEN Metadata(process, "HTTP_429") ELSE None
MergeProviderRateLimit(rate, process, checkpoints) ==
  LET limited  == {i \in DOMAIN checkpoints : IsLimited(checkpoints[i])}
      naming   == {i \in limited : checkpoints[i].failure.rate # None}
      named    == Picked(checkpoints, naming)
      unnamed  == Picked(checkpoints, limited \ naming)
      fresh    == {KeyOf(checkpoints[i].failure.rate) :
                     i \in {k \in naming : checkpoints[k].failure.rate.cause = "HTTP_429"}}
      counted  == (IF rate = None THEN 0 ELSE rate.count)
                  + Cardinality(IF rate = None THEN fresh ELSE fresh \ {KeyOf(rate)})
      known    == (IF rate = None THEN <<>> ELSE <<rate>>)
                  \o (IF process = None THEN <<>> ELSE <<Metadata(process, "HTTP_429")>>)
                  \o [i \in DOMAIN named |-> named[i].failure.rate]
                  \o [i \in DOMAIN unnamed |->
                        [provider |-> unnamed[i].retry.provider, until |-> unnamed[i].retry.at,
                         last |-> clock, count |-> counted + i, cause |-> "HTTP_429"]]
  IN  IF known = <<>> THEN None
      ELSE [known[FirstLongest(DOMAIN known, [i \in DOMAIN known |-> known[i].until])] EXCEPT
              !.last  = Max({known[i].last : i \in DOMAIN known}),
              !.count = Max({known[i].count : i \in DOMAIN known}
                            \cup {counted + Len(unnamed)})]

\* applyProviderCooldown
ApplyProviderCooldown(e, rate) ==
  IF Concerns(rate, e) /\ rate.until > (IF e.at = None THEN 0 ELSE e.at)
  THEN [e EXCEPT !.at = rate.until, !.provider = IF @ = None THEN rate.provider ELSE @]
  ELSE e

\* The entry that an unresolved checkpoint is deferred with.
Unresolved(c, rate) ==
  EntryOf(c.date,
    IF IsLimited(c) /\ rate # None
    THEN [c.retry EXCEPT !.at = rate.until, !.provider = rate.provider] ELSE c.retry)

Through(checkpoints) == {i \in DOMAIN checkpoints : checkpoints[i].failure = None}
DatesOf(checkpoints, indices) == {checkpoints[i].date : i \in indices}
StatusOf(checkpoints, d) ==
  checkpoints[CHOOSE i \in Through(checkpoints) : checkpoints[i].date = d].status

OnlyThisRun(plan, checkpoints) ==
  [d \in DatesOf(checkpoints, Through(checkpoints)) |-> StatusOf(checkpoints, d)]
Completed(plan, checkpoints) ==
  LET through == DatesOf(checkpoints, Through(checkpoints))
  IN  [d \in through \cup DOMAIN plan.completed |->
         IF d \in through THEN StatusOf(checkpoints, d) ELSE plan.completed[d]]

Beyond(queue) == SubSeq(queue, Len(run.schedule) + 1, Len(queue))

RotatedFirst(plan, unresolved) == unresolved \o Beyond(run.eligible) \o run.cooling
\* In a first pass the deferred sessions keep their place; later the ones that
\* were tried go to the end.
DeferredQueue(plan, unresolved) ==
  IF FirstPass(plan) THEN plan.deferred \o unresolved
  ELSE IF run.mode = "CACHE_ONLY" THEN Beyond(plan.deferred) \o unresolved
  ELSE Beyond(run.eligible) \o run.cooling \o unresolved

NextState ==
  LET plan == run.plan
      rate == MergeProviderRateLimit(plan.rate, limiter, Checkpoints)
      failed == Picked(Checkpoints, {i \in DOMAIN Checkpoints : Checkpoints[i].failure # None})
      unresolved == [i \in DOMAIN failed |-> Unresolved(failed[i], rate)]
      queue == DeferredQueue(plan, unresolved)
  IN  [completed |-> Completed(plan, Checkpoints),
       unattempted |-> IF FirstPass(plan) THEN Beyond(plan.unattempted) ELSE <<>>,
       deferred |-> [i \in DOMAIN queue |-> ApplyProviderCooldown(queue[i], rate)],
       rate |-> rate]

\* The cooldown ends that the checkpoints of this call were told.
Told == {results[i].failure.rate.until :
           i \in {k \in DOMAIN results : IsLimited(results[k]) /\ results[k].failure.rate # None}}

ScheduledDates == {run.schedule[i].date : i \in DOMAIN run.schedule}
EligibleDates == {run.eligible[i].date : i \in DOMAIN run.eligible}

Forget == [NoRun EXCEPT !.calls = run.calls, !.crashes = run.crashes]
Returns == [Forget EXCEPT !.calls = @ + 1]

CompleteRun ==
  /\ run.phase = "running" /\ \A w \in Workers : worker[w].at = 0
  /\ state' = NextState
  /\ cursor' = IF state'.unattempted = <<>> /\ state'.deferred = <<>> THEN None
               ELSE EncodeContinuation(state')
  /\ run' = IF cursor' = None THEN [Returns EXCEPT !.phase = "complete"] ELSE Returns
  /\ results' = <<>>
  /\ passed' = [d \in Dates |->
       IF FirstPass(run.plan) \/ d \in ScheduledDates \/ d \notin EligibleDates THEN {}
       ELSE passed[d] \cup ScheduledDates]
  /\ told' = Max(Told \cup {told})
  /\ UNCHANGED <<clock, limiter, worker>>

\* The process ends within a call: the client keeps its cursor.
Crash ==
  /\ run.phase = "running" /\ run.crashes < MaxCrashes
  /\ run' = [Forget EXCEPT !.crashes = @ + 1]
  /\ worker' = [w \in Workers |-> Idle] /\ results' = <<>> /\ limiter' = None
  /\ UNCHANGED rangeVars

Due(w) ==
  /\ worker[w].at # 0
  /\ IF worker[w].pc = "pause" THEN clock >= worker[w].wake
     ELSE clock >= DeadlineOf(w) \/ (worker[w].pc = "wait" /\ clock >= worker[w].wake)

Tick ==
  /\ \A w \in Workers : ~Due(w)
  /\ \/ run.phase = "running" /\ \E w \in Workers : worker[w].at # 0
     \/ run.phase = "idle" /\ run.calls + run.crashes > 0 /\ clock < LastStart
  /\ clock' = clock + 1
  /\ UNCHANGED <<limiter, cursor, run, worker, results, state, passed, told>>

Work(w) ==
  \/ Wake(w) \/ Reconstruct(w) \/ StillRunning(w) \/ PollAgain(w)
  \/ Evaluated(w) \/ Fails(w) \/ Limited(w) \/ Suppressed(w)
  \/ DeadlineExpires(w)

Next ==
  \/ \E mode \in Modes : StartRun(mode)
  \/ \E w \in Workers : Work(w)
  \/ CompleteRun \/ Crash \/ Tick

Spec == Init /\ [][Next]_vars

-----------------------------------------------------------------------------
(* Properties.                                                              *)
TypeOK ==
  /\ clock \in Nat /\ told \in Nat /\ limiter \in Limits \cup {None}
  /\ cursor \in FirstCursors \cup Cursors \cup {None}
  /\ state \in States \cup {None}
  /\ run \in IdleRuns \cup ActiveRuns
  /\ worker \in [Workers -> Attempts \cup {Idle}]
  /\ results \in Seq(Checked \cup {None})
  /\ passed \in [Dates -> SUBSET Dates]

\* The cursor a call hands out is accepted by the next one and decodes to the
\* very state it was made of: every session is in exactly one of completed,
\* unattempted (in order) and deferred, with its retry metadata.  With no
\* cursor every session of the range is accounted for.
CursorFaithful ==
  IF cursor = None THEN ValidContinuation(state) ELSE DecodeContinuation(cursor) = state

\* A session that a call completed stays so, with its status, in every later
\* cursor, however many crashes, retries and old cursors lie between.
CompletedStays ==
  [][\A d \in DOMAIN state.completed :
       d \in DOMAIN state'.completed /\ state'.completed[d] = state.completed[d]]_vars

\* What a cursor says of the provider's cooldown never gets earlier and its
\* count of 429s never falls, although the process that saw them may be gone;
\* and unless it can only read the cache, a call does not retry a session that
\* a rate limit stopped before every cooldown that calls were told is over.
CooldownDurable ==
  /\ [][state # None /\ state.rate # None =>
          /\ state'.rate # None
          /\ state'.rate.until >= state.rate.until /\ state'.rate.last >= state.rate.last
          /\ state'.rate.count >= state.rate.count]_vars
  /\ [](run.phase = "running" /\ run.mode # "CACHE_ONLY" =>
          \A i \in DOMAIN run.schedule :
            run.schedule[i].error = "PROVIDER_RATE_LIMIT" => told <= run.started)

\* A checkpoint is through by its deadline, retries, pauses and a race with
\* late answers included, and after at most MaxAttempts attempts.
DeadlineKept ==
  \A w \in Workers : worker[w].at # 0 =>
    clock <= DeadlineOf(w) /\ worker[w].attempt <= MaxAttempts

\* No deferred session is retried again while another that was eligible all
\* along has been waiting since.
RoundRobin ==
  run.phase = "running" /\ ~FirstPass(run.plan) =>
    \A d \in ScheduledDates, e \in EligibleDates \ ScheduledDates : d \notin passed[e]

=============================================================================
