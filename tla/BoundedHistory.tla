---------------------------- MODULE BoundedHistory ----------------------------
(***************************************************************************)
(* One bounded-history request (bounded-history-provider.ts): the range is *)
(* cut into shards (splitBoundedHistoryWindow), each shard is read page by *)
(* page along the provider's cursors, each page with retries and timeouts, *)
(* all under one deadline and budgets (getBoundedHistory); the candle view *)
(* of the result is what getHistoricalCandlesBatch returns per symbol.     *)
(*                                                                         *)
(* The transport answers anything: whatever normalizePage refuses is one   *)
(* refused page, every other page a set of records.  A record is its key   *)
(* (symbol and time), its content and the moment its page was retrieved,   *)
(* which normalizeRecord puts into it.  Its retryable errors are alike, up *)
(* to their codes, and count as PROVIDER_TEMPORARY_FAILURE.  Time is in    *)
(* ticks, of the provider and of the data alike; timers and computations   *)
(* may be Late.                                                            *)
(*                                                                         *)
(* UnlimitedTime, OnThisPage, OnlyAcrossPages, OnlyFailed, StopsOnly and   *)
(* BarsAlone are faulty variants of the definition after them, for testing *)
(* the properties.                                                         *)
(***************************************************************************)
EXTENDS Integers, Sequences, FiniteSets

CONSTANTS
  Start, Stop,     \* the requested range of the data, stop exclusive
  WindowMs,        \* capabilities.maximum_window_ms
  Symbols,         \* the requested instruments
  Full,            \* contents of a record that has every requested field,
  Lean,            \* that has a complete OHLC, but lacks another one, and
  Bare,            \* that lacks a part of its OHLC, which is always requested
  Cursors,         \* what the provider may name as next_cursor
  None,            \* null
  PageBytes,       \* sizes a page may have
  PageSize, MaxPages, MaxRecords, MaxBytes,
  Deadline, RequestTimeout, MaxAttempts, BaseDelay, MaxDelay,
  Late             \* bound: lateness of timers, duration of normalizePage

ASSUME WindowAssumption ==
  Start \in Nat /\ Stop \in Nat /\ Start < Stop /\ WindowMs \in Nat \ {0}
ASSUME DataAssumption ==
  /\ Full \cap Lean = {} /\ (Full \cup Lean) \cap Bare = {} /\ None \notin Cursors
  /\ PageBytes \subseteq Nat /\ PageSize \in Nat \ {0}
ASSUME BudgetAssumption ==
  /\ {MaxPages, MaxRecords, MaxBytes, MaxAttempts} \subseteq Nat \ {0}
  /\ {Deadline, RequestTimeout} \subseteq Nat \ {0}
  /\ {BaseDelay, MaxDelay, Late} \subseteq Nat

Least(a, b) == IF a < b THEN a ELSE b

\* splitBoundedHistoryWindow
NumShards == (Stop - Start + WindowMs - 1) \div WindowMs
Shards == 1..NumShards
WindowStart(i) == Start + (i - 1) * WindowMs
WindowStop(i) == Least(WindowStart(i) + WindowMs, Stop)

VARIABLES
  now,       \* elapsedClock() - startedAt
  pc,        \* "page", "fetching", "sleeping" or "done"
  until,     \* when the timer of a fetch or a sleep is due
  attempts,  \* attempts at this page
  cursor, seen, pages, mine, partial,  \* of the shard: cursor, seenCursors,
                                       \* pages, shardRecords and partial
  records,   \* records, by key
  usage,     \* receivedRecords and receivedBytes
  shards,    \* the results of the shards that are through
  trail,     \* history: the pages of this shard that were accepted
  followed   \* history: shards whose pages were followed to the end

shard == <<cursor, seen, pages, mine, partial, trail>>
vars == <<now, pc, until, attempts, shard, records, usage, shards, followed>>

Current == Len(shards) + 1

Init ==
  /\ now = 0 /\ pc = "page" /\ until = 0 /\ attempts = 0
  /\ cursor = None /\ seen = {} /\ pages = 0 /\ mine = 0 /\ partial = FALSE
  /\ records = {} /\ usage = [records |-> 0, bytes |-> 0]
  /\ shards = <<>> /\ trail = <<>> /\ followed = {}

-----------------------------------------------------------------------------
(* The end of a shard.                                                      *)

Stops == {"MAXIMUM_RECORDS_EXCEEDED", "MAXIMUM_RESPONSE_BYTES_EXCEEDED",
          "DEADLINE_EXCEEDED"}

Codes ==
  Stops \cup {"PROVIDER_TIMEOUT", "PROVIDER_RATE_LIMIT",
              "PROVIDER_TEMPORARY_FAILURE", "PROVIDER_ERROR",
              "PROVIDER_SCHEMA_MISMATCH", "PROVIDER_PARTIAL_RESPONSE",
              "PAGE_LIMIT_EXCEEDED"}

ASSUME NoneAssumption == None \notin Codes

ShardStatus(failure, count) ==
  IF failure = None THEN "COMPLETE" ELSE IF count > 0 THEN "PARTIAL" ELSE "FAILED"

OnlyFailed(failure, some) == failure
PartialFailure(failure, some) ==
  IF some /\ failure = None THEN "PROVIDER_PARTIAL_RESPONSE" ELSE failure

\* The pages began at the null cursor, each was asked for by the one before
\* it, the last one named no other, none was partial, and all their records
\* are kept.
Whole(pagesRead, kept) ==
  /\ pagesRead # <<>>
  /\ pagesRead[1].asked = None /\ pagesRead[Len(pagesRead)].next = None
  /\ \A i \in 2..Len(pagesRead) : pagesRead[i].asked = pagesRead[i - 1].next
  /\ \A i \in DOMAIN pagesRead : /\ ~pagesRead[i].partial
                                 /\ pagesRead[i].records \subseteq kept

FinishShard(failure, pageCount, count, some, pagesRead, kept) ==
  LET final == PartialFailure(failure, some)
  IN  /\ shards' = Append(shards, [status |-> ShardStatus(final, count),
                                   failure |-> final, pages |-> pageCount,
                                   records |-> count])
      /\ pc' = IF failure \in Stops \/ Current = NumShards THEN "done" ELSE "page"
      /\ cursor' = None /\ seen' = {} /\ pages' = 0 /\ mine' = 0
      /\ partial' = FALSE /\ trail' = <<>>
      /\ followed' = IF Whole(pagesRead, kept) THEN followed \cup {Current} ELSE followed
      /\ attempts' = 0 /\ until' = 0

\* The page brought nothing.
FailShard(failure) ==
  /\ FinishShard(failure, pages, mine, partial, trail, records)
  /\ UNCHANGED <<records, usage>>

-----------------------------------------------------------------------------
(* The attempts at one page.                                                *)

\* withTimeout
FetchFor(remaining) ==
  /\ pc' = "fetching" /\ until' = now + Least(RequestTimeout, remaining)

UnlimitedTime == RequestTimeout
AttemptRemaining == Deadline - now

FetchPage ==
  /\ pc = "page" /\ pages < MaxPages /\ now < Deadline
  /\ attempts' = 1 /\ FetchFor(AttemptRemaining)
  /\ UNCHANGED <<now, shard, records, usage, shards, followed>>

NoTimeLeft ==
  /\ pc = "page" /\ pages < MaxPages /\ now >= Deadline
  /\ FailShard("DEADLINE_EXCEEDED") /\ UNCHANGED now

\* The loop only comes back for a cursor.
PagesUsedUp ==
  /\ pc = "page" /\ pages >= MaxPages
  /\ FailShard("PAGE_LIMIT_EXCEEDED") /\ UNCHANGED now

\* delayForAttempt
DelayForAttempt(n) == Least(BaseDelay * 2 ^ (n - 1), MaxDelay)

ASSUME DelayAssumption == \A n \in 1..MaxAttempts : DelayForAttempt(n) \in Nat

RetryRemaining == Deadline - now

FailAttempt(failure, retryable) ==
  /\ pc = "fetching"
  /\ IF ~retryable \/ attempts >= MaxAttempts THEN FailShard(failure)
     ELSE IF DelayForAttempt(attempts) >= RetryRemaining
     THEN FailShard("DEADLINE_EXCEEDED")
     ELSE /\ pc' = "sleeping" /\ until' = now + DelayForAttempt(attempts)
          /\ UNCHANGED <<attempts, shard, records, usage, shards, followed>>
  /\ UNCHANGED now

TimeOut == now >= until /\ FailAttempt("PROVIDER_TIMEOUT", TRUE)
FailForNow == FailAttempt("PROVIDER_TEMPORARY_FAILURE", TRUE)
FailForGood == FailAttempt("PROVIDER_ERROR", FALSE)

Retry ==
  /\ pc = "sleeping" /\ now >= until
  /\ IF AttemptRemaining <= 0 THEN FailShard("DEADLINE_EXCEEDED")
     ELSE /\ attempts' = attempts + 1 /\ FetchFor(AttemptRemaining)
          /\ UNCHANGED <<shard, records, usage, shards, followed>>
  /\ UNCHANGED now

Tick ==
  /\ pc \in {"fetching", "sleeping"} /\ now < until + Late
  /\ now' = now + 1
  /\ UNCHANGED <<pc, until, attempts, shard, records, usage, shards, followed>>

-----------------------------------------------------------------------------
(* A page.                                                                  *)

Contents == Full \cup Lean \cup Bare

\* Records with a source_time in the shard's window; the same record may be
\* on the page twice, and repeated counts those.
Page(i) ==
  [records : SUBSET [symbol : Symbols, time : WindowStart(i)..(WindowStop(i) - 1),
                     content : Contents],
   repeated : 0..PageSize, next : Cursors \cup {None}, partial : BOOLEAN,
   bytes : PageBytes]

Count(p) == Cardinality(p.records) + p.repeated

Pages(i) == {p \in Page(i) : /\ IsFiniteSet(p.records) /\ Count(p) <= PageSize
                             /\ p.records = {} => p.repeated = 0}

SameKey(r, q) == r.symbol = q.symbol /\ r.time = q.time

\* normalizeRecord puts retrieved_at into the record.
Retrieved(p) ==
  {[symbol |-> r.symbol, time |-> r.time, content |-> r.content, at |-> now] :
     r \in p.records}

\* JSON.stringify tells records apart, retrieved_at included.
OnlyAcrossPages(new) == \E r \in new : \E q \in records : SameKey(r, q) /\ r # q
Conflicting(new) ==
  \E r \in new : \E q \in new \cup records : SameKey(r, q) /\ r # q

Fresh(new) == {r \in new : \A q \in records : ~SameKey(r, q)}

OverBytes(bytes) == usage.bytes + bytes > MaxBytes

OnThisPage(p) == Count(p) > MaxRecords
OverRecords(p) == usage.records + Count(p) > MaxRecords

\* An answer that came before the deadline; cost is what normalizePage takes.
Answered(cost) ==
  /\ pc = "fetching" /\ now < Deadline
  /\ cost \in 0..Late /\ now' = now + cost

TooLate ==
  /\ pc = "fetching" /\ now >= Deadline
  /\ FailShard("DEADLINE_EXCEEDED") /\ UNCHANGED now

TooLarge ==
  /\ Answered(0) /\ \E bytes \in PageBytes : OverBytes(bytes)
  /\ FailShard("MAXIMUM_RESPONSE_BYTES_EXCEEDED")

\* Not JSON, or refused by normalizePage: for what it says, or because
\* something on it cannot even be read.
RefusePage ==
  /\ \E cost \in 0..Late : Answered(cost)
  /\ \E failure \in {"PROVIDER_SCHEMA_MISMATCH", "PROVIDER_ERROR"} : FailShard(failure)

TooSlow ==
  /\ \E cost \in 0..Late : Answered(cost) /\ now + cost >= Deadline
  /\ \E bytes \in PageBytes : ~OverBytes(bytes)
  /\ FailShard("DEADLINE_EXCEEDED")

TooMany ==
  /\ \E cost \in 0..Late : Answered(cost) /\ now + cost < Deadline
  /\ \E p \in Pages(Current) : ~OverBytes(p.bytes) /\ OverRecords(p)
  /\ FailShard("MAXIMUM_RECORDS_EXCEEDED")

\* The counters are charged before the records are looked at; a page with a
\* conflict leaves none of its records.
AcceptPage(p) ==
  LET new == Retrieved(p)
      kept == IF Conflicting(new) THEN records ELSE records \cup Fresh(new)
      count == mine + Cardinality(kept) - Cardinality(records)
      some == partial \/ p.partial
      read == Append(trail, [asked |-> cursor, next |-> p.next,
                             partial |-> p.partial, records |-> new])
      finish(failure) == FinishShard(failure, pages + 1, count, some, read, kept)
  IN  /\ usage' = [records |-> usage.records + Count(p), bytes |-> usage.bytes + p.bytes]
      /\ records' = kept
      /\ IF Conflicting(new) \/ p.next \in seen THEN finish("PROVIDER_SCHEMA_MISMATCH")
         ELSE IF p.next = None THEN finish(None)
         ELSE /\ cursor' = p.next /\ seen' = seen \cup {p.next}
              /\ pages' = pages + 1 /\ mine' = count /\ partial' = some /\ trail' = read
              /\ pc' = "page" /\ attempts' = 0 /\ until' = 0
              /\ UNCHANGED <<shards, followed>>

ReceivePage ==
  /\ \E cost \in 0..Late : Answered(cost) /\ now + cost < Deadline
  /\ \E p \in Pages(Current) :
       ~OverBytes(p.bytes) /\ ~OverRecords(p) /\ AcceptPage(p)

Next ==
  \/ FetchPage \/ NoTimeLeft \/ PagesUsedUp \/ Tick
  \/ TimeOut \/ FailForNow \/ FailForGood \/ Retry
  \/ TooLate \/ TooLarge \/ RefusePage \/ TooSlow \/ TooMany \/ ReceivePage

Spec == Init /\ [][Next]_vars

-----------------------------------------------------------------------------
(* The result, and the candles of one symbol.                               *)

SymbolsWithRecords == {r.symbol : r \in records}

\* A requested field, OHLC or another, is null in some record of the request.
BarsAlone == \E r \in records : r.content \in Bare
HaveNulls == \E r \in records : r.content \notin Full

Complete ==
  /\ Len(shards) = NumShards
  /\ \A i \in DOMAIN shards : shards[i].status = "COMPLETE"
  /\ SymbolsWithRecords = Symbols
  /\ ~HaveNulls

\* Every candle result has the warnings of the whole request.
Warnings ==
  {x \in {"REQUESTED_SYMBOLS_WITHOUT_RECORDS"} : SymbolsWithRecords # Symbols}
    \cup {x \in {"BOUNDED_HISTORY_SHARDS_NOT_ATTEMPTED"} : Len(shards) < NumShards}
    \cup {x \in {"REQUESTED_FIELDS_HAVE_NULLS"} : HaveNulls}

HistoricalReason(failure) ==
  CASE failure \in {"PROVIDER_TIMEOUT", "DEADLINE_EXCEEDED"} -> "PROVIDER_TIMEOUT"
    [] failure \in {"PROVIDER_RATE_LIMIT", "PROVIDER_TEMPORARY_FAILURE",
                    "PROVIDER_SCHEMA_MISMATCH"} -> failure
    [] failure = "MAXIMUM_RECORDS_EXCEEDED" -> "LOCAL_RECEIVE_BUDGET_EXCEEDED"
    [] failure = "MAXIMUM_RESPONSE_BYTES_EXCEEDED" -> "LOCAL_BUFFER_BUDGET_EXCEEDED"
    [] OTHER -> "PROVIDER_PARTIAL_RESPONSE"

\* historicalFailureReasons
FailureCodes == {shards[i].failure : i \in DOMAIN shards} \ {None}
StopsOnly == {HistoricalReason(failure) : failure \in FailureCodes \cap Stops}
FailureReasons == {HistoricalReason(failure) : failure \in FailureCodes}

\* A record with a complete OHLC is a candle, whatever else it lacks.
Candles(s) == {r \in records : r.symbol = s /\ r.content \notin Bare}
Skipped(s) == {r \in records : r.symbol = s /\ r.content \in Bare}

\* edgeCoverageWarnings, for bars of one tick: 1.5 of them
Uncovered(s) ==
  /\ Candles(s) # {}
  /\ \/ \A r \in Candles(s) : 2 * (r.time - Start) > 3
     \/ \A r \in Candles(s) : 2 * (Stop - r.time) > 3

Truncated(s, maxOutput) == Cardinality(Candles(s)) > maxOutput

Reasons(s, maxOutput) ==
  FailureReasons
    \cup {x \in {"REQUESTED_WINDOW_NOT_COVERED"} : Uncovered(s)}
    \cup {x \in {"PROVIDER_PARTIAL_RESPONSE"} : Skipped(s) # {}}
    \cup {x \in {"LOCAL_OUTPUT_BUDGET_EXCEEDED"} : Truncated(s, maxOutput)}
    \cup {x \in {"MISSING_CONTRACT_EVIDENCE"} : Candles(s) = {}}

SnapshotComplete(s, maxOutput) ==
  /\ Complete /\ Skipped(s) = {} /\ ~Uncovered(s)
  /\ ~Truncated(s, maxOutput) /\ Candles(s) # {}

CandleStatus(s, maxOutput) ==
  IF SnapshotComplete(s, maxOutput) /\ Reasons(s, maxOutput) = {} THEN "AVAILABLE"
  ELSE IF Candles(s) # {} THEN "PARTIAL" ELSE "NOT_AVAILABLE"

-----------------------------------------------------------------------------
TypeOK ==
  /\ now \in Nat /\ until \in Nat /\ attempts \in 0..MaxAttempts
  /\ pc \in {"page", "fetching", "sleeping", "done"}
  /\ cursor \in Cursors \cup {None} /\ seen \subseteq Cursors
  /\ pages \in 0..MaxPages /\ mine \in Nat /\ partial \in BOOLEAN
  /\ usage \in [records : Nat, bytes : Nat]
  /\ Len(shards) \in 0..NumShards /\ followed \subseteq Shards

\* What is received over all pages, conflicting ones and those of failed
\* shards included, keeps within the request's budgets, and what is kept has
\* been paid for.
BudgetsHold ==
  /\ usage.records <= MaxRecords /\ usage.bytes <= MaxBytes
  /\ Cardinality(records) <= usage.records
  /\ \A i \in DOMAIN shards : shards[i].pages <= MaxPages

\* The result holds one revision of a record: a page, a retry or a later
\* shard never adds another one for a key that is taken.
OneRevision == \A r, q \in records : SameKey(r, q) => r = q

\* Whatever the provider does, the request ends at its deadline, up to one late
\* timer or computation, and what was retrieved later is not in the result.
ReturnedInTime ==
  /\ now <= Deadline + Late
  /\ \A r \in records : r.at < Deadline

\* A shard is COMPLETE if and only if its pages were followed from the first
\* to the null cursor, none was partial or conflicting, and every record on
\* them is in the result.  A symbol is AVAILABLE only if every shard of the
\* range was, every one of its candles is returned, and no record of the
\* request, its own or another's, lacks a requested field.  If it is not and no
\* reason is given, then no bar of it is missing (failure_reasons do not tell
\* of other fields and other symbols), and a warning says what is: the fields
\* of a candle, its own included, or all of another symbol.
EveryGapNamed ==
  /\ \A i \in DOMAIN shards : shards[i].status = "COMPLETE" <=> i \in followed
  /\ pc = "done" =>
       \A s \in Symbols : \A maxOutput \in 1..MaxRecords :
         LET status == CandleStatus(s, maxOutput)
             own    == {r \in records : r.symbol = s}
             whole  == followed = Shards /\ Cardinality(Candles(s)) <= maxOutput
         IN  /\ status = "AVAILABLE" => whole /\ \A r \in records : r.content \in Full
             /\ status # "AVAILABLE" /\ Reasons(s, maxOutput) = {} =>
                  /\ whole /\ own # {} /\ \A r \in own : r.content \notin Bare
                  /\ \/ /\ "REQUESTED_FIELDS_HAVE_NULLS" \in Warnings
                        /\ \E r \in records : r.content \in Lean \cup Bare
                     \/ /\ "REQUESTED_SYMBOLS_WITHOUT_RECORDS" \in Warnings
                        /\ \E other \in Symbols \ {s} : \A r \in records : r.symbol # other

=============================================================================
