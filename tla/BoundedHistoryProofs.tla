------------------------- MODULE BoundedHistoryProofs -------------------------
(***************************************************************************)
(* Proofs about BoundedHistory, for any range, provider, budgets, retries  *)
(* and deadline.  RequestInv adds to the properties that a timer that runs *)
(* is due by the deadline and that a page is asked for only below the page *)
(* limit; GapInv, on top of it, that the pages of the current shard form a *)
(* chain from the null cursor whose records are all kept.                  *)
(***************************************************************************)
EXTENDS BoundedHistory, FiniteSetTheorems, TLAPS

\* There are as many windows as it takes to reach stop, and at least one.
LEMMA ShardCount ==
  /\ NumShards \in Nat \ {0}
  /\ NumShards * WindowMs <= Stop - Start + WindowMs - 1
  /\ Stop - Start + WindowMs - 1 < NumShards * WindowMs + WindowMs
<1>1. /\ Start \in Nat /\ Stop \in Nat /\ Start < Stop
      /\ WindowMs \in Nat /\ WindowMs > 0
  BY WindowAssumption
<1> DEFINE span == Stop - Start + WindowMs - 1
<1>2. /\ NumShards \in Int
      /\ NumShards * WindowMs <= span
      /\ span < NumShards * WindowMs + WindowMs
  BY <1>1 DEF NumShards
<1>3. NumShards >= 1
  <2>1. ~(NumShards <= 0)
    <3>1. SUFFICES ASSUME NumShards <= 0 PROVE FALSE
      OBVIOUS
    <3>2. NumShards * WindowMs <= 0
      BY <1>1, <1>2, <3>1
    <3> QED BY <1>1, <1>2, <3>2
  <2> QED BY <1>2, <2>1
<1> QED BY <1>2, <1>3

\* The windows that splitBoundedHistoryWindow cuts a range into cover it from
\* start to stop without a gap or an overlap, and none is empty or longer than
\* the provider allows.
THEOREM WindowsTile ==
  /\ WindowStart(1) = Start /\ WindowStop(NumShards) = Stop
  /\ \A i \in Shards : /\ WindowStart(i) < WindowStop(i)
                       /\ WindowStop(i) <= WindowStart(i) + WindowMs
                       /\ i < NumShards => WindowStop(i) = WindowStart(i + 1)
<1>1. /\ Start \in Nat /\ Stop \in Nat /\ Start < Stop
      /\ WindowMs \in Nat /\ WindowMs > 0
  BY WindowAssumption
<1> DEFINE span == Stop - Start + WindowMs - 1
<1>2. /\ NumShards \in Int /\ NumShards >= 1
      /\ NumShards * WindowMs <= span
      /\ span < NumShards * WindowMs + WindowMs
  BY ShardCount
<1>3. (NumShards - 1) * WindowMs = NumShards * WindowMs - WindowMs
  BY <1>1, <1>2
<1>5. WindowStart(1) = Start
  BY <1>1 DEF WindowStart
<1>6. WindowStop(NumShards) = Stop
  BY <1>1, <1>2, <1>3 DEF WindowStop, WindowStart, Least
<1>7. ASSUME NEW i \in Shards
      PROVE  /\ WindowStart(i) < WindowStop(i)
             /\ WindowStop(i) <= WindowStart(i) + WindowMs
             /\ i < NumShards => WindowStop(i) = WindowStart(i + 1)
  <2>1. i \in Int /\ 1 <= i /\ i <= NumShards
    BY <1>2 DEF Shards
  <2>2. (i - 1) * WindowMs <= (NumShards - 1) * WindowMs
    BY <1>1, <1>2, <2>1
  <2>3. (i - 1) * WindowMs \in Int /\ i * WindowMs = (i - 1) * WindowMs + WindowMs
    BY <1>1, <2>1
  <2>4. i < NumShards => i * WindowMs <= (NumShards - 1) * WindowMs
    BY <1>1, <1>2, <2>1
  <2>5. (i + 1) - 1 = i
    BY <2>1
  <2> QED BY <1>1, <1>2, <1>3, <2>1, <2>2, <2>3, <2>4, <2>5 DEF WindowStop,
             WindowStart, Least
<1> QED BY <1>5, <1>6, <1>7

-----------------------------------------------------------------------------
(* The safety of a request.                                                *)

Failures == Codes \cup {None}

ShardResult ==
  [status : {"COMPLETE", "PARTIAL", "FAILED"}, failure : Failures,
   pages : 0..MaxPages, records : Int]

Types ==
  /\ now \in Nat /\ until \in Nat /\ attempts \in Nat
  /\ pc \in {"page", "fetching", "sleeping", "done"}
  /\ pages \in 0..MaxPages /\ mine \in Int
  /\ usage \in [records : Nat, bytes : Nat]
  /\ shards \in Seq(ShardResult)
  /\ IsFiniteSet(records)

\* A timer that runs is due by the deadline, for one of the attempts at a page
\* below the limit.
Timers ==
  pc \in {"fetching", "sleeping"} =>
    /\ until <= Deadline /\ attempts \in 1..MaxAttempts /\ pages < MaxPages
    /\ pc = "sleeping" => attempts < MaxAttempts

RequestInv == Types /\ Timers /\ BudgetsHold /\ OneRevision /\ ReturnedInTime

Constants ==
  /\ MaxPages \in Nat \ {0} /\ MaxRecords \in Nat \ {0} /\ MaxBytes \in Nat \ {0}
  /\ MaxAttempts \in Nat \ {0} /\ Deadline \in Nat \ {0}
  /\ RequestTimeout \in Nat \ {0} /\ Late \in Nat /\ PageBytes \subseteq Nat
  /\ PageSize \in Nat \ {0}

LEMMA ConstantTypes == Constants
  BY BudgetAssumption, DataAssumption DEF Constants

LEMMA FinishKeeps ==
  ASSUME shards \in Seq(ShardResult), NEW failure \in Failures,
         NEW pageCount \in 0..MaxPages, NEW count \in Int, NEW some,
         NEW pagesRead, NEW kept,
         \A i \in DOMAIN shards : shards[i].pages <= MaxPages,
         FinishShard(failure, pageCount, count, some, pagesRead, kept)
  PROVE  /\ shards' \in Seq(ShardResult)
         /\ \A i \in DOMAIN shards' : shards'[i].pages <= MaxPages
         /\ pc' \in {"page", "done"}
         /\ pages' = 0 /\ mine' = 0 /\ partial' = FALSE
         /\ attempts' = 0 /\ until' = 0
<1> DEFINE final == PartialFailure(failure, some)
           result == [status |-> ShardStatus(final, count), failure |-> final,
                      pages |-> pageCount, records |-> count]
<1>1. final \in Failures
  BY DEF PartialFailure, Failures, Codes
<1>2. ShardStatus(final, count) \in {"COMPLETE", "PARTIAL", "FAILED"}
  BY DEF ShardStatus
<1>3. result \in ShardResult
  BY <1>1, <1>2 DEF ShardResult
<1>4. shards' = Append(shards, result)
  BY DEF FinishShard
<1>5. shards' \in Seq(ShardResult)
  <2> HIDE DEF result
  <2> QED BY <1>3, <1>4
<1>6. \A i \in DOMAIN shards' : shards'[i].pages <= MaxPages
  <2>1. MaxPages \in Nat
    BY ConstantTypes DEF Constants
  <2>2. \A i \in DOMAIN shards' : shards'[i] \in ShardResult
    BY <1>5
  <2> QED BY <2>1, <2>2 DEF ShardResult
<1>7. pc' \in {"page", "done"}
  BY DEF FinishShard
<1> QED BY <1>5, <1>6, <1>7 DEF FinishShard

\* A shard that fails without a page disturbs nothing but the shard.
LEMMA FailKeeps ==
  ASSUME RequestInv, NEW failure \in Failures, FailShard(failure),
         now' \in Nat, now' <= Deadline + Late
  PROVE  RequestInv'
<1>1. shards \in Seq(ShardResult) /\ pages \in 0..MaxPages /\ mine \in Int
  BY DEF RequestInv, Types
<1>2. \A i \in DOMAIN shards : shards[i].pages <= MaxPages
  BY DEF RequestInv, BudgetsHold
<1>3. FinishShard(failure, pages, mine, partial, trail, records)
      /\ UNCHANGED <<records, usage>>
  BY DEF FailShard
<1>4. /\ shards' \in Seq(ShardResult)
      /\ \A i \in DOMAIN shards' : shards'[i].pages <= MaxPages
      /\ pc' \in {"page", "done"} /\ pages' = 0 /\ mine' = 0
      /\ attempts' = 0 /\ until' = 0
  BY <1>1, <1>2, <1>3, FinishKeeps
<1>5. Types'
  BY <1>3, <1>4, ConstantTypes DEF RequestInv, Types, Constants
<1>6. Timers'
  BY <1>4 DEF Timers
<1>7. BudgetsHold'
  BY <1>3, <1>4 DEF RequestInv, BudgetsHold
<1>8. OneRevision' /\ ReturnedInTime'
  BY <1>3 DEF RequestInv, OneRevision, ReturnedInTime
<1> QED BY <1>5, <1>6, <1>7, <1>8 DEF RequestInv

\* Starting a fetch with the time that remains.
LEMMA FetchKeeps ==
  ASSUME RequestInv, FetchFor(AttemptRemaining), now < Deadline, pages < MaxPages,
         attempts' \in 1..MaxAttempts,
         UNCHANGED <<now, shard, records, usage, shards, followed>>
  PROVE  RequestInv'
<1>1. until' \in Nat /\ until' <= Deadline /\ pc' = "fetching"
  BY ConstantTypes DEF RequestInv, Types, Constants, FetchFor,
     AttemptRemaining, Least
<1> QED BY <1>1 DEF RequestInv, Types, Timers, BudgetsHold, OneRevision,
           ReturnedInTime, shard

LEMMA AttemptKeeps ==
  ASSUME RequestInv, NEW failure \in Failures, NEW retryable \in BOOLEAN,
         FailAttempt(failure, retryable)
  PROVE  RequestInv'
<1> DEFINE delay == DelayForAttempt(attempts)
<1>1. /\ now \in Nat /\ attempts \in 1..MaxAttempts /\ pages < MaxPages
      /\ now <= Deadline + Late /\ now' = now
  BY DEF RequestInv, Types, Timers, ReturnedInTime, FailAttempt
<1>2. CASE FailShard(failure) \/ FailShard("DEADLINE_EXCEEDED")
  <2>1. "DEADLINE_EXCEEDED" \in Failures
    BY DEF Failures, Codes, Stops
  <2> QED BY <1>1, <1>2, <2>1, FailKeeps
<1>3. CASE /\ ~(attempts >= MaxAttempts) /\ ~(delay >= RetryRemaining)
           /\ pc' = "sleeping" /\ until' = now + delay
           /\ UNCHANGED <<attempts, shard, records, usage, shards, followed>>
  <2>1. delay \in Nat
    BY <1>1, DelayAssumption
  <2>2. until' \in Nat /\ until' <= Deadline
    <3> HIDE DEF delay
    <3> QED BY <1>1, <1>3, <2>1, ConstantTypes DEF RetryRemaining, Constants
  <2>3. attempts' \in 1..MaxAttempts /\ attempts' < MaxAttempts
    BY <1>1, <1>3, ConstantTypes DEF Constants
  <2> HIDE DEF delay
  <2> QED BY <1>1, <1>3, <2>2, <2>3 DEF RequestInv, Types, Timers, BudgetsHold,
             OneRevision, ReturnedInTime, shard
<1> QED BY <1>2, <1>3 DEF FailAttempt

\* The records of a page are finite and no more than the page counts.
LEMMA RetrievedBounded ==
  ASSUME NEW p \in Pages(Current)
  PROVE  /\ IsFiniteSet(Retrieved(p)) /\ Count(p) \in Nat
         /\ Cardinality(Retrieved(p)) \in Nat
         /\ Cardinality(Retrieved(p)) <= Count(p)
<1> DEFINE stamp(r) == [symbol |-> r.symbol, time |-> r.time, content |-> r.content,
                        at |-> now]
           f == [r \in p.records |-> stamp(r)]
<1>1. IsFiniteSet(p.records) /\ p.repeated \in 0..PageSize
  BY DEF Pages, Page
<1>2. Retrieved(p) = {stamp(r) : r \in p.records}
  BY DEF Retrieved
<1>3. f \in Surjection(p.records, Retrieved(p))
  <2> HIDE DEF stamp
  <2> QED BY <1>2 DEF Surjection
<1>4. /\ IsFiniteSet(Retrieved(p))
      /\ Cardinality(Retrieved(p)) <= Cardinality(p.records)
  BY <1>1, <1>3, FS_Surjection
<1>5. Cardinality(p.records) \in Nat /\ Cardinality(Retrieved(p)) \in Nat
  BY <1>1, <1>4, FS_CardinalityType
<1> QED BY <1>1, <1>4, <1>5 DEF Count

\* What a page adds, if anything: records with new keys, at most one for each,
\* retrieved now.
LEMMA KeptRecords ==
  ASSUME RequestInv, NEW p \in Pages(Current), now < Deadline,
         NEW kept, kept = IF Conflicting(Retrieved(p)) THEN records
                          ELSE records \cup Fresh(Retrieved(p))
  PROVE  /\ IsFiniteSet(kept) /\ Cardinality(kept) \in Nat
         /\ Cardinality(kept) <= Cardinality(records) + Count(p)
         /\ \A r, q \in kept : SameKey(r, q) => r = q
         /\ \A r \in kept : r.at < Deadline
<1> DEFINE new == Retrieved(p)
<1>1. /\ IsFiniteSet(new) /\ Count(p) \in Nat /\ Cardinality(new) \in Nat
      /\ Cardinality(new) <= Count(p)
  BY RetrievedBounded
<1>2. /\ IsFiniteSet(records) /\ Cardinality(records) \in Nat
      /\ \A r, q \in records : SameKey(r, q) => r = q
      /\ \A r \in records : r.at < Deadline
  BY FS_CardinalityType DEF RequestInv, Types, OneRevision, ReturnedInTime
<1>3. \A r \in new : r.at < Deadline
  BY DEF Retrieved
<1>4. CASE Conflicting(new)
  BY <1>1, <1>2, <1>4
<1>5. CASE ~Conflicting(new)
  <2>1. kept = records \cup Fresh(new)
    BY <1>5
  <2>2. Fresh(new) \in SUBSET new
    BY DEF Fresh
  <2>3. /\ IsFiniteSet(Fresh(new)) /\ Cardinality(Fresh(new)) \in Nat
        /\ Cardinality(Fresh(new)) <= Cardinality(new)
    BY <1>1, <2>2, FS_Subset, FS_CardinalityType
  <2>4. /\ IsFiniteSet(kept)
        /\ Cardinality(kept) = Cardinality(records) + Cardinality(Fresh(new))
                                 - Cardinality(records \cap Fresh(new))
    BY <1>2, <2>1, <2>3, FS_Union
  <2>5. Cardinality(records \cap Fresh(new)) \in Nat
    <3>1. records \cap Fresh(new) \in SUBSET records
      OBVIOUS
    <3> QED BY <1>2, <3>1, FS_Subset, FS_CardinalityType
  <2>6. Cardinality(kept) \in Nat
    BY <2>4, FS_CardinalityType
  <2>7. ASSUME NEW r \in kept, NEW q \in kept, SameKey(r, q) PROVE r = q
    <3>1. r \in new /\ q \in new => r = q
      BY <1>5, <2>7 DEF Conflicting
    <3>2. ~(r \in Fresh(new) /\ q \in records) /\ ~(q \in Fresh(new) /\ r \in records)
      BY <2>7 DEF Fresh, SameKey
    <3> QED BY <1>2, <2>1, <2>2, <2>7, <3>1, <3>2
  <2>8. \A r \in kept : r.at < Deadline
    BY <1>2, <1>3, <2>1, <2>2
  <2>9. Cardinality(kept) <= Cardinality(records) + Count(p)
    BY <1>1, <1>2, <2>3, <2>4, <2>5
  <2> QED BY <2>4, <2>6, <2>7, <2>8, <2>9
<1> QED BY <1>4, <1>5

LEMMA ReceiveKeeps ==
  ASSUME RequestInv, ReceivePage
  PROVE  RequestInv'
<1>1. PICK cost \in 0..Late : Answered(cost) /\ now + cost < Deadline
  BY DEF ReceivePage
<1>2. PICK p \in Pages(Current) :
        ~OverBytes(p.bytes) /\ ~OverRecords(p) /\ AcceptPage(p)
  BY DEF ReceivePage
<1> DEFINE new == Retrieved(p)
           kept == IF Conflicting(new) THEN records ELSE records \cup Fresh(new)
           count == mine + Cardinality(kept) - Cardinality(records)
           some == partial \/ p.partial
           read == Append(trail, [asked |-> cursor, next |-> p.next,
                                  partial |-> p.partial, records |-> new])
<1>3. /\ now \in Nat /\ now < Deadline /\ pc = "fetching"
      /\ now' \in Nat /\ now' <= Deadline + Late
      /\ pages \in Nat /\ pages < MaxPages /\ mine \in Int
      /\ usage \in [records : Nat, bytes : Nat]
      /\ shards \in Seq(ShardResult)
      /\ \A i \in DOMAIN shards : shards[i].pages <= MaxPages
  BY <1>1, ConstantTypes DEF RequestInv, Types, Timers, BudgetsHold, Answered,
     Constants
<1>4. /\ IsFiniteSet(kept) /\ Cardinality(kept) \in Nat
      /\ Cardinality(kept) <= Cardinality(records) + Count(p)
      /\ \A r, q \in kept : SameKey(r, q) => r = q
      /\ \A r \in kept : r.at < Deadline
  BY <1>3, KeptRecords
<1>5. Cardinality(records) \in Nat /\ Cardinality(records) <= usage.records
  BY FS_CardinalityType DEF RequestInv, Types, BudgetsHold
<1>6. Count(p) \in Nat /\ p.bytes \in Nat
  BY RetrievedBounded, ConstantTypes DEF Pages, Page, Constants
<1>7. records' = kept
  BY <1>2 DEF AcceptPage
<1>8. usage' = [records |-> usage.records + Count(p), bytes |-> usage.bytes + p.bytes]
  BY <1>2 DEF AcceptPage
<1>9. /\ usage' \in [records : Nat, bytes : Nat]
      /\ usage'.records <= MaxRecords /\ usage'.bytes <= MaxBytes
      /\ Cardinality(records') <= usage'.records
  <2>1. /\ usage.records + Count(p) <= MaxRecords
        /\ usage.bytes + p.bytes <= MaxBytes
    BY <1>2, <1>3, <1>6, ConstantTypes DEF OverBytes, OverRecords, Constants
  <2>2. usage.records \in Nat /\ usage.bytes \in Nat
    BY <1>3
  <2>3. /\ usage' \in [records : Nat, bytes : Nat]
        /\ usage'.records = usage.records + Count(p)
        /\ usage'.bytes = usage.bytes + p.bytes
    BY <1>6, <1>8, <2>2
  <2>4. Cardinality(records') <= Cardinality(records) + Count(p)
    BY <1>4, <1>7
  <2>5. Cardinality(records') \in Nat
    BY <1>4, <1>7
  <2> HIDE DEF kept
  <2> QED BY <1>5, <1>6, <2>1, <2>2, <2>3, <2>4, <2>5
<1>10. count \in Int /\ pages + 1 \in 0..MaxPages
  <2> HIDE DEF kept
  <2> QED BY <1>3, <1>4, <1>5, ConstantTypes DEF Constants
<1> DEFINE Wellformed ==
             /\ shards' \in Seq(ShardResult)
             /\ \A i \in DOMAIN shards' : shards'[i].pages <= MaxPages
             /\ pc' \in {"page", "done"} /\ pages' \in 0..MaxPages /\ mine' \in Int
             /\ attempts' = 0 /\ until' = 0
<1>11. Wellformed
  <2>1. ASSUME NEW failure \in Failures,
               FinishShard(failure, pages + 1, count, some, read, kept)
        PROVE  Wellformed
    <3>1. count \in Int /\ pages + 1 \in 0..MaxPages
      BY <1>10
    <3> HIDE DEF kept, count, some, read
    <3>2. /\ shards' \in Seq(ShardResult)
          /\ \A i \in DOMAIN shards' : shards'[i].pages <= MaxPages
          /\ pc' \in {"page", "done"}
          /\ pages' = 0 /\ mine' = 0 /\ partial' = FALSE
          /\ attempts' = 0 /\ until' = 0
      BY <1>3, <2>1, <3>1, FinishKeeps
    <3> QED BY <3>2, ConstantTypes DEF Constants
  <2>2. CASE FinishShard("PROVIDER_SCHEMA_MISMATCH", pages + 1, count, some, read, kept)
    BY <2>1, <2>2 DEF Failures, Codes
  <2>3. CASE FinishShard(None, pages + 1, count, some, read, kept)
    BY <2>1, <2>3 DEF Failures
  <2>4. CASE /\ pages' = pages + 1 /\ mine' = count
             /\ pc' = "page" /\ attempts' = 0 /\ until' = 0
             /\ UNCHANGED <<shards, followed>>
    <3> HIDE DEF count
    <3> QED BY <1>3, <1>10, <2>4
  <2> QED BY <1>2, <2>2, <2>3, <2>4 DEF AcceptPage
<1>12. Types'
  <2> HIDE DEF kept
  <2> QED BY <1>3, <1>4, <1>7, <1>9, <1>11 DEF Types
<1>13. Timers' /\ BudgetsHold'
  BY <1>9, <1>11 DEF Timers, BudgetsHold
<1>14. OneRevision' /\ ReturnedInTime'
  <2> HIDE DEF kept
  <2> QED BY <1>3, <1>4, <1>7 DEF OneRevision, ReturnedInTime
<1> QED BY <1>12, <1>13, <1>14 DEF RequestInv

LEMMA StepKeeps ==
  ASSUME RequestInv, [Next]_vars
  PROVE  RequestInv'
<1>1. /\ now \in Nat /\ now <= Deadline + Late
      /\ {"DEADLINE_EXCEEDED", "PAGE_LIMIT_EXCEEDED", "PROVIDER_TIMEOUT",
          "PROVIDER_TEMPORARY_FAILURE", "PROVIDER_ERROR", "PROVIDER_SCHEMA_MISMATCH",
          "MAXIMUM_RECORDS_EXCEEDED", "MAXIMUM_RESPONSE_BYTES_EXCEEDED"}
           \subseteq Failures
  BY DEF RequestInv, Types, ReturnedInTime, Failures, Codes, Stops
<1>2. CASE FetchPage
  BY <1>2, FetchKeeps, ConstantTypes DEF FetchPage, Constants
<1>3. CASE NoTimeLeft \/ PagesUsedUp \/ TooLate
  BY <1>1, <1>3, FailKeeps DEF NoTimeLeft, PagesUsedUp, TooLate
<1>4. CASE Tick
  BY <1>1, <1>4, ConstantTypes DEF Tick, RequestInv, Types, Timers,
     BudgetsHold, OneRevision, ReturnedInTime, shard, Constants
<1>5. CASE TimeOut \/ FailForNow \/ FailForGood
  BY <1>1, <1>5, AttemptKeeps DEF TimeOut, FailForNow, FailForGood
<1>6. CASE Retry
  <2>1. CASE FailShard("DEADLINE_EXCEEDED") /\ UNCHANGED now
    BY <1>1, <2>1, FailKeeps
  <2>2. CASE /\ ~(AttemptRemaining <= 0)
             /\ attempts' = attempts + 1 /\ FetchFor(AttemptRemaining)
             /\ UNCHANGED <<now, shard, records, usage, shards, followed>>
    \* A retry follows an attempt that was not the last.
    <3>1. now < Deadline /\ pages < MaxPages
      BY <1>1, <1>6, <2>2, ConstantTypes DEF Retry, AttemptRemaining,
         RequestInv, Timers, Constants
    <3>2. attempts' \in 1..MaxAttempts
      BY <1>6, <2>2, ConstantTypes DEF RequestInv, Timers, Retry, Constants
    <3> QED BY <2>2, <3>1, <3>2, FetchKeeps
  <2> QED BY <1>6, <2>1, <2>2 DEF Retry
<1>7. CASE TooLarge \/ RefusePage \/ TooSlow \/ TooMany
  <2>1. now' \in Nat /\ now' <= Deadline + Late
    BY <1>1, <1>7, ConstantTypes DEF TooLarge, RefusePage, TooSlow, TooMany,
       Answered, Constants
  <2>2. CASE RefusePage
    <3>1. PICK failure \in {"PROVIDER_SCHEMA_MISMATCH", "PROVIDER_ERROR"} :
            FailShard(failure)
      BY <2>2 DEF RefusePage
    <3> QED BY <1>1, <2>1, <3>1, FailKeeps
  <2> QED BY <1>1, <1>7, <2>1, <2>2, FailKeeps DEF TooLarge, TooSlow, TooMany
<1>8. CASE ReceivePage
  BY <1>8, ReceiveKeeps
<1>9. CASE UNCHANGED vars
  BY <1>9 DEF vars, shard, RequestInv, Types, Timers, BudgetsHold, OneRevision,
     ReturnedInTime
<1> QED BY <1>2, <1>3, <1>4, <1>5, <1>6, <1>7, <1>8, <1>9 DEF Next

LEMMA InitHolds == Init => RequestInv
<1> SUFFICES ASSUME Init PROVE RequestInv
  OBVIOUS
<1>1. IsFiniteSet(records) /\ Cardinality(records) = 0
  BY FS_EmptySet DEF Init
<1>2. shards \in Seq(ShardResult) /\ DOMAIN shards = {}
  BY DEF Init
<1> QED BY <1>1, <1>2, ConstantTypes DEF Init, RequestInv, Types, Timers,
           BudgetsHold, OneRevision, ReturnedInTime, Constants

LEMMA RequestSafe == Spec => []RequestInv
<1>1. RequestInv /\ [Next]_vars => RequestInv'
  BY StepKeeps
<1> QED BY <1>1, InitHolds, PTL DEF Spec

\* A request never takes more pages, records or bytes than it may, over all its
\* shards and retries.
THEOREM BudgetsAlwaysHold == Spec => []BudgetsHold
  BY RequestSafe, PTL DEF RequestInv

\* The result never holds two revisions of one record.
THEOREM RevisionsUnique == Spec => []OneRevision
  BY RequestSafe, PTL DEF RequestInv

\* No attempt, backoff or page takes the request past its deadline by more than
\* one late timer, and nothing retrieved after the deadline is in the result.
THEOREM DeadlineKept == Spec => []ReturnedInTime
  BY RequestSafe, PTL DEF RequestInv

-----------------------------------------------------------------------------
(* Why a shard is COMPLETE, and what a symbol lacks.                       *)

Revisions == [symbol : Symbols, time : Int, content : Contents, at : Nat]
ReadPages ==
  [asked : Cursors \cup {None}, next : Cursors \cup {None}, partial : BOOLEAN,
   records : SUBSET Revisions]

\* The pages of the shard were followed from the null cursor to cursor, what is
\* partial is remembered, and all they brought is kept.
Followed ==
  /\ trail \in Seq(ReadPages) /\ partial \in BOOLEAN /\ seen \subseteq Cursors
  /\ trail = <<>> => cursor = None
  /\ trail # <<>> => /\ trail[1].asked = None /\ cursor \in Cursors
                     /\ trail[Len(trail)].next = cursor
  /\ \A i \in 2..Len(trail) : trail[i].asked = trail[i - 1].next
  /\ partial <=> \E i \in DOMAIN trail : trail[i].partial
  /\ \A i \in DOMAIN trail : trail[i].records \subseteq records

\* The shards that are through, and that the request ends with the last of
\* them or with a failure.
Settled ==
  /\ followed \subseteq DOMAIN shards
  /\ \A i \in DOMAIN shards : /\ shards[i].status = "COMPLETE" <=> i \in followed
                              /\ shards[i].failure = None <=> i \in followed
  /\ Len(shards) <= NumShards
  /\ pc # "done" => Len(shards) < NumShards
  /\ pc = "done" /\ Len(shards) < NumShards =>
       \E i \in DOMAIN shards : shards[i].failure # None

GapInv == records \subseteq Revisions /\ Followed /\ Settled

LEMMA FinishSettles ==
  ASSUME RequestInv, GapInv, pc # "done", NEW failure \in Failures, NEW pageCount,
         NEW count, NEW some \in BOOLEAN, NEW pagesRead, NEW kept,
         shards' \in Seq(ShardResult), records' \subseteq Revisions,
         FinishShard(failure, pageCount, count, some, pagesRead, kept),
         Whole(pagesRead, kept) <=> failure = None /\ ~some
  PROVE  GapInv'
<1> DEFINE final == PartialFailure(failure, some)
           result == [status |-> ShardStatus(final, count), failure |-> final,
                      pages |-> pageCount, records |-> count]
           n == Len(shards)
<1>1. shards \in Seq(ShardResult) /\ n \in Nat /\ n < NumShards /\ NumShards \in Nat
  BY ShardCount DEF RequestInv, Types, GapInv, Settled
<1>2. final = None <=> failure = None /\ ~some
  BY NoneAssumption DEF PartialFailure, Codes
<1>3. /\ result.status = "COMPLETE" <=> failure = None /\ ~some
      /\ result.failure = None <=> failure = None /\ ~some
  BY <1>2 DEF ShardStatus
<1>4. failure \in Stops => failure # None
  BY NoneAssumption DEF Codes
<1>5. /\ shards' = Append(shards, result)
      /\ pc' = IF failure \in Stops \/ n + 1 = NumShards THEN "done" ELSE "page"
      /\ followed' = IF failure = None /\ ~some THEN followed \cup {n + 1} ELSE followed
      /\ cursor' = None /\ seen' = {} /\ partial' = FALSE /\ trail' = <<>>
  BY DEF FinishShard, Current
<1> HIDE DEF result, final
<1>6. /\ Len(shards') = n + 1 /\ DOMAIN shards' = 1..(n + 1) /\ DOMAIN shards = 1..n
      /\ shards'[n + 1] = result /\ \A i \in 1..n : shards'[i] = shards[i]
  BY <1>1, <1>5
<1>7. Followed'
  <2>1. DOMAIN trail' = {} /\ trail' \in Seq(ReadPages) /\ 2..Len(trail') = {}
    BY <1>5
  <2>2. ~ \E i \in DOMAIN trail' : trail'[i].partial
    BY <2>1
  <2> QED BY <1>5, <2>1, <2>2 DEF Followed
<1>8. Settled'
  <2>1. followed \subseteq 1..n
    BY <1>6 DEF GapInv, Settled
  <2>2. followed' \subseteq DOMAIN shards'
    <3>1. 1..n \subseteq 1..(n + 1) /\ n + 1 \in 1..(n + 1)
      BY <1>1
    <3>2. followed' \subseteq followed \cup {n + 1}
      BY <1>5
    <3> QED BY <1>6, <2>1, <3>1, <3>2
  <2>3. ASSUME NEW i \in DOMAIN shards'
        PROVE  /\ shards'[i].status = "COMPLETE" <=> i \in followed'
               /\ shards'[i].failure = None <=> i \in followed'
    <3>1. CASE i = n + 1
      <4>1. n + 1 \notin followed
        BY <1>1, <2>1
      <4>2. n + 1 \in followed' <=> failure = None /\ ~some
        BY <1>5, <4>1
      <4> QED BY <1>3, <1>6, <3>1, <4>2
    <3>2. CASE i # n + 1
      <4>1. i \in 1..n
        BY <1>1, <1>6, <3>2
      <4>2. i \in followed' <=> i \in followed
        BY <1>5, <3>2
      <4> QED BY <1>6, <4>1, <4>2 DEF GapInv, Settled
    <3> QED BY <3>1, <3>2
  <2>4. Len(shards') <= NumShards /\ (pc' # "done" => Len(shards') < NumShards)
    BY <1>1, <1>5, <1>6
  <2>5. pc' = "done" /\ Len(shards') < NumShards =>
          \E i \in DOMAIN shards' : shards'[i].failure # None
    <3> SUFFICES ASSUME pc' = "done", Len(shards') < NumShards
                 PROVE  \E i \in DOMAIN shards' : shards'[i].failure # None
      OBVIOUS
    <3>1. failure \in Stops
      BY <1>1, <1>5, <1>6
    <3>2. n + 1 \in DOMAIN shards' /\ shards'[n + 1].failure # None
      BY <1>1, <1>3, <1>4, <1>6, <3>1
    <3> QED BY <3>2
  <2> QED BY <2>2, <2>3, <2>4, <2>5 DEF Settled
<1> QED BY <1>7, <1>8 DEF GapInv

\* A shard whose last page named another one has not been read to its end.
LEMMA FailSettles ==
  ASSUME RequestInv, GapInv, RequestInv', pc # "done",
         NEW failure \in Failures \ {None}, FailShard(failure)
  PROVE  GapInv'
<1>1. ~Whole(trail, records)
  <2>1. None \notin Cursors
    BY DataAssumption
  <2> QED BY <2>1 DEF Whole, GapInv, Followed
<1>2. /\ FinishShard(failure, pages, mine, partial, trail, records)
      /\ records' = records
  BY DEF FailShard
<1>3. partial \in BOOLEAN /\ shards' \in Seq(ShardResult) /\ records' \subseteq Revisions
  BY <1>2 DEF GapInv, Followed, RequestInv, Types
<1> QED BY <1>1, <1>2, <1>3, FinishSettles

\* The attempts and the time leave what was read alone.
LEMMA WaitSettles ==
  ASSUME GapInv, UNCHANGED <<shard, records, shards, followed>>,
         pc' = pc \/ (pc # "done" /\ pc' # "done")
  PROVE  GapInv'
BY DEF GapInv, Followed, Settled, shard

LEMMA RetrievedTypes ==
  ASSUME RequestInv, NEW p \in Pages(Current)
  PROVE  /\ Retrieved(p) \subseteq Revisions /\ p.partial \in BOOLEAN
         /\ p.next \in Cursors \cup {None}
<1>1. /\ p.records \subseteq [symbol : Symbols, content : Contents,
            time : WindowStart(Current)..(WindowStop(Current) - 1)]
      /\ p.partial \in BOOLEAN /\ p.next \in Cursors \cup {None}
  BY DEF Pages, Page
<1>2. now \in Nat
  BY DEF RequestInv, Types
<1>3. ASSUME NEW r \in p.records
      PROVE  r.symbol \in Symbols /\ r.content \in Contents /\ r.time \in Int
  BY <1>1
<1> QED BY <1>1, <1>2, <1>3 DEF Retrieved, Revisions

\* An accepted page: a shard is followed to its end if and only if this one
\* ends it without a conflict and none of its pages was partial.
LEMMA ReceiveSettles ==
  ASSUME RequestInv, GapInv, RequestInv', ReceivePage
  PROVE  GapInv'
<1>1. PICK p \in Pages(Current) : AcceptPage(p)
  BY DEF ReceivePage
<1> DEFINE new == Retrieved(p)
           kept == IF Conflicting(new) THEN records ELSE records \cup Fresh(new)
           count == mine + Cardinality(kept) - Cardinality(records)
           some == partial \/ p.partial
           last == [asked |-> cursor, next |-> p.next, partial |-> p.partial,
                    records |-> new]
           read == Append(trail, last)
           n == Len(trail)
<1>2. /\ new \subseteq Revisions /\ p.partial \in BOOLEAN
      /\ p.next \in Cursors \cup {None}
  BY RetrievedTypes
<1>3. /\ pc = "fetching" /\ None \notin Cursors /\ some \in BOOLEAN
      /\ partial \in BOOLEAN /\ seen \subseteq Cursors
      /\ trail \in Seq(ReadPages) /\ n \in Nat
      /\ records \subseteq Revisions /\ shards' \in Seq(ShardResult)
      /\ \A r, q \in records : SameKey(r, q) => r = q
  <2>1. /\ pc = "fetching" /\ shards' \in Seq(ShardResult)
        /\ \A r, q \in records : SameKey(r, q) => r = q
    BY DEF ReceivePage, Answered, RequestInv, Types, OneRevision
  <2>2. /\ partial \in BOOLEAN /\ seen \subseteq Cursors
        /\ trail \in Seq(ReadPages) /\ records \subseteq Revisions
    BY DEF GapInv, Followed
  <2>3. None \notin Cursors
    BY DataAssumption
  <2> QED BY <2>1, <2>2, <2>3
<1>4. records' = kept /\ kept \subseteq Revisions /\ records \subseteq kept
  BY <1>1, <1>2, <1>3 DEF AcceptPage, Fresh
<1>5. cursor \in Cursors \cup {None}
  BY DEF GapInv, Followed
<1>6. last \in ReadPages
  BY <1>2, <1>5 DEF ReadPages
<1>7. /\ read \in Seq(ReadPages) /\ Len(read) = n + 1 /\ read[n + 1] = last
      /\ DOMAIN read = 1..(n + 1) /\ read # <<>>
      /\ \A i \in 1..n : read[i] = trail[i]
  <2> HIDE DEF last
  <2> QED BY <1>3, <1>6
<1>8. ~Conflicting(new) => new \subseteq kept
  <2> SUFFICES ASSUME ~Conflicting(new), NEW r \in new PROVE r \in kept
    OBVIOUS
  <2>1. CASE \A q \in records : ~SameKey(r, q)
    BY <2>1 DEF Fresh
  <2>2. CASE \E q \in records : SameKey(r, q)
    BY <2>2 DEF Conflicting
  <2> QED BY <2>1, <2>2
<1>9. Conflicting(new) => ~(new \subseteq kept)
  BY <1>3 DEF Conflicting
<1>10. \A i \in DOMAIN trail : trail[i].records \subseteq kept
  BY <1>4 DEF GapInv, Followed
<1> HIDE DEF kept, new
<1>11. /\ read[1].asked = None
       /\ \A i \in 2..Len(read) : read[i].asked = read[i - 1].next
  <2>1. CASE trail = <<>>
    <3>1. n = 0 /\ cursor = None
      BY <2>1 DEF GapInv, Followed
    <3> QED BY <1>7, <3>1
  <2>2. CASE trail # <<>>
    <3>1. /\ n >= 1 /\ trail[1].asked = None /\ trail[n].next = cursor
          /\ \A i \in 2..n : trail[i].asked = trail[i - 1].next
      BY <1>3, <2>2 DEF GapInv, Followed
    <3>2. read[1] = trail[1]
      BY <1>3, <1>7, <3>1
    <3>3. ASSUME NEW i \in 2..Len(read) PROVE read[i].asked = read[i - 1].next
      <4>1. CASE i = n + 1
        BY <1>3, <1>7, <3>1, <4>1
      <4>2. CASE i # n + 1
        <5>1. i \in 2..n /\ i \in 1..n /\ i - 1 \in 1..n
          BY <1>3, <1>7, <3>3, <4>2
        <5> QED BY <1>7, <3>1, <5>1
      <4> QED BY <4>1, <4>2
    <3> QED BY <3>1, <3>2, <3>3
  <2> QED BY <2>1, <2>2
<1>12. some <=> \E i \in DOMAIN read : read[i].partial
  <2>1. partial <=> \E i \in 1..n : trail[i].partial
    BY <1>3 DEF GapInv, Followed
  <2>2. (\E i \in DOMAIN read : read[i].partial)
          <=> (\E i \in 1..n : trail[i].partial) \/ p.partial
    <3>1. DOMAIN read = 1..n \cup {n + 1}
      BY <1>3, <1>7
    <3>2. read[n + 1].partial = p.partial
      BY <1>7
    <3> HIDE DEF read
    <3> QED BY <1>7, <3>1, <3>2
  <2> QED BY <2>1, <2>2
<1>13. (\A i \in DOMAIN read : read[i].records \subseteq kept) <=> new \subseteq kept
  <2>1. DOMAIN read = 1..n \cup {n + 1} /\ DOMAIN trail = 1..n
    BY <1>3, <1>7
  <2>2. read[n + 1].records = new
    BY <1>7
  <2> HIDE DEF read
  <2> QED BY <1>7, <1>10, <2>1, <2>2
<1>14. read[Len(read)].next = p.next
  BY <1>7
<1>15. Whole(read, kept) <=> p.next = None /\ ~some /\ ~Conflicting(new)
  <2> HIDE DEF read, some
  <2> QED BY <1>7, <1>8, <1>9, <1>11, <1>12, <1>13, <1>14 DEF Whole
<1>16. ASSUME NEW failure \in Failures,
              failure = None <=> ~Conflicting(new) /\ p.next = None,
              FinishShard(failure, pages + 1, count, some, read, kept)
       PROVE  GapInv'
  <2>1. Whole(read, kept) <=> failure = None /\ ~some
    BY <1>15, <1>16
  <2> HIDE DEF read, some, count
  <2> QED BY <1>3, <1>4, <1>16, <2>1, FinishSettles
<1>17. CASE FinishShard("PROVIDER_SCHEMA_MISMATCH", pages + 1, count, some, read, kept)
            /\ (Conflicting(new) \/ p.next \in seen)
  <2>1. "PROVIDER_SCHEMA_MISMATCH" \in Failures /\ "PROVIDER_SCHEMA_MISMATCH" # None
    BY NoneAssumption DEF Failures, Codes
  <2>2. ~(~Conflicting(new) /\ p.next = None)
    BY <1>3, <1>17
  <2> QED BY <1>16, <1>17, <2>1, <2>2
<1>18. CASE FinishShard(None, pages + 1, count, some, read, kept)
            /\ ~Conflicting(new) /\ p.next = None
  BY <1>16, <1>18 DEF Failures
<1>19. CASE /\ ~Conflicting(new) /\ p.next # None
            /\ cursor' = p.next /\ seen' = seen \cup {p.next}
            /\ partial' = some /\ trail' = read /\ pc' = "page"
            /\ UNCHANGED <<shards, followed>>
  <2>1. Followed'
    <3>1. seen' \subseteq Cursors /\ cursor' \in Cursors /\ partial' \in BOOLEAN
      BY <1>2, <1>3, <1>19
    <3>2. \A i \in DOMAIN read : read[i].records \subseteq records'
      BY <1>4, <1>8, <1>13, <1>19
    <3> HIDE DEF read, some
    <3> QED BY <1>7, <1>11, <1>12, <1>14, <1>19, <3>1, <3>2 DEF Followed
  <2>2. Settled'
    BY <1>3, <1>19 DEF GapInv, Settled
  <2> QED BY <1>4, <2>1, <2>2 DEF GapInv
<1>20. \/ /\ FinishShard("PROVIDER_SCHEMA_MISMATCH", pages + 1, count, some, read, kept)
          /\ (Conflicting(new) \/ p.next \in seen)
       \/ /\ FinishShard(None, pages + 1, count, some, read, kept)
          /\ ~Conflicting(new) /\ p.next = None
       \/ /\ ~Conflicting(new) /\ p.next # None
          /\ cursor' = p.next /\ seen' = seen \cup {p.next}
          /\ partial' = some /\ trail' = read /\ pc' = "page"
          /\ UNCHANGED <<shards, followed>>
  BY <1>1 DEF AcceptPage, kept, new
<1> QED BY <1>17, <1>18, <1>19, <1>20

LEMMA StepSettles ==
  ASSUME RequestInv, GapInv, [Next]_vars
  PROVE  GapInv'
<1>0. RequestInv'
  BY StepKeeps
<1>1. {"DEADLINE_EXCEEDED", "PAGE_LIMIT_EXCEEDED", "PROVIDER_TIMEOUT",
       "PROVIDER_TEMPORARY_FAILURE", "PROVIDER_ERROR", "PROVIDER_SCHEMA_MISMATCH",
       "MAXIMUM_RECORDS_EXCEEDED", "MAXIMUM_RESPONSE_BYTES_EXCEEDED"}
         \subseteq Failures \ {None}
  BY NoneAssumption DEF Failures, Codes, Stops
<1>2. CASE FetchPage
  BY <1>2, WaitSettles DEF FetchPage, FetchFor
<1>3. CASE NoTimeLeft \/ PagesUsedUp \/ TooLate
  BY <1>0, <1>1, <1>3, FailSettles DEF NoTimeLeft, PagesUsedUp, TooLate
<1>4. CASE Tick
  BY <1>4, WaitSettles DEF Tick
<1>5. CASE TimeOut \/ FailForNow \/ FailForGood
  <2>1. PICK failure \in Failures \ {None}, retryable \in BOOLEAN :
          FailAttempt(failure, retryable)
    BY <1>1, <1>5 DEF TimeOut, FailForNow, FailForGood
  <2>2. pc = "fetching"
    BY <2>1 DEF FailAttempt
  <2>3. CASE FailShard(failure) \/ FailShard("DEADLINE_EXCEEDED")
    BY <1>0, <1>1, <2>2, <2>3, FailSettles
  <2>4. CASE /\ pc' = "sleeping" /\ UNCHANGED <<shard, records, shards, followed>>
    BY <2>2, <2>4, WaitSettles
  <2> QED BY <2>1, <2>3, <2>4 DEF FailAttempt
<1>6. CASE Retry
  <2>1. CASE FailShard("DEADLINE_EXCEEDED")
    BY <1>0, <1>1, <1>6, <2>1, FailSettles DEF Retry
  <2>2. CASE ~FailShard("DEADLINE_EXCEEDED")
    <3>1. pc # "done" /\ pc' # "done" /\ UNCHANGED <<shard, records, shards, followed>>
      BY <1>6, <2>2 DEF Retry, FetchFor
    <3> QED BY <3>1, WaitSettles
  <2> QED BY <2>1, <2>2
<1>7. CASE TooLarge \/ RefusePage \/ TooSlow \/ TooMany
  <2>1. pc = "fetching"
    BY <1>7 DEF TooLarge, RefusePage, TooSlow, TooMany, Answered
  <2>2. PICK failure \in Failures \ {None} : FailShard(failure)
    BY <1>1, <1>7 DEF TooLarge, RefusePage, TooSlow, TooMany
  <2> QED BY <1>0, <2>1, <2>2, FailSettles
<1>8. CASE ReceivePage
  BY <1>0, <1>8, ReceiveSettles
<1>9. CASE UNCHANGED vars
  BY <1>9, WaitSettles DEF vars
<1> QED BY <1>2, <1>3, <1>4, <1>5, <1>6, <1>7, <1>8, <1>9 DEF Next

LEMMA InitSettles == Init => GapInv
<1> SUFFICES ASSUME Init PROVE GapInv
  OBVIOUS
<1>1. /\ DOMAIN shards = {} /\ Len(shards) = 0 /\ DOMAIN trail = {}
      /\ trail \in Seq(ReadPages) /\ 2..Len(trail) = {}
  BY DEF Init
<1>2. ~ \E i \in DOMAIN trail : trail[i].partial
  BY <1>1
<1>3. Followed
  BY <1>1, <1>2 DEF Init, Followed
<1>4. Settled
  BY <1>1, ShardCount DEF Init, Settled
<1> QED BY <1>3, <1>4 DEF Init, GapInv

LEMMA GapsSettled == Spec => [](RequestInv /\ GapInv)
<1>1. RequestInv /\ GapInv /\ [Next]_vars => GapInv'
  BY StepSettles
<1> QED BY <1>1, InitSettles, RequestSafe, PTL DEF Spec

\* What a finished request says of a symbol.
LEMMA SymbolJudged ==
  ASSUME RequestInv, GapInv, pc = "done", NEW s \in Symbols, NEW maxOutput \in Nat
  PROVE  LET status == CandleStatus(s, maxOutput)
             own    == {r \in records : r.symbol = s}
             whole  == followed = Shards /\ Cardinality(Candles(s)) <= maxOutput
         IN  /\ status = "AVAILABLE" => whole /\ \A r \in records : r.content \in Full
             /\ status # "AVAILABLE" /\ Reasons(s, maxOutput) = {} =>
                  /\ whole /\ own # {} /\ \A r \in own : r.content \notin Bare
                  /\ \/ /\ "REQUESTED_FIELDS_HAVE_NULLS" \in Warnings
                        /\ \E r \in records : r.content \in Lean \cup Bare
                     \/ /\ "REQUESTED_SYMBOLS_WITHOUT_RECORDS" \in Warnings
                        /\ \E other \in Symbols \ {s} : \A r \in records : r.symbol # other
<1> DEFINE own == {r \in records : r.symbol = s}
<1>1. /\ shards \in Seq(ShardResult) /\ Len(shards) \in Nat /\ NumShards \in Nat
      /\ DOMAIN shards = 1..Len(shards) /\ Len(shards) <= NumShards
      /\ followed \subseteq DOMAIN shards
      /\ \A i \in DOMAIN shards : /\ shards[i].status = "COMPLETE" <=> i \in followed
                                  /\ shards[i].failure = None <=> i \in followed
      /\ Len(shards) < NumShards => \E i \in DOMAIN shards : shards[i].failure # None
  BY ShardCount DEF RequestInv, Types, GapInv, Settled
<1>2. Cardinality(Candles(s)) \in Nat
  <2>1. IsFiniteSet(records) /\ Candles(s) \in SUBSET records
    BY DEF RequestInv, Types, Candles
  <2> QED BY <2>1, FS_Subset, FS_CardinalityType
<1>3. ~Truncated(s, maxOutput) => Cardinality(Candles(s)) <= maxOutput
  BY <1>2 DEF Truncated
<1>4. ASSUME CandleStatus(s, maxOutput) = "AVAILABLE"
      PROVE  /\ followed = Shards /\ Cardinality(Candles(s)) <= maxOutput
             /\ \A r \in records : r.content \in Full
  <2>1. SnapshotComplete(s, maxOutput)
    BY <1>4 DEF CandleStatus
  <2>2. /\ Len(shards) = NumShards /\ ~Truncated(s, maxOutput)
        /\ \A i \in DOMAIN shards : i \in followed
        /\ \A r \in records : r.content \in Full
    BY <1>1, <2>1 DEF SnapshotComplete, Complete, HaveNulls
  <2> QED BY <1>1, <1>3, <2>2 DEF Shards
<1>5. ASSUME CandleStatus(s, maxOutput) # "AVAILABLE", Reasons(s, maxOutput) = {}
      PROVE  /\ followed = Shards /\ Cardinality(Candles(s)) <= maxOutput
             /\ own # {} /\ \A r \in own : r.content \notin Bare
             /\ \/ /\ "REQUESTED_FIELDS_HAVE_NULLS" \in Warnings
                   /\ \E r \in records : r.content \in Lean \cup Bare
                \/ /\ "REQUESTED_SYMBOLS_WITHOUT_RECORDS" \in Warnings
                   /\ \E other \in Symbols \ {s} : \A r \in records : r.symbol # other
  <2>1. /\ FailureReasons = {} /\ ~Uncovered(s) /\ Skipped(s) = {}
        /\ ~Truncated(s, maxOutput) /\ Candles(s) # {}
    BY <1>5 DEF Reasons
  <2>2. \A i \in DOMAIN shards : shards[i].failure = None
    BY <2>1 DEF FailureReasons, FailureCodes
  <2>3. Len(shards) = NumShards /\ \A i \in DOMAIN shards : shards[i].status = "COMPLETE"
    <3>1. ~(Len(shards) < NumShards)
      BY <1>1, <2>2
    <3>2. Len(shards) = NumShards
      <4>1. \A n, m \in Nat : n <= m /\ ~(n < m) => n = m
        OBVIOUS
      <4>2. Len(shards) \in Nat /\ NumShards \in Nat /\ Len(shards) <= NumShards
        BY <1>1
      <4> QED BY <3>1, <4>1, <4>2
    <3>3. \A i \in DOMAIN shards : shards[i].status = "COMPLETE"
      BY <1>1, <2>2
    <3> QED BY <3>2, <3>3
  <2>4. followed = Shards
    BY <1>1, <2>2, <2>3 DEF Shards
  <2>5. ~Complete
    BY <1>5, <2>1 DEF CandleStatus, SnapshotComplete
  <2>6. records \subseteq Revisions
    BY DEF GapInv
  <2>7. own # {} /\ \A r \in own : r.content \notin Bare
    BY <2>1 DEF Candles, Skipped
  <2>8. CASE SymbolsWithRecords # Symbols
    <3>1. \A r \in records : r.symbol \in Symbols
      BY <2>6 DEF Revisions
    <3>2. PICK other \in Symbols : \A r \in records : r.symbol # other
      BY <2>8, <3>1 DEF SymbolsWithRecords
    <3>3. other # s
      BY <2>7, <3>2
    <3>4. "REQUESTED_SYMBOLS_WITHOUT_RECORDS" \in Warnings
      BY <2>8 DEF Warnings
    <3> QED BY <1>3, <2>1, <2>4, <2>7, <3>2, <3>3, <3>4
  <2>9. CASE SymbolsWithRecords = Symbols
    <3>1. HaveNulls
      BY <2>3, <2>5, <2>9 DEF Complete
    <3>2. PICK r \in records : r.content \in Lean \cup Bare
      BY <2>6, <3>1 DEF HaveNulls, Revisions, Contents
    <3>3. "REQUESTED_FIELDS_HAVE_NULLS" \in Warnings
      BY <3>1 DEF Warnings
    <3> QED BY <1>3, <2>1, <2>4, <2>7, <3>2, <3>3
  <2> QED BY <2>8, <2>9
<1> QED BY <1>4, <1>5

\* A shard is COMPLETE exactly if the provider's pages were followed to their
\* end and kept whole, and the candle view never calls a symbol AVAILABLE with
\* a gap or a null field in the request, nor anything else without a reason
\* for a bar that is missing and a warning for what else is, for any provider,
\* range and limits.
THEOREM GapsAreNamed == Spec => []EveryGapNamed
<1>1. RequestInv /\ GapInv => EveryGapNamed
  <2> SUFFICES ASSUME RequestInv, GapInv PROVE EveryGapNamed
    OBVIOUS
  <2>1. \A i \in DOMAIN shards : shards[i].status = "COMPLETE" <=> i \in followed
    BY DEF GapInv, Settled
  <2>2. \A maxOutput \in 1..MaxRecords : maxOutput \in Nat
    OBVIOUS
  <2> QED BY <2>1, <2>2, SymbolJudged DEF EveryGapNamed
<1> QED BY <1>1, GapsSettled, PTL
=============================================================================
