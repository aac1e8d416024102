--------------------------- MODULE CandidateDiscovery ---------------------------
(***************************************************************************)
(* The pure parts of one SPX candidate discovery                           *)
(* (historical-spx-candidates.ts) and of what the range discovery makes of *)
(* its end (historical-spx-candidate-range.ts): the candidate that the     *)
(* logs of a backtest show, the classification of errors, and the failure  *)
(* and the status that a result stands for.                                *)
(*                                                                         *)
(* An error is its HTTP status, its code (standing for what its code or    *)
(* its text says), whether it is an EvidenceCacheError, its own retryable  *)
(* flag, its rate-limit metadata and its cause.  A result is how many      *)
(* items were evaluated, how many contracts were found, whether all have   *)
(* a price, and the failures of the items that ended in PROVIDER_ERROR.    *)
(***************************************************************************)
EXTENDS Integers, Sequences, SequencesExt

CONSTANTS
  NumItems,   \* selectors times sides of a checkpoint
  None        \* null

ASSUME ItemsAssumption == NumItems \in Nat \ {0}

-----------------------------------------------------------------------------
(* The logs of a backtest: trials with the time they opened (None when      *)
(* malformed), the time of the order that opens a leg like the item's (None *)
(* when there is none) and whether its DTE is in the range.                 *)

AsOf == 0

TrialsAt(logs) == {i \in DOMAIN logs : logs[i].opened = AsOf}

BaseCandidate(trial) ==
  IF trial.ordered # AsOf THEN "INVALID_PROVIDER_LOGS"
  ELSE IF ~trial.dteInRange THEN "NO_ELIGIBLE_TRIAL"
  ELSE "CANDIDATE_FOUND"

\* Exactly one trial may have opened at the checkpoint; logs of malformed
\* trials only are invalid.
ExtractCandidate(logs) ==
  LET at == TrialsAt(logs)
      malformed == {i \in DOMAIN logs : logs[i].opened = None}
  IN  IF \E i, j \in at : i # j THEN "INVALID_PROVIDER_LOGS"
      ELSE IF at # {} THEN BaseCandidate(logs[CHOOSE i \in at : TRUE])
      ELSE IF malformed # {} /\ malformed = DOMAIN logs THEN "INVALID_PROVIDER_LOGS"
      ELSE "NO_ELIGIBLE_TRIAL"

\* The snapshots of a simulated trade: only the one of the very checkpoint
\* counts, and price, effect or delta may be missing in it.
ExactSimulationSnapshot(snapshots) ==
  SelectSeq(snapshots, LAMBDA s : s.at = AsOf)

EnrichCandidate(snapshots) ==
  LET exact == ExactSimulationSnapshot(snapshots)
  IN  exact # <<>> /\ exact[1].known = {"price", "effect", "delta"}

-----------------------------------------------------------------------------
(* Errors.                                                                  *)

TimeoutCodes == {"PROVIDER_TIMEOUT", "ETIMEDOUT", "ECONNABORTED"}
NetworkCodes == {"ECONNRESET", "EAI_AGAIN", "ENOTFOUND", "ERR_NETWORK"}

Failure(category, retryable, rate) ==
  [category |-> category, retryable |-> retryable, rate |-> rate]

ProviderTimeout == Failure("PROVIDER_TIMEOUT", TRUE, None)

ClassifyDirectly(error) ==
  IF error.status = 429 \/ error.code = "PROVIDER_RATE_LIMIT"
  THEN Failure("PROVIDER_RATE_LIMIT", TRUE, error.rate)
  ELSE IF error.code \in TimeoutCodes THEN ProviderTimeout
  ELSE IF error.cache THEN Failure("CACHE_ERROR", error.retryable, None)
  ELSE Failure("PROVIDER_ERROR",
               \/ error.retryable \/ error.status = 408 \/ error.status >= 500
               \/ error.code \in NetworkCodes,
               None)

\* A retryable error of the cache is what caused it.
ClassifyFailure(error) ==
  LET direct == ClassifyDirectly(error)
  IN  IF direct.category = "CACHE_ERROR" /\ error.retryable /\ error.cause # None
      THEN ClassifyDirectly(error.cause)
      ELSE direct

\* What an attempt keeps of a provider's error.
ProviderErrorMetadata(error) ==
  [error EXCEPT !.cache = FALSE, !.cause = None,
                !.retryable = \/ error.retryable
                              \/ error.status \in {408, 429} \/ error.status >= 500
                              \/ error.code \in TimeoutCodes \cup
                                   {"ECONNRESET", "EAI_AGAIN", "ERR_CANCELED"}]

IsProviderTimeoutError(error) == error.code = "PROVIDER_TIMEOUT"

-----------------------------------------------------------------------------
(* Results.                                                                 *)

Until(failure) == IF failure.rate = None THEN -1 ELSE failure.rate.until

\* The first of some indices that last longest.
FirstLongest(indices, until) ==
  CHOOSE i \in indices : \A j \in indices :
    until[j] < until[i] \/ (until[j] = until[i] /\ i <= j)

\* All timeouts count as one; else a rate limit counts first, the one that
\* lasts longest; else the errors together.
FailureFromResult(result) ==
  LET failures == [i \in DOMAIN result.errors |-> ClassifyFailure(result.errors[i])]
      limited  == {i \in DOMAIN failures : failures[i].category = "PROVIDER_RATE_LIMIT"}
  IN  IF failures = <<>> THEN None
      ELSE IF \A i \in DOMAIN failures : failures[i].category = "PROVIDER_TIMEOUT"
      THEN failures[1]
      ELSE IF limited # {}
      THEN failures[FirstLongest(limited, [i \in limited |-> Until(failures[i])])]
      ELSE Failure("PROVIDER_ERROR",
                   \A i \in DOMAIN failures : failures[i].retryable, None)

\* The status of the discovery, in the words of the range.
CompletionStatus(result) ==
  IF result.found = 0 THEN "NOT_AVAILABLE"
  ELSE IF result.found = NumItems /\ result.priced THEN "AVAILABLE"
  ELSE "PARTIAL"

FailureStatus(failure, best) ==
  IF best # None /\ (best.found > 0 \/ best.tried > Len(best.errors))
  THEN "PARTIAL" ELSE failure.category

BetterResult(best, result) ==
  IF \/ best = None
     \/ result.found > best.found
     \/ result.found = best.found /\ result.tried > best.tried
  THEN result ELSE best

=============================================================================
