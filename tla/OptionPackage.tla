------------------------------ MODULE OptionPackage ------------------------------
(***************************************************************************)
(* Historical option packages (historical-option-package.ts): the value of *)
(* an exact set of legs at a checkpoint or along a path of bars, from      *)
(* completed candles only, at the first resolution of a declared order     *)
(* whose snapshot is whole.                                                *)
(*                                                                         *)
(* A candle has its start, close, the time it was available and whether it *)
(* is aligned with the profile.  A provider answers a batch with a result  *)
(* for some of the legs, by symbol.                                        *)
(*                                                                         *)
(* OldIsMissing is a faulty variant of the definition after it, for        *)
(* testing the properties.                                                 *)
(***************************************************************************)
EXTENDS ExecutionEvidence

CoverageReasons == {"REQUESTED_WINDOW_NOT_COVERED", "MISSING_CONTRACT_EVIDENCE"}
ModelableReasons ==
  {"HISTORICAL_CANDLE_UNAVAILABLE", "CONTRACT_ABSENT_FROM_RECONSTRUCTED_UNIVERSE"}

-----------------------------------------------------------------------------
(* The resolutions, tried in order until one has a whole snapshot.          *)

SnapshotFailed(results) ==
  \E symbol \in DOMAIN results : ~results[symbol].complete \/ results[symbol].truncated

\* Everything but a local budget error or a snapshot that is not whole ends
\* the search, as a result or as an error.
Decisive(answer) ==
  \/ answer.kind \in {"PROVIDER_ERROR", "CACHE_ERROR"}
  \/ answer.kind = "BATCH" /\ ~SnapshotFailed(answer.results)

DecisiveAttempts(answers) == {i \in DOMAIN answers : Decisive(answers[i])}
Selected(answers) ==
  IF DecisiveAttempts(answers) = {} THEN None ELSE Min(DecisiveAttempts(answers))

Batches(answers) == {i \in DOMAIN answers : answers[i].kind = "BATCH"}
DiagnosticResults(answers) ==
  IF Batches(answers) = {} THEN <<>> ELSE answers[Min(Batches(answers))].results

ResultOf(results, leg) ==
  IF Symbol(leg) \in DOMAIN results THEN results[Symbol(leg)] ELSE None

-----------------------------------------------------------------------------
(* One leg at an instant.                                                   *)

Usable(candle, at) == candle.aligned /\ candle.availableAt <= at

LaterCandle(candles, i, j) ==
  \/ candles[i].availableAt < candles[j].availableAt
  \/ candles[i].availableAt = candles[j].availableAt /\ i <= j

CandleAt(result, at, from) ==
  LET candles  == IF result = None THEN <<>> ELSE result.candles
      eligible == {i \in DOMAIN candles : candles[i].start >= from /\ Usable(candles[i], at)}
  IN  IF eligible = {} THEN None
      ELSE candles[CHOOSE j \in eligible : \A i \in eligible : LaterCandle(candles, i, j)]

Misaligned(result, from) ==
  result # None /\ \E i \in DOMAIN result.candles :
    result.candles[i].start >= from /\ ~result.candles[i].aligned

IsWhole(result) == result # None /\ result.complete /\ ~result.truncated

Freshness(result, candle, at, maxAge) ==
  IF candle = None \/ ~IsWhole(result) \/ candle.availableAt > at THEN "MISSING"
  ELSE IF at - candle.availableAt > maxAge THEN "STALE" ELSE "FRESH"

OldIsMissing(result, candle, freshness, misaligned) ==
  IF result = None \/ result.reasons \ CoverageReasons # {} \/ result.truncated
  THEN "PROVIDER_ERROR"
  ELSE IF freshness = "FRESH" THEN None ELSE "HISTORICAL_CANDLE_UNAVAILABLE"

LegFailureReason(result, candle, freshness, misaligned) ==
  CASE result = None \/ result.reasons \ CoverageReasons # {} \/ result.truncated -> "PROVIDER_ERROR"
    [] OTHER ->
       IF candle = None /\ misaligned THEN "ALIGNMENT_MISMATCH"
       ELSE IF freshness = "STALE" THEN "STALE_OBSERVATION"
       ELSE IF freshness = "FRESH" THEN None
       ELSE IF "REQUESTED_WINDOW_NOT_COVERED" \in result.reasons
       THEN "HISTORICAL_CANDLE_UNAVAILABLE"
       ELSE IF ~result.complete THEN "PROVIDER_ERROR"
       ELSE IF "MISSING_CONTRACT_EVIDENCE" \in result.reasons
       THEN "CONTRACT_ABSENT_FROM_RECONSTRUCTED_UNIVERSE"
       ELSE "HISTORICAL_CANDLE_UNAVAILABLE"

ObservedLeg(leg, result, candle, at, maxAge, misaligned) ==
  LET freshness == Freshness(result, candle, at, maxAge)
  IN  [leg |-> leg, freshness |-> freshness,
       reason |-> LegFailureReason(result, candle, freshness, misaligned),
       value |-> IF candle = None THEN None ELSE candle.close,
       sourceAt |-> IF candle = None THEN None ELSE candle.start,
       barEnd |-> IF candle = None THEN None ELSE candle.end,
       availableAt |-> IF candle = None THEN None ELSE candle.availableAt,
       retrievedAt |-> IF candle = None THEN None ELSE result.retrievedAt,
       manifest |-> IF candle = None THEN None ELSE result.manifest]

PackageValue(legs, values) ==
  MapThenSumSet(LAMBDA i : legs[i].quantity * values[i], DOMAIN legs)

-----------------------------------------------------------------------------
(* The package at a checkpoint.                                             *)

Reasons(observations) == {observations[i].reason : i \in DOMAIN observations} \ {None}

NoPackage(legs, results) ==
  LET observations == [i \in DOMAIN legs |->
        ObservedLeg(legs[i], ResultOf(results, legs[i]), None, 0, 0, FALSE)]
  IN  [status |-> "NOT_AVAILABLE", legs |-> observations, alignment |-> "UNKNOWN",
       value |-> None, reasons |-> Reasons(observations)]

SkewOf(observations) ==
  LET times == {observations[i].availableAt : i \in DOMAIN observations}
  IN  Max(times) - Min(times)

Alignment(observations, maxSkew) ==
  IF \E i \in DOMAIN observations : observations[i].freshness = "MISSING" THEN "UNKNOWN"
  ELSE IF SkewOf(observations) > maxSkew THEN "MISALIGNED" ELSE "ALIGNED"

Lookback(maxAge, interval) ==
  IF 2 * maxAge > maxAge + interval THEN 2 * maxAge ELSE maxAge + interval

PackageFrom(legs, results, at, interval, profile) ==
  LET from == at - Lookback(profile.maxAge, interval)
      observations == [i \in DOMAIN legs |->
        LET result == ResultOf(results, legs[i])
        IN  ObservedLeg(legs[i], result, CandleAt(result, at, from), at, profile.maxAge,
                        Misaligned(result, from))]
      alignment == Alignment(observations, profile.maxSkew)
      available == /\ alignment = "ALIGNED"
                   /\ \A i \in DOMAIN observations :
                        observations[i].freshness = "FRESH" /\ observations[i].reason = None
  IN  [status |-> IF available THEN "AVAILABLE" ELSE "NOT_AVAILABLE", legs |-> observations,
       alignment |-> alignment,
       value |-> IF available
                 THEN PackageValue(legs, [i \in DOMAIN legs |-> observations[i].value]) ELSE None,
       reasons |-> Reasons(observations)
                   \cup Flag(alignment = "MISALIGNED", "ALIGNMENT_MISMATCH")]

PackageAtCheckpoint(legs, answers, at, profile) ==
  LET i == Selected(answers)
  IN  IF i = None THEN NoPackage(legs, DiagnosticResults(answers))
      ELSE IF answers[i].kind # "BATCH" THEN [status |-> answers[i].kind]
      ELSE PackageFrom(legs, answers[i].results, at, profile.intervals[i], profile)

-----------------------------------------------------------------------------
(* The package along a window: one point for every aligned bar in it.       *)

BarStarts(from, to, interval) ==
  {t \in from..to : t % interval = 0 /\ t + interval <= to}

CandleStarting(result, start, to) ==
  LET candles == IF result = None THEN <<>> ELSE result.candles
      here == {i \in DOMAIN candles :
                 candles[i].start = start /\ candles[i].aligned /\ candles[i].availableAt <= to}
  IN  IF here = {} THEN None ELSE candles[Max(here)]

PathObservations(legs, results, start, to, interval) ==
  [i \in DOMAIN legs |->
     LET result == ResultOf(results, legs[i])
     IN  ObservedLeg(legs[i], result, CandleStarting(result, start, to), start + interval, 0,
                     FALSE)]

IsGap(observations, maxSkew) ==
  \/ \E i \in DOMAIN observations : observations[i].freshness # "FRESH"
  \/ SkewOf(observations) > maxSkew
  \/ PackageValue([i \in DOMAIN observations |-> observations[i].leg],
                  [i \in DOMAIN observations |-> observations[i].value]) = 0

PathPoint(observations, start, interval) ==
  [start |-> start, end |-> start + interval,
   at |-> Max({observations[i].availableAt : i \in DOMAIN observations}),
   value |-> PackageValue([i \in DOMAIN observations |-> observations[i].leg],
                          [i \in DOMAIN observations |-> observations[i].value])]

PackagePath(legs, answers, from, to, profile) ==
  LET i == Selected(answers)
      interval == profile.intervals[i]
      observed(start) == PathObservations(legs, answers[i].results, start, to, interval)
      starts == BarStarts(from, to, interval)
      gaps   == {start \in starts : IsGap(observed(start), profile.maxSkew)}
  IN  IF i = None THEN [status |-> "NOT_AVAILABLE", path |-> {}, gaps |-> {}]
      ELSE IF answers[i].kind # "BATCH" THEN [status |-> answers[i].kind, path |-> {}, gaps |-> {}]
      ELSE [status |-> IF gaps = starts THEN "NOT_AVAILABLE"
                       ELSE IF gaps = {} THEN "AVAILABLE" ELSE "PARTIAL",
            path |-> {PathPoint(observed(start), start, interval) : start \in starts \ gaps},
            gaps |-> gaps]

=============================================================================
