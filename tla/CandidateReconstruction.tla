------------------------ MODULE CandidateReconstruction ------------------------
(***************************************************************************)
(* Candidates and the contract universe reconstructed from candles         *)
(* (historical-spx-reconstruction.ts): the contracts are named from a grid *)
(* of strikes around the underlying, fetched in batches, and exist where a *)
(* finished candle shows them.                                             *)
(*                                                                         *)
(* A plan has its instant "at" and its session as a day; expirations are   *)
(* days, day % 7 the day of the week.  A candle has an implied volatility, *)
(* or None, and a result also whether it covers the session.  What the     *)
(* provider gives is the answer for the underlying, a result for every     *)
(* contract and the faults of its batches, by index.  The delta is linear  *)
(* in the distance of strike and forward over the volatility, in place of  *)
(* Black-76, which moves the same way with each of them.                   *)
(*                                                                         *)
(* RunningObservation, OneRange and NothingThere are faulty variants of    *)
(* the definition after them, for testing the properties.                  *)
(***************************************************************************)
EXTENDS OptionPackage

CONSTANT Grid   \* steps and radii of the strikes, batch sizes, the age a fresh candle may have

ASSUME GridAssumption ==
  /\ {Grid.step, Grid.parityStep, Grid.batch} \subseteq Nat \ {0}
  /\ {Grid.radius, Grid.deltaRadius, Grid.parityRadius, Grid.fresh} \subseteq Nat

-----------------------------------------------------------------------------
(* Expirations and strikes.                                                 *)

Sides == {"CALL", "PUT"}
Weekday(day) == day % 7 \in 1..5

ExpirationDates(session, dte, min, max) ==
  LET target == session + dte
      near   == SelectSeq(<<-1, 1, -2, 2, -3, 3>>, LAMBDA offset : Weekday(target + offset))
      dates  == IF Weekday(target) THEN {target} ELSE {target + near[1], target + near[2]}
  IN  {day \in dates : day - session \in min..max}

ToGrid(x, step) == ((2 * x + step) \div (2 * step)) * step

StrikeRange(center, radius, step) ==
  LET middle == ToGrid(center, step)
  IN  {strike \in (middle - radius)..(middle + radius) :
         (strike - middle + radius) % step = 0 /\ strike > 0}

CallDelta(forward, strike, volatility) ==
  LET delta == 50 + (50 * (forward - strike)) \div volatility
  IN  IF delta < 0 THEN 0 ELSE IF delta > 100 THEN 100 ELSE delta

\* Where the call delta is the one of the selector.
StrikeCenterForDelta(price, volatility, delta, side) ==
  LET call == IF side = "CALL" THEN delta ELSE 100 - delta
  IN  IF volatility \in {None, 0} \/ call \notin 1..99 THEN None
      ELSE ToGrid(price + ((50 - call) * volatility) \div 50, Grid.step)

Contracts(days, sides, strikes) ==
  {[expiration |-> day, side |-> side, strike |-> strike] :
     day \in days, side \in sides, strike \in strikes}

ParityContracts(days, price) ==
  Contracts(days, Sides, StrikeRange(price, Grid.parityRadius, Grid.parityStep))

-----------------------------------------------------------------------------
(* What a candle shows of a contract at the instant of the plan.            *)

\* Takes a candle that is not over at the instant.
RunningObservation(result, at, maxAge) ==
  LET begun == SelectSeq(result.candles, LAMBDA c : c.aligned /\ c.start <= at)
  IN  IF begun = <<>> THEN None ELSE Last(begun)

CompleteObservation(result, at, maxAge) ==
  LET candles == result.candles
      eligible == {i \in DOMAIN candles :
                     /\ Usable(candles[i], at) /\ candles[i].close > 0
                     /\ at - candles[i].availableAt <= maxAge}
  IN  IF ~IsWhole(result) \/ ~result.covered \/ eligible = {} THEN None
      ELSE candles[CHOOSE i \in eligible : \A j \in eligible :
                     \/ candles[j].availableAt < candles[i].availableAt
                     \/ candles[j].availableAt = candles[i].availableAt /\ i <= j]

SeenContracts(contracts, given, plan) ==
  LET shown(c) == CompleteObservation(given.results[c], plan.at, plan.maxAge)
  IN  [c \in {c \in contracts : shown(c) # None} |-> shown(c)]

\* The strikes of an expiration whose call and put are seen together.
ParityStrikes(observed, day, skew) ==
  LET at(side, strike) == [expiration |-> day, side |-> side, strike |-> strike]
  IN  {strike \in {c.strike : c \in DOMAIN observed} :
         LET call == at("CALL", strike)
             put  == at("PUT", strike)
         IN  /\ {call, put} \subseteq DOMAIN observed
             /\ Magnitude(observed[call].availableAt - observed[put].availableAt) <= skew
             /\ strike + observed[call].close - observed[put].close > 0}

\* The order of sequences of numbers, and what has the first of the keys.
Precedes(a, b) == \E i \in DOMAIN a : a[i] < b[i] /\ \A j \in 1..(i - 1) : a[j] = b[j]
FirstBy(keys) ==
  CHOOSE x \in DOMAIN keys : \A y \in DOMAIN keys : ~Precedes(keys[y], keys[x])

Forward(observed, day, price, plan) ==
  LET pair(strike) == {observed[c] : c \in Contracts({day}, Sides, {strike})}
      times(strike) == {candle.availableAt : candle \in pair(strike)}
      strikes == ParityStrikes(observed, day, plan.skew)
      best == FirstBy([k \in strikes |-> <<-Min(times(k)), Magnitude(k - price), k>>])
      close(side) == observed[[expiration |-> day, side |-> side, strike |-> best]].close
  IN  IF strikes = {} THEN None
      ELSE [value |-> best + close("CALL") - close("PUT"), at |-> Max(times(best)),
            basis |-> "PUT_CALL_PARITY"]

HistoricalDelta(c, candle, forward) ==
  IF forward = None \/ candle.iv \in {None, 0} THEN None
  ELSE CallDelta(forward.value, c.strike, candle.iv) - (IF c.side = "CALL" THEN 0 ELSE 100)

-----------------------------------------------------------------------------
(* The candidates of the items of a plan: the nearest contract to each      *)
(* selector, of those that can be seen.                                     *)

ItemStrikes(item, price, volatility) ==
  LET center == StrikeCenterForDelta(price, volatility, item.value, item.side)
      percent == IF item.side = "CALL" THEN 100 + item.value ELSE 100 - item.value
  IN  CASE item.method = "PERCENTAGE_OTM" ->
             StrikeRange((price * percent) \div 100, Grid.radius, Grid.step)
        [] item.method = "DELTA" /\ center # None ->
             StrikeRange(center, Grid.deltaRadius, Grid.step)
        [] OTHER -> {}

ItemDates(item, plan) == ExpirationDates(plan.session, item.dte, plan.min, plan.max)

EligibleContracts(item, plan, underlying) ==
  Contracts(ItemDates(item, plan), {item.side},
            ItemStrikes(item, underlying.close, underlying.iv))

Supported(plan) ==
  {i \in DOMAIN plan.items : plan.items[i].method \in {"DELTA", "PERCENTAGE_OTM"}}

FetchedForItems(plan, underlying) ==
  UNION {EligibleContracts(plan.items[i], plan, underlying)
         \cup ParityContracts(ItemDates(plan.items[i], plan), underlying.close) :
           i \in Supported(plan)}

SelectorScore(item, c, delta, price) ==
  CASE item.method = "DELTA" ->
         IF delta = None THEN None ELSE Magnitude(Magnitude(delta) - item.value)
    [] item.method = "PERCENTAGE_OTM" ->
         Magnitude(100 * c.strike
                   - price * (IF c.side = "CALL" THEN 100 + item.value ELSE 100 - item.value))

BuildCandidate(c, candle, delta, forward, underlying) ==
  [contract |-> c, price |-> candle.close, delta |-> delta, forward |-> forward,
   underlying |-> underlying.close, availableAt |-> candle.availableAt]

CandidateFor(item, plan, underlying, observed) ==
  LET eligible == EligibleContracts(item, plan, underlying) \cap DOMAIN observed
      forward(c) == Forward(observed, c.expiration, underlying.close, plan)
      delta(c) == HistoricalDelta(c, observed[c], forward(c))
      score(c) == SelectorScore(item, c, delta(c), underlying.close)
      scored == {c \in eligible : score(c) # None}
      best == FirstBy([c \in scored |->
                <<score(c), -observed[c].availableAt,
                  Magnitude(c.expiration - plan.session - item.dte), c.strike>>])
  IN  IF scored = {} THEN None
      ELSE BuildCandidate(best, observed[best], delta(best), forward(best), underlying)

Thrown(error) == [status |-> "THROWN", error |-> error]
BatchCount(contracts) == (Cardinality(contracts) + Grid.batch - 1) \div Grid.batch

\* A fault of any batch, which may be its answer after the deadline, ends the
\* call, the first one with its own error.
Reconstruct(plan, given) ==
  LET underlying == CompleteObservation(given.underlying.result, plan.at, plan.maxAge)
      fetched == FetchedForItems(plan, underlying)
      faults  == DOMAIN given.faults \cap 1..BatchCount(fetched)
      observed == SeenContracts(fetched, given, plan)
  IN  IF given.underlying.kind # "RESULT" THEN Thrown(given.underlying.kind)
      ELSE IF underlying = None
      THEN [status |-> "RETURNED", candidates |-> [i \in DOMAIN plan.items |-> None]]
      ELSE IF faults # {} THEN Thrown(given.faults[Min(faults)])
      ELSE [status |-> "RETURNED",
            candidates |-> [i \in DOMAIN plan.items |->
              IF i \in Supported(plan)
              THEN CandidateFor(plan.items[i], plan, underlying, observed) ELSE None]]

-----------------------------------------------------------------------------
(* The universe: every contract of a grid.                                  *)

UniverseExpirations(plan) ==
  IF plan.expirations # None THEN plan.expirations
  ELSE UNION {ExpirationDates(plan.session, dte, plan.min, plan.max) :
                dte \in {plan.min, (plan.min + plan.max) \div 2, plan.max}}

UniverseStrikes(plan) ==
  {strike \in plan.strikeMin..plan.strikeMax : strike % plan.strikeStep = 0}

Requested(plan) ==
  Contracts(UniverseExpirations(plan), ToSet(plan.sides), UniverseStrikes(plan))

\* The measurement of implied volatility may only select legs of the grid.
LegsInside(plan) == plan.selectedLegs \subseteq Requested(plan)

ValidUniverse(plan) ==
  /\ 1 <= plan.min /\ plan.min <= plan.max
  /\ 1 <= plan.strikeMin /\ plan.strikeMin <= plan.strikeMax /\ plan.strikeStep > 0
  /\ ~plan.fallback
  /\ plan.sides # <<>>
  /\ \A day \in UniverseExpirations(plan) : day - plan.session \in plan.min..plan.max
  /\ Requested(plan) # {} /\ Cardinality(Requested(plan)) <= plan.maxContracts
  /\ LegsInside(plan)

\* The place of a contract among those fetched: those requested first, by
\* expiration, side and strike, then the pairs, by expiration, strike and side.
FetchKey(plan, c) ==
  LET side == IF c.side \in ToSet(plan.sides) THEN SelectInSeq(plan.sides, LAMBDA s : s = c.side)
              ELSE 0
  IN  IF c \in Requested(plan) THEN <<0, c.expiration, side, c.strike>>
      ELSE <<1, c.expiration, c.strike, IF c.side = "CALL" THEN 1 ELSE 2>>

BatchOf(plan, fetched, c) ==
  1 + Cardinality({d \in fetched : Precedes(FetchKey(plan, d), FetchKey(plan, c))}) \div Grid.batch

FetchedForUniverse(plan, underlying) ==
  Requested(plan) \cup ParityContracts(UniverseExpirations(plan), underlying.close)

UniverseDeltaForward(forward, underlying) ==
  IF forward # None THEN forward
  ELSE [value |-> underlying.close, at |-> underlying.availableAt,
        basis |-> "SPOT_FORWARD_ZERO_CARRY"]

UniverseContract(c, candle, plan, underlying, forward) ==
  [contract |-> c, price |-> candle.close, iv |-> candle.iv, underlying |-> underlying.close,
   delta |-> HistoricalDelta(c, candle, forward), forward |-> forward,
   availableAt |-> candle.availableAt,
   freshness |-> IF plan.at - candle.availableAt > Grid.fresh THEN "STALE" ELSE "FRESH"]

-----------------------------------------------------------------------------
(* The coverage of a universe.                                              *)

\* Never ends a run.
OneRange(missing, step) ==
  IF missing = {} THEN {} ELSE {<<Min(missing), Max(missing)>>}

\* Runs of missing strikes, each with its ends.
MissingStrikeRanges(missing, step) ==
  {run \in missing \X missing :
     /\ run[1] <= run[2] /\ run[1] - step \notin missing /\ run[2] + step \notin missing
     /\ \A strike \in run[1]..run[2] : (strike - run[1]) % step = 0 => strike \in missing}

UniverseCoverageGaps(plan, contracts) ==
  LET verified(day, side) ==
        {c.contract.strike : c \in {c \in contracts : c.contract.expiration = day
                                                      /\ c.contract.side = side}}
      gap(day, side) ==
        LET missing == UniverseStrikes(plan) \ verified(day, side)
        IN  [expiration |-> day, side |-> side, missing |-> Cardinality(missing),
             ranges |-> MissingStrikeRanges(missing, plan.strikeStep)]
      gaps == {gap(day, side) : day \in UniverseExpirations(plan), side \in ToSet(plan.sides)}
  IN  {g \in gaps : g.missing > 0}

UniverseFieldCoverage(contracts) ==
  [price |-> Cardinality(contracts),
   delta |-> Cardinality({c \in contracts : c.delta # None}),
   iv    |-> Cardinality({c \in contracts : c.iv # None})]

\* Forgets that batches failed.
NothingThere(verified, requested, errors) ==
  IF verified = 0 THEN "NOT_AVAILABLE"
  ELSE IF verified = requested THEN "COMPLETE" ELSE "PARTIAL"

UniverseStatus(verified, requested, errors) ==
  IF verified = 0 THEN IF errors # {} THEN "PROVIDER_ERROR" ELSE "NOT_AVAILABLE"
  ELSE IF verified = requested THEN "COMPLETE" ELSE "PARTIAL"

\* What is handed to the measurement of implied volatility: an observation of
\* every contract, and a missing one for a selected leg that was not seen.
ObservationFromUniverse(c) ==
  [contract |-> c.contract, status |-> "COMPLETE", iv |-> c.iv, delta |-> c.delta,
   availableAt |-> c.availableAt, freshness |-> c.freshness]
MissingObservation(leg) ==
  [contract |-> leg, status |-> "MISSING", iv |-> None, delta |-> None, availableAt |-> None,
   freshness |-> "UNKNOWN"]
Handoff(plan, contracts) ==
  {ObservationFromUniverse(c) : c \in contracts}
  \cup {MissingObservation(leg) : leg \in plan.selectedLegs \ {c.contract : c \in contracts}}

UniverseResult(plan, contracts, errors, status) ==
  [status |-> status, contracts |-> contracts, errors |-> errors,
   gaps |-> UniverseCoverageGaps(plan, contracts),
   missing |-> Cardinality(Requested(plan)) - Cardinality(contracts),
   fields |-> UniverseFieldCoverage(contracts), handoff |-> Handoff(plan, contracts)]

EmptyUniverse(plan, status, errors) == UniverseResult(plan, {}, errors, status)

\* A batch that fails is named and skipped; only an error of the cache ends
\* the call.
UniverseAround(plan, given, underlying) ==
  LET fetched == FetchedForUniverse(plan, underlying)
      batch(c) == BatchOf(plan, fetched, c)
      failed == DOMAIN given.faults \cap 1..BatchCount(fetched)
      errors == {[stage |-> "OPTION_BATCH", contracts |-> {c \in fetched : batch(c) = i}] :
                   i \in failed}
      observed == SeenContracts({c \in fetched : batch(c) \notin failed}, given, plan)
      forward(day) ==
        UniverseDeltaForward(Forward(observed, day, underlying.close, plan), underlying)
      contracts == {UniverseContract(c, observed[c], plan, underlying, forward(c.expiration)) :
                      c \in Requested(plan) \cap DOMAIN observed}
  IN  IF \E i \in failed : given.faults[i] = "CACHE_ERROR" THEN Thrown("CACHE_ERROR")
      ELSE UniverseResult(plan, contracts, errors,
             UniverseStatus(Cardinality(contracts), Cardinality(Requested(plan)), errors))

Universe(plan, given) ==
  LET underlying == CompleteObservation(given.underlying.result, plan.at, plan.maxAge)
  IN  IF given.underlying.kind = "CACHE_ERROR" THEN Thrown("CACHE_ERROR")
      ELSE IF given.underlying.kind # "RESULT"
      THEN EmptyUniverse(plan, "PROVIDER_ERROR", {[stage |-> "UNDERLYING", contracts |-> {}]})
      ELSE IF underlying = None THEN EmptyUniverse(plan, "NOT_AVAILABLE", {})
      ELSE UniverseAround(plan, given, underlying)

=============================================================================
