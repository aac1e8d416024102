----------------------------- MODULE PackageHorizons -----------------------------
(***************************************************************************)
(* Option packages at the horizons of frozen candidates                    *)
(* (historical-option-package-horizons.ts): the package of each candidate  *)
(* at its entry and three and five sessions later and, on request, a model *)
(* value for the legs whose candle is missing.                             *)
(*                                                                         *)
(* A session date is the instant of its checkpoint, the expiration of a    *)
(* leg the instant it settles.  A model input has its value, its times and *)
(* its manifest; a fallback has its inputs by session date.  The price of  *)
(* an option is its intrinsic value and its volatility, in place of        *)
(* Black-Scholes, whose value grows with both.                             *)
(*                                                                         *)
(* LegsAlone is a faulty variant of the definition after it, for testing   *)
(* the properties.                                                         *)
(***************************************************************************)
EXTENDS OptionPackage

HorizonDays ==
  [ENTRY |-> 0, OUTCOME_3_TRADING_DAYS |-> 3, OUTCOME_5_TRADING_DAYS |-> 5]

-----------------------------------------------------------------------------
(* The calendar of the caller and the frozen candidates.                    *)

ValidTradingCalendar(sessions) ==
  sessions # <<>> /\ \A i \in 2..Len(sessions) : sessions[i - 1] < sessions[i]

EntryIndex(sessions, c) == SelectInSeq(sessions, LAMBDA date : date = c.date)
SessionIndex(sessions, c, horizon) == EntryIndex(sessions, c) + HorizonDays[horizon]
Checkpoint(sessions, c, horizon) == sessions[SessionIndex(sessions, c, horizon)]

ValidHorizonCandidates(candidates, sessions, horizons) ==
  /\ candidates # {}
  /\ Cardinality({c.id : c \in candidates}) = Cardinality(candidates)
  /\ \A c \in candidates :
       /\ c.date \in ToSet(sessions) /\ ValidInventory(c.family, c.legs)
       /\ \A h \in horizons : SessionIndex(sessions, c, h) <= Len(sessions)

-----------------------------------------------------------------------------
(* The model inputs, all of which were there at the checkpoint.             *)

ValidModelSource(s, at, maxAge) ==
  /\ s.observedAt <= s.availableAt /\ s.availableAt <= s.retrievedAt
  /\ s.availableAt <= at /\ at <= s.retrievedAt
  /\ at - s.observedAt <= maxAge

ValidFallback(fallback, dates, candidates) ==
  fallback # None =>
    /\ fallback.maxAge >= 0 /\ fallback.shift \in 1..100
    /\ DOMAIN fallback.checkpoints \subseteq dates
    /\ \A at \in DOMAIN fallback.checkpoints :
         LET inputs == fallback.checkpoints[at]
         IN  /\ inputs.underlying.value > 0
             /\ ValidModelSource(inputs.underlying, at, fallback.maxAge)
             /\ DOMAIN inputs.legs \subseteq
                  UNION {{Symbol(c.legs[i]) : i \in DOMAIN c.legs} : c \in candidates}
             /\ \A symbol \in DOMAIN inputs.legs :
                  /\ inputs.legs[symbol].value > 0
                  /\ ValidModelSource(inputs.legs[symbol], at, fallback.maxAge)

-----------------------------------------------------------------------------
(* A horizon: the package, or an error in its place.                        *)

ErrorLeg(leg, reason) == [ObservedLeg(leg, None, None, 0, 0, FALSE) EXCEPT !.reason = reason]

Horizon(c, id, at, package) ==
  LET failed == package.status \in {"CACHE_ERROR", "PROVIDER_ERROR"}
  IN  [candidate |-> c.id, family |-> c.family, id |-> id, at |-> at,
       status  |-> IF failed THEN "ERROR" ELSE package.status,
       reasons |-> IF failed THEN {package.status} ELSE package.reasons,
       legs    |-> IF failed
                   THEN [i \in DOMAIN c.legs |-> ErrorLeg(c.legs[i], package.status)]
                   ELSE package.legs]

\* An error of the cache itself ends a call that may only read the cache.
Rethrown(package, mode) == mode = "CACHE_ONLY" /\ package.status = "CACHE_ERROR"

-----------------------------------------------------------------------------
(* The value of a leg: observed, modelled or none.                          *)

OptionPrice(leg, spot, volatility) ==
  LET intrinsic == IF leg.side = "CALL" THEN spot - leg.strike ELSE leg.strike - spot
  IN  (IF intrinsic > 0 THEN intrinsic ELSE 0) + volatility

ValuationLeg(source, value, low, high, inputs, reason) ==
  [source |-> source, value |-> value, low |-> low, high |-> high, inputs |-> inputs,
   reason |-> reason]

UnavailableValuationLeg(reason) == ValuationLeg("UNAVAILABLE", None, None, None, {}, reason)
ObservedValuationLeg(leg) ==
  ValuationLeg("OBSERVED", leg.value, leg.value, leg.value, {}, None)

ModeledValuationLeg(leg, at, checkpoint, fallback) ==
  IF Symbol(leg.leg) \notin DOMAIN checkpoint.legs
  THEN UnavailableValuationLeg("MODEL_LEG_INPUT_UNAVAILABLE")
  ELSE IF leg.leg.expiration <= at THEN UnavailableValuationLeg("OPTION_EXPIRED_AT_CHECKPOINT")
  ELSE
  LET input == checkpoint.legs[Symbol(leg.leg)]
      price(percent) ==
        OptionPrice(leg.leg, checkpoint.underlying.value, (input.value * percent) \div 100)
  IN  ValuationLeg("MODELED", price(100), price(100 - fallback.shift),
                   price(100 + fallback.shift), {checkpoint.underlying, input}, None)

\* Looks at the leg alone.
LegsAlone(horizon) == horizon.status = "ERROR"

NotModelable(horizon) ==
  horizon.status = "ERROR" \/ ~(horizon.reasons \subseteq ModelableReasons)

ValueLeg(leg, horizon, fallback) ==
  IF NotModelable(horizon) THEN UnavailableValuationLeg("STRICT_RECONSTRUCTION_NOT_MODELABLE")
  ELSE IF leg.reason = None /\ leg.value # None THEN ObservedValuationLeg(leg)
  ELSE IF leg.reason \notin ModelableReasons
  THEN UnavailableValuationLeg("STRICT_RECONSTRUCTION_NOT_MODELABLE")
  ELSE IF horizon.at \notin DOMAIN fallback.checkpoints
  THEN UnavailableValuationLeg("MODEL_CHECKPOINT_UNAVAILABLE")
  ELSE ModeledValuationLeg(leg, horizon.at, fallback.checkpoints[horizon.at], fallback)

-----------------------------------------------------------------------------
(* The value of the package, and the reference it makes.                    *)

SignedBounds(c, legs) ==
  LET value(of(_)) == PackageValue(c.legs, [i \in DOMAIN legs |-> of(legs[i])])
      values == {value(LAMBDA leg : leg.low), value(LAMBDA leg : leg.value),
                 value(LAMBDA leg : leg.high)}
  IN  [low |-> Min(values), high |-> Max(values)]

Known(times) == IF times \subseteq {None} THEN None ELSE Max(times \ {None})

Basis(legs) ==
  LET sources == {legs[i].source : i \in DOMAIN legs}
  IN  IF sources = {"OBSERVED"} THEN "EXACT_PACKAGE_REFERENCE"
      ELSE IF sources = {"MODELED"} THEN "MODEL_SURFACE" ELSE "MIXED_OBSERVED_MODELED"

Quality(basis) ==
  CASE basis = "EXACT_PACKAGE_REFERENCE" -> "HIGH"
    [] basis = "MIXED_OBSERVED_MODELED" -> "MEDIUM"
    [] basis = "MODEL_SURFACE" -> "LOW"

RegressionReference(horizon, legs, value, fallback) ==
  LET modeled == Basis(legs) # "EXACT_PACKAGE_REFERENCE"
      inputs == UNION {legs[i].inputs : i \in DOMAIN legs}
      observed(of(_)) == {of(horizon.legs[i]) : i \in DOMAIN legs}
      times == [sourceAt |-> Known(observed(LAMBDA leg : leg.sourceAt)
                                   \cup {input.observedAt : input \in inputs}),
                availableAt |-> Known(observed(LAMBDA leg : leg.availableAt)
                                      \cup {input.availableAt : input \in inputs}),
                retrievedAt |-> Known(observed(LAMBDA leg : leg.retrievedAt)
                                      \cup {input.retrievedAt : input \in inputs})]
  IN  IF None \in {times.sourceAt, times.availableAt, times.retrievedAt} THEN None
      ELSE [type |-> IF modeled THEN "MODEL_REFERENCE" ELSE "CANDLE_REFERENCE", value |-> value,
            barEnd |-> IF modeled THEN None ELSE Known(observed(LAMBDA leg : leg.barEnd)),
            cohort |-> IF modeled THEN fallback.cohort ELSE "tastytrade-dxlink",
            model |-> IF modeled THEN fallback.model ELSE None,
            manifest |-> <<horizon.id, horizon.at, Basis(legs), value>>, flaws |-> {}] @@ times

Fingerprint(c) == <<c.id, c.family, c.legs>>
Opening(c) == \A i \in DOMAIN c.legs : c.legs[i].opens

ExecutionEvidenceInput(c, at, reference) ==
  IF ~Opening(c) THEN None
  ELSE [scope |-> "WINDOW", family |-> c.family, legs |-> c.legs,
        fingerprint |-> Fingerprint(c), policy |-> [maxAge |-> 0, maxSkew |-> 0],
        expected |-> <<at>>,
        observations |-> <<[at |-> at, legs |-> [i \in DOMAIN c.legs |-> None], native |-> None,
                            references |-> <<reference>>]>>]

NoValuation(legs) ==
  [status |-> "NOT_AVAILABLE", basis |-> None, legs |-> legs, value |-> None, bounds |-> None,
   reasons |-> {legs[i].reason : i \in DOMAIN legs} \ {None},
   reference |-> None, evidence |-> None]

Valuation(c, horizon, fallback) ==
  LET legs  == [i \in DOMAIN c.legs |-> ValueLeg(horizon.legs[i], horizon, fallback)]
      value == PackageValue(c.legs, [i \in DOMAIN legs |-> legs[i].value])
      reference == RegressionReference(horizon, legs, value, fallback)
  IN  IF \E i \in DOMAIN legs : legs[i].source = "UNAVAILABLE" THEN NoValuation(legs)
      ELSE [status |-> "AVAILABLE", basis |-> Basis(legs), legs |-> legs, value |-> value,
            bounds |-> IF Basis(legs) = "EXACT_PACKAGE_REFERENCE" THEN None
                       ELSE SignedBounds(c, legs),
            reasons |-> {}, reference |-> reference,
            evidence |-> IF reference = None THEN None
                         ELSE ExecutionEvidenceInput(c, horizon.at, reference)]

HorizonResult(c, id, at, package, fallback) ==
  LET horizon == Horizon(c, id, at, package)
  IN  Joined(horizon, [valuation |-> IF fallback = None THEN None
                                     ELSE Valuation(c, horizon, fallback)])

-----------------------------------------------------------------------------
(* The coverage of all the horizons of all the candidates.                  *)

CompleteHorizons(horizons) == {h \in horizons : h.status = "AVAILABLE"}
ValuedHorizons(horizons) ==
  {h \in horizons : h.valuation # None /\ h.valuation.status = "AVAILABLE"}
LegsOf(horizons) == UNION {{h} \X DOMAIN h.legs : h \in horizons}
LegAt(entry) == entry[1].legs[entry[2]]

\* How many there are of each kind.
Tally(set, kind(_)) ==
  [k \in {kind(x) : x \in set} |-> Cardinality({x \in set : kind(x) = k})]

PackageCoverage(horizons) ==
  [requested |-> Cardinality(horizons), complete |-> Cardinality(CompleteHorizons(horizons)),
   byHorizon |-> Tally(CompleteHorizons(horizons), LAMBDA h : h.id),
   byStrategy |-> Tally(horizons, LAMBDA h : <<h.family, h.status = "AVAILABLE">>),
   byExpiration |-> Tally(LegsOf(horizons),
                          LAMBDA e : <<LegAt(e).leg.expiration, LegAt(e).reason = None>>),
   missing |-> Tally({e \in LegsOf(horizons) : LegAt(e).reason # None}, LAMBDA e : LegAt(e).reason),
   others |-> Tally(UNION {{h} \X (h.reasons \ Reasons(h.legs)) : h \in horizons},
                    LAMBDA e : e[2])]

ValuationCoverage(horizons) ==
  [valued |-> Cardinality(ValuedHorizons(horizons)),
   byHorizon |-> Tally(ValuedHorizons(horizons), LAMBDA h : h.id),
   bases |-> Tally(ValuedHorizons(horizons), LAMBDA h : h.valuation.basis),
   qualities |-> Tally(ValuedHorizons(horizons), LAMBDA h : Quality(h.valuation.basis)),
   modeled |-> Cardinality({e \in LegsOf(ValuedHorizons(horizons)) :
                              e[1].valuation.legs[e[2]].source = "MODELED"})]

Standing(done, requested) ==
  IF done = requested THEN "COMPLETE" ELSE IF done > 0 THEN "PARTIAL" ELSE "NOT_AVAILABLE"

HorizonsResult(horizons, fallback) ==
  LET coverage  == PackageCoverage(horizons)
      valuation == ValuationCoverage(horizons)
  IN  [status |-> Standing(coverage.complete, coverage.requested), coverage |-> coverage,
       valuationStatus |-> IF fallback = None THEN None
                           ELSE Standing(valuation.valued, coverage.requested),
       valuation |-> valuation]

=============================================================================
