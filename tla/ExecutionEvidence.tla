--------------------------- MODULE ExecutionEvidence ---------------------------
(***************************************************************************)
(* Historical execution evidence (historical-execution-evidence.ts): the   *)
(* quotes of the legs of a package at expected instants, with what makes   *)
(* each of them unusable, and the quote of the package that the legs or    *)
(* the provider show.                                                      *)
(*                                                                         *)
(* Prices and times are integers, None is null.  A quote has its prices,   *)
(* sizes, times, the cohort of its source (provider, dataset, licence,     *)
(* resolution and revision) and its manifest; "flaws" is what is wrong     *)
(* with its kind, its status and the meaning of its price.  The content ID *)
(* of a value is the value itself.                                         *)
(*                                                                         *)
(* AvailableOnly and WholeSize are faulty variants of the definition       *)
(* after them, for testing the properties.                                 *)
(***************************************************************************)
EXTENDS Integers, Sequences, FiniteSets, SequencesExt, FiniteSetsExt

CONSTANT None

Flag(condition, reason) == IF condition THEN {reason} ELSE {}
Magnitude(n) == IF n < 0 THEN -n ELSE n
\* Two functions in one, the first of which decides.
Joined(f, g) ==
  [x \in DOMAIN f \cup DOMAIN g |-> IF x \in DOMAIN f THEN f[x] ELSE g[x]]
SumOf(values) ==
  LET upTo[n \in 0..Len(values)] == IF n = 0 THEN 0 ELSE upTo[n - 1] + values[n]
  IN  upTo[Len(values)]

-----------------------------------------------------------------------------
(* The inventory: legs with their side, strike, signed quantity, expiration *)
(* and multiplier.                                                          *)

Families == {"DEBIT_VERTICAL", "CREDIT_VERTICAL", "IRON_CONDOR", "DOUBLE_DIAGONAL"}
LegCount(family) == IF family \in {"DEBIT_VERTICAL", "CREDIT_VERTICAL"} THEN 2 ELSE 4
Symbol(leg) == <<leg.side, leg.strike, leg.expiration>>
Expirations(legs) == {legs[i].expiration : i \in DOMAIN legs}

ValidLegs(legs) ==
  /\ \A i, j \in DOMAIN legs : Symbol(legs[i]) = Symbol(legs[j]) => i = j
  /\ \A i \in DOMAIN legs : legs[i].quantity # 0 /\ legs[i].multiplier > 0

ValidInventory(family, legs) ==
  /\ Len(legs) = LegCount(family)
  /\ ValidLegs(legs)
  /\ 2 * Cardinality({i \in DOMAIN legs : legs[i].quantity > 0}) = Len(legs)
  /\ IF family = "DOUBLE_DIAGONAL"
     THEN /\ Cardinality(Expirations(legs)) = 2
          /\ \A e \in Expirations(legs) :
               Cardinality({i \in DOMAIN legs : legs[i].expiration = e}) = 2
     ELSE Cardinality(Expirations(legs)) = 1
  /\ Cardinality({legs[i].multiplier : i \in DOMAIN legs}) = 1

-----------------------------------------------------------------------------
(* What is wrong with a quote at an instant.                                *)

QuoteTimes(q) == {q.sourceAt, q.availableAt, q.retrievedAt}

OutOfOrder(q, at) ==
  q.sourceAt > q.availableAt \/ q.availableAt > q.retrievedAt \/ at > q.retrievedAt

\* Trusts the time at which the quote was available.
AvailableOnly(q, at, maxAge) ==
  IF None \in QuoteTimes(q) THEN {"MISSING_QUOTE_TIMESTAMP"}
  ELSE Flag(q.availableAt > q.retrievedAt, "INVALID_TIMESTAMP_ORDER")
       \cup Flag(at - q.sourceAt > maxAge, "STALE_QUOTE")

QuoteTimingReasons(q, at, maxAge) ==
  IF None \in QuoteTimes(q) THEN {"MISSING_QUOTE_TIMESTAMP"}
  ELSE Flag(q.sourceAt > at, "FUTURE_SOURCE_TIMESTAMP")
       \cup Flag(q.availableAt > at, "FUTURE_AVAILABLE_AT")
       \cup Flag(OutOfOrder(q, at), "INVALID_TIMESTAMP_ORDER")
       \cup Flag(at - q.sourceAt > maxAge, "STALE_QUOTE")
       \cup (IF q.barEnd = None THEN {}
             ELSE Flag(q.barEnd > at, "INCOMPLETE_BAR")
                  \cup Flag(q.barEnd > q.availableAt, "INVALID_TIMESTAMP_ORDER"))

Priced(q) == q.bid # None /\ q.ask # None
Sized(q)  == q.bidSize \notin {None, 0} /\ q.askSize \notin {None, 0}

\* normalizeLegQuote; the flaws of a quote are reasons themselves.
LegQuote(q, leg, at, policy) ==
  Joined([q EXCEPT !.flaws =
            @ \cup QuoteTimingReasons(q, at, policy.maxAge)
              \cup Flag(~Priced(q), "MISSING_LEG_QUOTE")
              \cup Flag(Priced(q) /\ q.bid > q.ask, "CROSSED_LEG_QUOTE")
              \cup Flag(~Sized(q), "MISSING_LEG_SIZE")],
         [quantity |-> leg.quantity])

NoQuote ==
  [bid |-> None, ask |-> None, bidSize |-> None, askSize |-> None,
   sourceAt |-> None, availableAt |-> None, barEnd |-> None, retrievedAt |-> None,
   cohort |-> None, manifest |-> None, flaws |-> {"MISSING_LEG_QUOTE", "MISSING_LEG_SIZE"}]
MissingLegQuote(leg) == Joined(NoQuote, [quantity |-> leg.quantity])

-----------------------------------------------------------------------------
(* The package that the legs make.  Selling it hits the bid of what is long *)
(* and the ask of what is short; buying it the other sides.                 *)

TakesBid(q, side) == (side = "BID") = (q.quantity > 0)

WholeSize(q, side) ==
  LET size == IF TakesBid(q, side) THEN q.bidSize ELSE q.askSize
  IN  IF size = None THEN 0 ELSE size

Units(q, side) ==
  LET size == IF TakesBid(q, side) THEN q.bidSize ELSE q.askSize
  IN  IF size = None THEN 0 ELSE size \div Magnitude(q.quantity)

PackageSize(quotes, side) ==
  LET least == Min({Units(quotes[i], side) : i \in DOMAIN quotes})
  IN  IF least = 0 THEN None ELSE least

Cash(q, side) == q.quantity * (IF TakesBid(q, side) THEN q.bid ELSE q.ask)

PackagePrice(quotes, side) ==
  IF \E i \in DOMAIN quotes : ~Priced(quotes[i]) THEN None
  ELSE SumOf([i \in DOMAIN quotes |-> Cash(quotes[i], side)])

Latest(times) == IF None \in times THEN None ELSE Max(times)

SyntheticPackageQuote(quotes, cohorts, frame) ==
  LET bid == PackagePrice(quotes, "BID")
      ask == PackagePrice(quotes, "ASK")
      bidSize == PackageSize(quotes, "BID")
      askSize == PackageSize(quotes, "ASK")
      reasons == (UNION {quotes[i].flaws : i \in DOMAIN quotes}) \cup frame
                 \cup Flag(None \in {bidSize, askSize}, "INSUFFICIENT_PACKAGE_SIZE")
                 \cup Flag(bid # None /\ ask # None /\ bid > ask,
                           "CROSSED_SYNTHETIC_PACKAGE_QUOTE")
      latest(time(_)) == Latest({time(quotes[i]) : i \in DOMAIN quotes})
  IN  [bid |-> bid, ask |-> ask, bidSize |-> bidSize, askSize |-> askSize,
       origin |-> "ALIGNED_LEG_QUOTES", signed |-> TRUE,
       sourceAt |-> latest(LAMBDA q : q.sourceAt),
       availableAt |-> latest(LAMBDA q : q.availableAt),
       retrievedAt |-> latest(LAMBDA q : q.retrievedAt),
       cohort |-> IF Cardinality(cohorts) = 1 THEN CHOOSE c \in cohorts : TRUE ELSE None,
       usable |-> reasons = {}, reasons |-> reasons]

\* The package as the provider quotes it; only next to legs of its cohort.
NativePackageQuote(q, at, policy, cohorts) ==
  LET signed == "UNCLEAR_PRICE_SEMANTICS" \notin q.flaws
      reasons == q.flaws \cup QuoteTimingReasons(q, at, policy.maxAge)
                 \cup Flag(~Priced(q), "MISSING_NATIVE_PACKAGE_QUOTE")
                 \cup Flag(Priced(q) /\ q.bid > q.ask, "CROSSED_NATIVE_PACKAGE_QUOTE")
                 \cup Flag(~Sized(q), "MISSING_NATIVE_PACKAGE_SIZE")
                 \cup Flag(cohorts # {q.cohort}, "MIXED_QUOTE_COHORT")
  IN  [bid |-> IF signed THEN q.bid ELSE None, ask |-> IF signed THEN q.ask ELSE None,
       bidSize |-> q.bidSize, askSize |-> q.askSize,
       origin |-> "NATIVE_PACKAGE", signed |-> signed,
       sourceAt |-> q.sourceAt, availableAt |-> q.availableAt, retrievedAt |-> q.retrievedAt,
       cohort |-> q.cohort, manifest |-> q.manifest,
       usable |-> reasons = {}, reasons |-> reasons]

\* A trade, candle or model value, which no order can trade at.
Reference(r, at) ==
  LET reasons ==
        r.flaws \cup Flag(r.value = None, "MISSING_REFERENCE_VALUE")
        \cup (IF None \in QuoteTimes(r) THEN {"MISSING_REFERENCE_TIMESTAMP"}
              ELSE Flag(r.sourceAt > at, "FUTURE_SOURCE_TIMESTAMP")
                   \cup Flag(r.availableAt > at, "FUTURE_AVAILABLE_AT")
                   \cup Flag(OutOfOrder(r, at), "INVALID_TIMESTAMP_ORDER"))
        \cup Flag(r.barEnd # None /\ r.barEnd > at, "INCOMPLETE_BAR")
        \cup Flag(r.type = "MODEL_REFERENCE" /\ r.model = None, "MISSING_MODEL_VERSION")
  IN  Joined([r EXCEPT !.flaws = reasons], [available |-> reasons = {}])

-----------------------------------------------------------------------------
(* One instant: o.legs[i] is the quote of leg i or None.                    *)

Cohorts(quotes) == {quotes[i].cohort : i \in DOMAIN quotes} \ {None}

Skewed(quotes, policy) ==
  LET times == {quotes[i].sourceAt : i \in DOMAIN quotes}
  IN  None \notin times /\ Max(times) - Min(times) > policy.maxSkew

ReferenceCoverage(references, type) ==
  LET matching == {i \in DOMAIN references : references[i].type = type}
  IN  IF matching = {} THEN "NONE"
      ELSE IF \A i \in matching : references[i].available THEN "COMPLETE" ELSE "PARTIAL"

Observation(o, legs, policy) ==
  LET quotes == [i \in DOMAIN legs |->
                   IF o.legs[i] = None THEN MissingLegQuote(legs[i])
                   ELSE LegQuote(o.legs[i], legs[i], o.at, policy)]
      cohorts == Cohorts(quotes)
      frame == Flag(Cardinality(cohorts) > 1, "MIXED_QUOTE_COHORT")
               \cup Flag(Skewed(quotes, policy), "TEMPORAL_SKEW_EXCEEDED")
      synthetic == SyntheticPackageQuote(quotes, cohorts, frame)
      native == IF o.native = None THEN None
                ELSE NativePackageQuote(o.native, o.at, policy, cohorts)
      usable == synthetic.usable \/ (native # None /\ native.usable)
      rejected == synthetic.reasons # {} \/ (native # None /\ native.reasons # {})
  IN  [at |-> o.at, quotes |-> quotes, synthetic |-> synthetic, native |-> native,
       references |-> [i \in DOMAIN o.references |-> Reference(o.references[i], o.at)],
       status |-> IF ~usable THEN "REJECTED" ELSE IF rejected THEN "PARTIAL" ELSE "COMPLETE",
       coverage |-> IF usable THEN "COMPLETE"
                    ELSE IF native # None \/ \E i \in DOMAIN legs : o.legs[i] # None
                    THEN "PARTIAL" ELSE "NONE"]

\* statuses has that of every instant observed.
AggregateCoverage(statuses, expected) ==
  IF DOMAIN statuses = expected /\ ToSet(statuses) \subseteq {"COMPLETE"} THEN "COMPLETE"
  ELSE IF ToSet(statuses) \subseteq {"NONE"} THEN "NONE" ELSE "PARTIAL"

-----------------------------------------------------------------------------
(* The whole request: its expected instants and one observation at most for *)
(* each.                                                                    *)

ValidEvidenceRequest(r) ==
  LET observed == [i \in DOMAIN r.observations |-> r.observations[i].at]
  IN  /\ ValidInventory(r.family, r.legs)
      /\ r.expected # <<>> /\ IsInjective(r.expected)
      /\ r.scope = "SNAPSHOT" => Len(r.expected) = 1
      /\ ToSet(observed) \subseteq ToSet(r.expected) /\ IsInjective(observed)

Manifests(o) ==
  ({o.quotes[i].manifest : i \in DOMAIN o.quotes}
   \cup (IF o.native = None THEN {} ELSE {o.native.manifest})
   \cup {o.references[i].manifest : i \in DOMAIN o.references}) \ {None}

\* The observations are those of the instants, in whose order they are taken.
EvidenceOf(r, observations) ==
  LET instants == DOMAIN observations
      coverage(of(_)) == AggregateCoverage([t \in instants |-> of(observations[t])],
                                           ToSet(r.expected))
      complete == {t \in instants : observations[t].coverage = "COMPLETE"}
      quotes == coverage(LAMBDA o : o.coverage)
  IN  [scope |-> r.scope, family |-> r.family, inventory |-> r.legs,
       fingerprint |-> r.fingerprint, multiplier |-> r.legs[1].multiplier,
       expected |-> ToSet(r.expected), observations |-> observations,
       missing |-> ToSet(r.expected) \ instants,
       coverage |-> quotes,
       candles |-> coverage(LAMBDA o : ReferenceCoverage(o.references, "CANDLE_REFERENCE")),
       status |-> IF quotes = "COMPLETE" THEN "AVAILABLE"
                  ELSE IF complete # {} THEN "PARTIAL" ELSE "NOT_AVAILABLE",
       manifests |-> UNION {Manifests(observations[t]) : t \in instants}]

ObservedAt(r, t) == CHOOSE o \in ToSet(r.observations) : o.at = t

Evidence(r) ==
  EvidenceOf(r, [t \in {o.at : o \in ToSet(r.observations)} |->
                   Observation(ObservedAt(r, t), r.legs, r.policy)])

=============================================================================
