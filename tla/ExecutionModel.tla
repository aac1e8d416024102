---------------------------- MODULE ExecutionModel ----------------------------
(***************************************************************************)
(* The simulation of an order for a package against execution evidence     *)
(* (historical-execution-model.ts): an entry and an exit window with a     *)
(* signed limit each, the first usable observation that reaches it under a *)
(* frozen profile, and the profit and loss of what was filled.             *)
(*                                                                         *)
(* fraction is in parts of Whole, so that Whole stands for 1.              *)
(*                                                                         *)
(* AnyCoverage, Favourable and AlwaysCharged are faulty variants of the    *)
(* definition after them, for testing the properties.                      *)
(***************************************************************************)
EXTENDS ExecutionEvidence

CONSTANT Whole

ASSUME WholeAssumption == Whole \in Nat \ {0}

QuoteModels == {"QUOTE_LIMIT_TOUCH", "QUOTE_CROSS", "QUOTE_PRICE_IMPROVEMENT"}

Floor(x, increment) == (x \div increment) * increment
Ceiling(x, increment) == -Floor(-x, increment)
Larger(a, b) == IF a > b THEN a ELSE b

-----------------------------------------------------------------------------
(* The frozen profile and the fees.                                         *)

ValidProfile(p) ==
  /\ p.latency >= 0 /\ p.minSize > 0 /\ p.tick > 0 /\ p.cost >= 0
  /\ IF p.model = "REFERENCE_COST"
     THEN p.quoteSource = None /\ p.referenceType # None
     ELSE p.model \in QuoteModels /\ p.quoteSource # None /\ p.referenceType = None
  /\ IF p.model = "QUOTE_PRICE_IMPROVEMENT" THEN p.fraction \in 0..Whole ELSE p.fraction = None
  /\ p.model \in {"QUOTE_LIMIT_TOUCH", "QUOTE_CROSS"} => p.cost = 0

ValidFees(fees) == fees = None \/ fees >= 0

-----------------------------------------------------------------------------
(* The points of a window that the profile looks at.                        *)

SourceQuote(o, p) == IF p.quoteSource = "NATIVE_PACKAGE" THEN o.native ELSE o.synthetic

MatchingReferences(o, p) == SelectSeq(o.references, LAMBDA r : r.type = p.referenceType)

ReferencePoint(o, r) ==
  [at |-> o.at, bid |-> r.value, ask |-> r.value, bidSize |-> None, askSize |-> None,
   evidence |-> r]
QuotePoint(o, q) ==
  [at |-> o.at, bid |-> q.bid, ask |-> q.ask, bidSize |-> q.bidSize, askSize |-> q.askSize,
   evidence |-> q]

PointOf(o, p) ==
  IF p.model = "REFERENCE_COST"
  THEN LET matching == MatchingReferences(o, p)
       IN  IF matching # <<>> /\ matching[1].available
           THEN ReferencePoint(o, matching[1]) ELSE None
  ELSE LET q == SourceQuote(o, p)
       IN  IF q # None /\ q.usable /\ Priced(q) /\ q.signed THEN QuotePoint(o, q) ELSE None

\* The instants that have a point.
SelectedPoints(evidence, p) ==
  {t \in DOMAIN evidence.observations : PointOf(evidence.observations[t], p) # None}

-----------------------------------------------------------------------------
(* Prices.  An entry pays, an exit receives: costs and rounding are adverse *)
(* on either side.                                                          *)

Adverse(point, phase) == IF phase = "ENTRY" THEN point.ask ELSE point.bid
Nearest(x, increment, phase) == Floor(x + increment \div 2, increment)

Rounded(x, increment, phase) ==
  IF phase = "ENTRY" THEN Ceiling(x, increment) ELSE Floor(x, increment)
TickAligned(x, tick) == Floor(x, tick) = x /\ Ceiling(x, tick) = x

Sign(phase) == IF phase = "ENTRY" THEN 1 ELSE -1

\* From the midpoint towards the favourable side.
Favourable(point, p, phase) ==
  Whole * (point.bid + point.ask) - Sign(phase) * (point.ask - point.bid) * p.fraction
\* 2 * Whole times the price between the midpoint and the adverse side.
Interpolated(point, p, phase) ==
  Whole * (point.bid + point.ask) + Sign(phase) * (point.ask - point.bid) * p.fraction

ModeledPrice(point, p, phase, limit) ==
  CASE p.model = "QUOTE_LIMIT_TOUCH" -> limit
    [] p.model = "QUOTE_CROSS" -> Rounded(Adverse(point, phase), p.tick, phase)
    [] p.model = "REFERENCE_COST" ->
         Rounded(Adverse(point, phase) + Sign(phase) * p.cost, p.tick, phase)
    [] p.model = "QUOTE_PRICE_IMPROVEMENT" ->
         LET unit == 2 * Whole
         IN  Rounded(Interpolated(point, p, phase) + Sign(phase) * unit * p.cost,
                     unit * p.tick, phase) \div unit

ReachesLimit(price, limit, phase) ==
  IF phase = "ENTRY" THEN price <= limit ELSE price >= limit

-----------------------------------------------------------------------------
(* One phase: an order that is good from its window's start plus latency,   *)
(* and not before notBefore.                                                *)

Unfilled(status, coverage) ==
  [status |-> status, price |-> None, at |-> None, evidence |-> None, touch |-> None,
   coverage |-> coverage, observed |-> 0, late |-> 0, small |-> 0]

EligibleAfter(window, p, notBefore) == Larger(window.start + p.latency, notBefore)
Eligible(window, p, notBefore) ==
  {t \in SelectedPoints(window.evidence, p) : t >= EligibleAfter(window, p, notBefore)}

\* Counts every instant that has a usable quote, early ones too.
AnyCoverage(window, p, notBefore) ==
  IF SelectedPoints(window.evidence, p) # {} THEN "COMPLETE" ELSE "NONE"

Coverage(window, p, notBefore) ==
  LET expected == {t \in window.evidence.expected : t >= EligibleAfter(window, p, notBefore)}
      points   == Eligible(window, p, notBefore)
  IN  IF expected = {} THEN "NONE"
      ELSE IF expected \subseteq points THEN "COMPLETE"
      ELSE IF points # {} THEN "PARTIAL" ELSE "NONE"

BigEnough(point, p, phase, quantity) ==
  p.model = "REFERENCE_COST" \/
  LET size == IF phase = "ENTRY" THEN point.askSize ELSE point.bidSize
  IN  size # None /\ size >= Larger(quantity, p.minSize)

Trigger(point, p, phase, limit) ==
  IF p.model = "QUOTE_LIMIT_TOUCH" THEN Adverse(point, phase)
  ELSE ModeledPrice(point, p, phase, limit)

\* The instants whose size is enough, and those of them at which the order fills.
BigAt(phase, window, p, quantity, notBefore) ==
  {t \in Eligible(window, p, notBefore) :
     BigEnough(PointOf(window.evidence.observations[t], p), p, phase, quantity)}
FillsAt(phase, window, p, quantity, notBefore) ==
  {t \in BigAt(phase, window, p, quantity, notBefore) :
     ReachesLimit(Trigger(PointOf(window.evidence.observations[t], p), p, phase, window.limit),
                  window.limit, phase)}

EvaluatePhase(phase, window, p, quantity, notBefore) ==
  IF window.evidence = None THEN Unfilled("NOT_ASSESSABLE", "NONE")
  ELSE
  LET points   == Eligible(window, p, notBefore)
      coverage == Coverage(window, p, notBefore)
      late     == Cardinality(SelectedPoints(window.evidence, p) \ points)
      big      == BigAt(phase, window, p, quantity, notBefore)
      fills    == FillsAt(phase, window, p, quantity, notBefore)
      first    == Min(fills)
      point    == PointOf(window.evidence.observations[first], p)
      before   == {t \in big : t < first}
      start    == IF before = {} THEN EligibleAfter(window, p, notBefore) ELSE Max(before)
  IN  IF fills = {}
      THEN [Unfilled(IF coverage = "COMPLETE" THEN "NO_FILL_UNDER_MODEL" ELSE "NOT_ASSESSABLE",
                     coverage)
              EXCEPT !.observed = Cardinality(points), !.late = late,
                     !.small = Cardinality(points \ big)]
      ELSE [status |-> "SIMULATED_FILLED",
            price |-> ModeledPrice(point, p, phase, window.limit),
            at |-> first, evidence |-> point.evidence,
            touch |-> <<start, first>>, coverage |-> coverage,
            observed |-> Cardinality(points), late |-> late,
            small |-> Cardinality({t \in points \ big : t < first})]

NotEvaluated == Unfilled("NOT_EVALUATED", "NONE")
Filled(phase) == phase.status = "SIMULATED_FILLED"

-----------------------------------------------------------------------------
(* What a simulation is refused for.                                        *)

ValidWindow(w, p) ==
  /\ w.start < w.end /\ TickAligned(w.limit, p.tick)
  /\ w.evidence # None =>
       w.evidence.scope = "WINDOW" /\ w.evidence.expected \subseteq w.start..w.end

SameInventory(e, f) ==
  /\ e.family = f.family /\ e.fingerprint = f.fingerprint
  /\ e.inventory = f.inventory /\ e.multiplier = f.multiplier

RetrievedBy(evidence, time) ==
  \A t \in DOMAIN evidence.observations :
    LET o == evidence.observations[t]
        all == ToSet(o.quotes) \cup ToSet(o.references)
               \cup (IF o.native = None THEN {} ELSE {o.native})
    IN  \A q \in all : q.retrievedAt # None => q.retrievedAt <= time

\* Every usable quote or reference is of the frozen source.
SourceSelected(evidence, p, cohort) ==
  \A t \in DOMAIN evidence.observations :
    LET o == evidence.observations[t]
        matching == MatchingReferences(o, p)
    IN  IF p.model = "REFERENCE_COST"
        THEN \A k \in DOMAIN matching : matching[k].cohort = cohort
        ELSE SourceQuote(o, p) # None => SourceQuote(o, p).cohort \in {None, cohort}

\* A window that has two references of the type is refused, but only when its
\* points are selected: the exit's only after an entry that fills.
SelectedReference(window, p) ==
  window.evidence # None /\ p.model = "REFERENCE_COST" =>
    \A t \in DOMAIN window.evidence.observations :
      Len(MatchingReferences(window.evidence.observations[t], p)) <= 1

Entry(in) == EvaluatePhase("ENTRY", in.entry, in.profile, in.quantity, in.entry.start)

FirstExpiration(legs) == Min(Expirations(legs))

Evidences(in) == {in.entry.evidence, in.exit.evidence} \ {None}

FrozenTimes(in) == {in.frozen.decision, in.frozen.candidate, in.frozen.profile}

ValidSimulation(in) ==
  /\ in.priorAccess => in.stage = "IN_SAMPLE"
  /\ \A t \in FrozenTimes(in) : t <= in.accessedAt
  /\ in.quantity > 0 /\ ValidProfile(in.profile) /\ ValidFees(in.fees)
  /\ ValidWindow(in.entry, in.profile) /\ ValidWindow(in.exit, in.profile)
  /\ in.entry.evidence # None
  /\ in.exitAt \in in.exit.start..in.exit.end /\ in.entry.end < in.exit.start
  /\ in.entry.evidence.fingerprint = in.fingerprint
  /\ \A e \in Evidences(in) :
       /\ SameInventory(in.entry.evidence, e)
       /\ RetrievedBy(e, in.accessedAt) /\ SourceSelected(e, in.profile, in.cohort)
  /\ in.manifests = UNION {e.manifests : e \in Evidences(in)}
  /\ in.entry.evidence.family = "DOUBLE_DIAGONAL" =>
       in.exit.end < FirstExpiration(in.entry.evidence.inventory)
  /\ SelectedReference(in.entry, in.profile)
  /\ Filled(Entry(in)) => SelectedReference(in.exit, in.profile)

-----------------------------------------------------------------------------
(* Profit and loss.                                                         *)

Exit(in, entry) ==
  IF Filled(entry)
  THEN EvaluatePhase("EXIT", in.exit, in.profile, in.quantity, in.exitAt)
  ELSE NotEvaluated

SimulationStatus(entry, exit) ==
  IF Filled(entry) THEN IF Filled(exit) THEN "SIMULATED_FILLED" ELSE "OPEN_EXIT_UNRESOLVED"
  ELSE IF entry.status = "NO_FILL_UNDER_MODEL" THEN "NO_FILL_UNDER_MODEL"
  ELSE "NOT_ASSESSABLE"

FeePerSide(fees, legs, quantity) ==
  fees * quantity * MapThenSumSet(LAMBDA i : Magnitude(legs[i].quantity), DOMAIN legs)

\* Charged for an order that was never filled too.
AlwaysCharged(fees, side, phase) == IF fees = None THEN None ELSE side
FeesPaid(fees, side, phase) ==
  IF fees = None THEN None ELSE IF Filled(phase) THEN side ELSE 0

ProfitAndLoss(in, entry, exit) ==
  LET evidence == in.entry.evidence
      side  == FeePerSide(in.fees, evidence.inventory, in.quantity)
      paid(phase) == FeesPaid(in.fees, side, phase)
      gross == IF Filled(entry) /\ Filled(exit)
               THEN (exit.price - entry.price) * evidence.multiplier * in.quantity ELSE None
      fees  == IF in.fees = None THEN None ELSE paid(entry) + paid(exit)
  IN  [multiplier |-> evidence.multiplier, entryFees |-> paid(entry), exitFees |-> paid(exit),
       fees |-> fees, gross |-> gross,
       net |-> IF gross = None \/ fees = None THEN None ELSE gross - fees]

SimulationOf(in, entry, exit) ==
  [input |-> in, status |-> SimulationStatus(entry, exit), entry |-> entry, exit |-> exit,
   pnl |-> ProfitAndLoss(in, entry, exit)]

Simulate(in) == SimulationOf(in, Entry(in), Exit(in, Entry(in)))

=============================================================================
