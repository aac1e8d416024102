------------------------------ MODULE ReplayReport ------------------------------
(***************************************************************************)
(* The historical replay report (historical-replay.ts): two frozen         *)
(* policies, execution scenarios from optimistic to stress, and one record *)
(* for every accepted candidate, scenario and horizon, checked against     *)
(* what was frozen and then counted.                                       *)
(*                                                                         *)
(* A trade date is the instant of its 07:30 checkpoint.  A record is       *)
(* identified by its cell, so a record that comes twice is one record.     *)
(* Candidates are numbered in the order of their IDs.  An average or a     *)
(* ratio is kept as its two terms.                                         *)
(*                                                                         *)
(* IgnoresOpenExits and InIdOrder are faulty variants of the definition    *)
(* after them, for testing the properties.                                 *)
(***************************************************************************)
EXTENDS ExecutionModel

CoreRoles == {"OPTIMISTIC", "BASELINE", "STRESS"}
ModelOf(role) ==
  CASE role \in {"OPTIMISTIC", "BASELINE"} -> "QUOTE_PRICE_IMPROVEMENT"
    [] role = "STRESS"    -> "QUOTE_CROSS"
    [] role = "REFERENCE" -> "REFERENCE_COST"
Strength(model) == IF model = "REFERENCE_COST" THEN "REFERENCE_MODEL" ELSE "QUOTE_BACKED"

The(set, Is(_)) == CHOOSE x \in set : Is(x)

-----------------------------------------------------------------------------
(* Candidates and the policies that decide on them.                         *)

ExitOf(c, horizon) == The(c.exits, LAMBDA e : e.horizon = horizon).at

ValidCandidate(c, in) ==
  /\ in.from <= c.date /\ c.date <= in.to
  /\ c.status = "AVAILABLE" => Len(c.legs) = LegCount(c.family)
  /\ c.status # "AVAILABLE" => c.reasons # {}
  /\ ValidLegs(c.legs)
  /\ {e.horizon : e \in c.exits} = {h.id : h \in in.horizons}
  /\ Cardinality(c.exits) = Cardinality(in.horizons)
  /\ \A h, k \in in.horizons :
       c.date < ExitOf(c, h.id) /\ (h.days < k.days => ExitOf(c, h.id) < ExitOf(c, k.id))

ValidPolicy(p, in) ==
  /\ p.role \in {"BASELINE", "RESEARCH"}
  /\ p.version = IF p.role = "BASELINE" THEN "SPX-SPREAD-V1" ELSE "DD_MILD_BACK_RICH_V1"
  /\ p.version = "DD_MILD_BACK_RICH_V1" => p.scope = "MILD_BACK_RICH_ONLY"
  /\ p.frozenAt <= in.accessedAt
  /\ DOMAIN p.decisions = {c.id : c \in in.candidates}

Accepted(p) == {id \in DOMAIN p.decisions : p.decisions[id] = "ACCEPTED"}

Decided(p, in) ==
  \A c \in in.candidates :
    (c.status = "AVAILABLE") = (p.decisions[c.id] # "NOT_EVALUATED_MISSING_DATA")

Policies(in) ==
  /\ Cardinality(in.policies) = 2
  /\ {p.role : p \in in.policies} = {"BASELINE", "RESEARCH"}
  /\ Cardinality({p.id : p \in in.policies}) = 2
  /\ \A p \in in.policies : ValidPolicy(p, in) /\ p.frozenAt <= in.frozenAt /\ Decided(p, in)

Baseline(in) == The(in.policies, LAMBDA p : p.role = "BASELINE")
Research(in) == The(in.policies, LAMBDA p : p.role = "RESEARCH")
AcceptedUnion(in) == Accepted(Baseline(in)) \cup Accepted(Research(in))

Comparison(in) ==
  LET baseline == Accepted(Baseline(in))
      research == Accepted(Research(in))
  IN  [common |-> baseline \cap research, added |-> research \ baseline,
       removed |-> baseline \ research, union |-> AcceptedUnion(in)]

-----------------------------------------------------------------------------
(* Scenarios: one of each core role, of one source.                         *)

ValidScenario(s) ==
  /\ ValidProfile(s.profile) /\ ValidFees(s.fees)
  /\ s.profile.model = ModelOf(s.role) /\ s.strength = Strength(s.profile.model)
  /\ s.role = "OPTIMISTIC" => s.profile.fraction = 0 /\ s.profile.cost = 0
  /\ s.role = "BASELINE" => s.profile.fraction # 0 \/ s.profile.cost # 0

SourceGroup(s) == <<s.source, s.strength>>
CoreScenarios(in) == {s \in in.scenarios : s.role \in CoreRoles}

Scenarios(in) ==
  /\ \A s \in in.scenarios : ValidScenario(s)
  /\ Cardinality({s.id : s \in in.scenarios}) = Cardinality(in.scenarios)
  /\ \A role \in CoreRoles : Cardinality({s \in in.scenarios : s.role = role}) = 1
  /\ Cardinality({s.profile : s \in CoreScenarios(in)}) = Cardinality(CoreRoles)
  /\ Cardinality({s.profile.quoteSource : s \in CoreScenarios(in)}) = 1
  /\ Cardinality({SourceGroup(s) : s \in CoreScenarios(in)}) = 1

-----------------------------------------------------------------------------
(* A simulation, checked again from its own content.                        *)

VerifiedPhase(side, phase, window, tick) ==
  /\ window.start <= window.end /\ Floor(window.limit, tick) = window.limit
  /\ Filled(phase) = (phase.price # None /\ phase.at # None)
  /\ phase.at # None => window.start <= phase.at /\ phase.at <= window.end
  /\ Filled(phase) => phase.evidence # None /\ phase.touch # None
  /\ ~Filled(phase) => phase.evidence = None /\ phase.touch = None
  /\ phase.status = "NO_FILL_UNDER_MODEL" => phase.coverage = "COMPLETE"
  /\ phase.status = "NOT_EVALUATED" =>
       side = "EXIT" /\ phase.coverage = "NONE" /\ phase.observed = 0
  /\ Filled(phase) =>
       ReachesLimit(phase.price, window.limit, side) /\ Floor(phase.price, tick) = phase.price

VerifiedFees(sim) ==
  LET side == FeePerSide(sim.input.fees, sim.input.entry.evidence.inventory, sim.input.quantity)
      paid(phase) == IF Filled(phase) THEN side ELSE 0
  IN  IF sim.input.fees = None
      THEN {sim.pnl.entryFees, sim.pnl.exitFees, sim.pnl.fees, sim.pnl.net} = {None}
      ELSE /\ sim.pnl.entryFees = paid(sim.entry) /\ sim.pnl.exitFees = paid(sim.exit)
           /\ sim.pnl.fees = paid(sim.entry) + paid(sim.exit)
           /\ sim.pnl.net = IF sim.pnl.gross = None THEN None ELSE sim.pnl.gross - sim.pnl.fees

VerifiedArithmetic(sim) ==
  LET in == sim.input
  IN  /\ in.quantity > 0 /\ in.days > 0
      /\ VerifiedPhase("ENTRY", sim.entry, in.entry, in.profile.tick)
      /\ VerifiedPhase("EXIT", sim.exit, in.exit, in.profile.tick)
      /\ sim.pnl.multiplier = in.entry.evidence.inventory[1].multiplier
      /\ sim.status = SimulationStatus(sim.entry, sim.exit)
      /\ Filled(sim.entry) = (sim.exit.status # "NOT_EVALUATED")
      /\ sim.pnl.gross = IF Filled(sim.entry) /\ Filled(sim.exit)
                         THEN (sim.exit.price - sim.entry.price)
                              * sim.pnl.multiplier * in.quantity
                         ELSE None
      /\ VerifiedFees(sim)

-----------------------------------------------------------------------------
(* A simulation in its cell: all of it was frozen, and before the outcome.  *)

SameStudy(sim, c, in) ==
  /\ sim.input.run = in.run /\ sim.input.candidate = c.id
  /\ sim.input.fingerprint = c.fingerprint /\ sim.input.entry.evidence.family = c.family
  /\ sim.input.stage = in.stage /\ sim.input.construction = in.construction
  /\ sim.input.basis = in.basis /\ sim.input.accessedAt = in.accessedAt
  /\ sim.input.priorAccess => in.stage = "IN_SAMPLE"
  /\ \A t \in FrozenTimes(sim.input) : t <= in.frozenAt
  /\ sim.input.entry.start = c.date
  /\ sim.input.entry.evidence.inventory = c.legs

BeforeAccess(sim, in) ==
  \A t \in {sim.input.entry.end, sim.input.exit.end, sim.entry.at, sim.exit.at} \ {None} :
    t <= in.accessedAt

AtScheduledExit(sim, at) ==
  /\ sim.input.exitAt = at
  /\ sim.exit.status # "NOT_EVALUATED" => sim.input.exit.end >= at
  /\ sim.exit.at # None => sim.exit.at >= at
  /\ sim.exit.touch # None => \A i \in DOMAIN sim.exit.touch : sim.exit.touch[i] >= at

ValidSimulated(r, c, s, h, in) ==
  /\ r.simulation # None /\ r.valuation = None /\ r.manifests # {}
  /\ LET sim == r.simulation
     IN  /\ BeforeAccess(sim, in) /\ SameStudy(sim, c, in)
         /\ sim.input.profile = s.profile /\ sim.input.cohort = s.source
         /\ sim.input.fees = s.fees /\ Strength(sim.input.profile.model) = s.strength
         /\ sim.input.days = h.days /\ AtScheduledExit(sim, ExitOf(c, h.id))
         /\ VerifiedArithmetic(sim)
         /\ r.manifests = sim.input.manifests

ValidUnsimulated(r, s) ==
  /\ r.simulation = None /\ r.reasons # {}
  /\ r.class = "VALUATION_ONLY" => r.valuation # None /\ s.role = "REFERENCE"
  /\ r.class = "MISSING_EVIDENCE" => r.valuation = None

ValidRecord(r, in) ==
  /\ r.candidate \in AcceptedUnion(in)
  /\ r.scenario \in {s.id : s \in in.scenarios} /\ r.horizon \in {h.id : h \in in.horizons}
  /\ LET c == The(in.candidates, LAMBDA x : x.id = r.candidate)
         s == The(in.scenarios, LAMBDA x : x.id = r.scenario)
         h == The(in.horizons, LAMBDA x : x.id = r.horizon)
     IN  /\ r.symbols = [i \in DOMAIN c.legs |-> Symbol(c.legs[i])]
         /\ ExitOf(c, h.id) <= in.accessedAt
         /\ IF r.class = "SIMULATED_EXECUTION" THEN ValidSimulated(r, c, s, h, in)
            ELSE r.class \in {"VALUATION_ONLY", "MISSING_EVIDENCE"} /\ ValidUnsimulated(r, s)

-----------------------------------------------------------------------------
(* The matrix: every cell once, and rows that differ in the scenario only.  *)

Cell(r) == <<r.candidate, r.scenario, r.horizon>>
Cells(in) ==
  AcceptedUnion(in) \X {s.id : s \in in.scenarios} \X {h.id : h \in in.horizons}
RecordAt(in, cell) == The(in.records, LAMBDA r : Cell(r) = cell)

EntryOrder(sim) ==
  <<sim.input.quantity, sim.input.decision, sim.input.grading,
    sim.input.frozen.decision, sim.input.frozen.candidate, sim.input.entry>>
Order(sim) == <<EntryOrder(sim), sim.input.exit>>

CoreRecords(in, id, horizon) ==
  {RecordAt(in, <<id, s.id, horizon>>) : s \in CoreScenarios(in)}
Simulations(records) == {r.simulation : r \in records} \ {None}

MatrixComplete(in) ==
  /\ {Cell(r) : r \in in.records} = Cells(in)
  /\ Cardinality(in.records) = Cardinality(Cells(in))

OneRow(in, id, horizon) ==
  LET core == CoreRecords(in, id, horizon)
  IN  /\ Cardinality({r.manifests : r \in core}) = 1
      /\ Cardinality({Order(sim) : sim \in Simulations(core)}) <= 1

OneEntry(in, id) ==
  Cardinality({EntryOrder(sim) :
    sim \in Simulations(UNION {CoreRecords(in, id, h.id) : h \in in.horizons})}) <= 1

ValidReplay(in) ==
  /\ in.frozenAt <= in.accessedAt /\ in.from <= in.to
  /\ in.stage \in {"IN_SAMPLE", "OUT_OF_SAMPLE"}
  /\ Cardinality(in.horizons) = 2 /\ {h.days : h \in in.horizons} = {3, 5}
  /\ \A c \in in.candidates : ValidCandidate(c, in)
  /\ Policies(in) /\ Scenarios(in) /\ MatrixComplete(in)
  /\ \A r \in in.records : ValidRecord(r, in)
  /\ \A id \in AcceptedUnion(in) : OneEntry(in, id) /\ \A h \in in.horizons : OneRow(in, id, h.id)

-----------------------------------------------------------------------------
(* What a group of records comes to.                                        *)

Closed(records) == {r \in records : r.simulation # None /\ r.simulation.status = "SIMULATED_FILLED"}
Valued(records, field) == {r \in Closed(records) : r.simulation.pnl[field] # None}
ValueOf(r, field) == r.simulation.pnl[field]
SumOver(records, field) == MapThenSumSet(LAMBDA r : ValueOf(r, field), records)

MetricSummary(records, field) ==
  LET closed == Valued(records, field)
      wins   == {r \in closed : ValueOf(r, field) > 0}
      losses == {r \in closed : ValueOf(r, field) < 0}
  IN  [closed |-> Cardinality(closed), wins |-> Cardinality(wins), losses |-> Cardinality(losses),
       breakeven |-> Cardinality(closed) - Cardinality(wins) - Cardinality(losses),
       sum |-> SumOver(closed, field), gains |-> SumOver(wins, field),
       lost |-> -SumOver(losses, field),
       factor |-> IF closed = {} THEN "NO_CLOSED_POSITIONS"
                  ELSE IF wins = {} THEN "NO_GAINS"
                  ELSE IF losses = {} THEN "NO_LOSSES" ELSE "AVAILABLE"]

\* The order of the candidates, whenever they were closed.
InIdOrder(a, b) == a.candidate < b.candidate

ClosedBefore(a, b) ==
  \/ a.simulation.exit.at < b.simulation.exit.at
  \/ a.simulation.exit.at = b.simulation.exit.at /\ a.candidate < b.candidate

CloseSequence(records, field) == SetToSortSeq(Valued(records, field), ClosedBefore)

CloseSequenceDrawdown(records, field) ==
  LET step(acc, r) ==
        LET cumulative == acc.cumulative + ValueOf(r, field)
            peak == Larger(acc.peak, cumulative)
        IN  [cumulative |-> cumulative, peak |-> peak,
             maximum |-> Larger(acc.maximum, peak - cumulative)]
      sequence == CloseSequence(records, field)
  IN  IF sequence = <<>> THEN None
      ELSE FoldLeft(step, [cumulative |-> 0, peak |-> 0, maximum |-> 0], sequence).maximum

Simulated(records, status) ==
  Cardinality({r \in records : r.simulation # None /\ r.simulation.status = status})
OfClass(records, class) == Cardinality({r \in records : r.class = class})

Group(in, p, s, h) ==
  LET records == {RecordAt(in, <<id, s.id, h.id>>) : id \in Accepted(p)}
  IN  [policy |-> p.id, scenario |-> s.id, horizon |-> h.id, source |-> SourceGroup(s),
       records |-> records, accepted |-> Cardinality(Accepted(p)),
       filled |-> Simulated(records, "SIMULATED_FILLED"),
       noFill |-> Simulated(records, "NO_FILL_UNDER_MODEL"),
       notAssessable |-> Simulated(records, "NOT_ASSESSABLE"),
       openExit |-> Simulated(records, "OPEN_EXIT_UNRESOLVED"),
       valuationOnly |-> OfClass(records, "VALUATION_ONLY"),
       missing |-> OfClass(records, "MISSING_EVIDENCE"),
       gross |-> MetricSummary(records, "gross"), net |-> MetricSummary(records, "net"),
       grossDrawdown |-> CloseSequenceDrawdown(records, "gross"),
       netDrawdown |-> CloseSequenceDrawdown(records, "net")]

Conclusion(g) ==
  IF g.gross.closed = 0 THEN "NO_CLOSED_POSITIONS"
  ELSE IF g.gross.sum > 0 THEN "POSITIVE_EXPECTANCY" ELSE "NON_POSITIVE_EXPECTANCY"

-----------------------------------------------------------------------------
(* The report.                                                              *)

Groups(in) ==
  {Group(in, p, s, h) : p \in in.policies, s \in in.scenarios, h \in in.horizons}

Cohort(groups, g) ==
  {k \in groups : k.policy = g.policy /\ k.horizon = g.horizon /\ k.source = g.source}

Sensitive(groups) ==
  \E g \in groups : Cardinality({Conclusion(k) : k \in Cohort(groups, g)}) > 1

MissingData(in) ==
  [missing |-> Cardinality({c \in in.candidates : c.status = "MISSING"}),
   rejected |-> Cardinality({c \in in.candidates : c.status = "REJECTED"}),
   noEvidence |-> OfClass(in.records, "MISSING_EVIDENCE"),
   valuationOnly |-> OfClass(in.records, "VALUATION_ONLY"),
   notAssessable |-> Simulated(in.records, "NOT_ASSESSABLE"),
   openExit |-> Simulated(in.records, "OPEN_EXIT_UNRESOLVED")]

\* An exit that was never filled does not count.
IgnoresOpenExits(gaps) ==
  \E field \in {"missing", "rejected", "noEvidence", "notAssessable"} : gaps[field] > 0

Incomplete(gaps) ==
  \E field \in {"missing", "rejected", "noEvidence", "notAssessable", "openExit"} : gaps[field] > 0

ReportStatus(in) ==
  IF Closed(in.records) = {} THEN "NOT_ASSESSABLE"
  ELSE IF Incomplete(MissingData(in)) THEN "PARTIAL" ELSE "COMPLETE"

Report(in) ==
  [status |-> ReportStatus(in), comparison |-> Comparison(in), groups |-> Groups(in),
   gaps |-> MissingData(in), sensitive |-> Sensitive(Groups(in))]

=============================================================================
