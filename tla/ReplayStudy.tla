------------------------------ MODULE ReplayStudy ------------------------------
(***************************************************************************)
(* A replay study: the client of the tools asks for the packages of its    *)
(* frozen candidates at their horizons, normalises the execution evidence  *)
(* of each, simulates every cell of the matrix and has the report built    *)
(* from the records.  It may instead verify a fill against a path, or have *)
(* candidates or the universe of contracts reconstructed from candles.     *)
(*                                                                         *)
(* The functions of the tools keep no state of their own: what happens     *)
(* between them is decided by what the providers answer, by what the       *)
(* sources show at every expected instant and by the frozen study.  The    *)
(* client takes the cells in some order, which does not change what any of *)
(* the calls returns.                                                      *)
(***************************************************************************)
EXTENDS ReplayReport, PackageHorizons, HistoricalFill, CandidateReconstruction

CONSTANTS
  Studies,                 \* what may be frozen: candidates, decisions, scenarios, fallback, mode
  Sessions,                \* the calendar
  PackageProfile,          \* resolutions, age and skew of the packages
  Window(_, _),            \* the order of a candidate at a horizon
  QuotePolicy,             \* age and skew of the quotes
  Frame,                   \* run, stage, dates of the study and what else all its records share
  Answers(_, _, _),        \* what the provider may answer for a candidate at a horizon
  Observations(_, _, _),   \* what the source may have shown in the window of a horizon
  PathAnswers(_),          \* what the provider may answer for a path
  PathOrders,              \* the orders verified against a path
  CandidatePlans(_),       \* the plans of candidates to reconstruct
  UniversePlans(_),        \* the plans of universes, valid or not
  ChainAnswers(_)          \* what the provider may answer for a plan

VARIABLES
  phase, study,
  answers,     \* the answers of the provider, by candidate and horizon
  horizons,    \* the results of the horizons so far
  result,      \* what the horizons came to
  requests,    \* the evidence as it was handed in, or None where it was refused
  records,     \* the records of the cells so far
  report,      \* the report, or None
  fill,        \* the fill that was verified, with its path
  chain        \* what was reconstructed, with its plan and what was given for it

studyVars == <<phase, study, answers, horizons, result, requests, records, report, fill, chain>>

-----------------------------------------------------------------------------
(* What the schemas of the tools let through, as far as the proofs need it. *)

IsSequence(s) == s \in Seq(ToSet(s))

\* A quote has all its fields, with None for what is not known of it.
QuoteFields ==
  {"bid", "ask", "bidSize", "askSize", "sourceAt", "availableAt", "barEnd", "retrievedAt",
   "cohort", "manifest", "flaws"}
IsQuote(q) ==
  /\ DOMAIN q = QuoteFields
  /\ \A field \in {"bid", "ask", "sourceAt", "availableAt", "barEnd", "retrievedAt"} :
       q[field] \in Int \cup {None}
  /\ q.bidSize \in Nat \cup {None} /\ q.askSize \in Nat \cup {None}
  /\ q.cohort # None

IsObservation(o, legs) ==
  /\ o.at \in Int /\ DOMAIN o.legs = DOMAIN legs
  /\ \A i \in DOMAIN legs : o.legs[i] = None \/ IsQuote(o.legs[i])
  /\ o.native = None \/ IsQuote(o.native)

IsWindow(w) ==
  {w.start, w.end, w.limit} \subseteq Int /\ w.expected \in Seq(Int)

\* A candle is over when it is available (resolution-profile.ts).
IsChainResult(shown) ==
  /\ IsSequence(shown.candles)
  /\ \A i \in DOMAIN shown.candles :
       LET candle == shown.candles[i]
       IN  /\ {candle.end, candle.availableAt, candle.close} \subseteq Int
           /\ candle.iv \in Nat \cup {None} /\ candle.end <= candle.availableAt

\* A provider returns candles of the window it was asked for only
\* (historical-candles.ts retainCandle).
IsResult(shown, from) ==
  /\ shown # None /\ IsSequence(shown.candles)
  /\ \A i \in DOMAIN shown.candles :
       LET candle == shown.candles[i]
       IN  /\ {candle.end, candle.availableAt} \subseteq Int /\ candle.end <= candle.availableAt
           /\ candle # None /\ candle.start >= from
IsAnswer(given, at) ==
  /\ IsSequence(given)
  /\ \A i \in DOMAIN given : given[i].kind = "BATCH" =>
       \A symbol \in DOMAIN given[i].results :
         IsResult(given[i].results[symbol],
                  at - Lookback(PackageProfile.maxAge, PackageProfile.intervals[i]))

IsContract(c) == c.expiration \in Int /\ c.strike \in Int
IsChain(given) ==
  /\ given.underlying.kind = "RESULT" => IsChainResult(given.underlying.result)
  /\ IsFiniteSet(DOMAIN given.results)
  /\ \A c \in DOMAIN given.results : IsContract(c) /\ IsChainResult(given.results[c])

IsPlan(plan) == {plan.at, plan.maxAge, plan.skew, plan.session} \subseteq Int
IsItem(item) == item.value \in Int /\ item.dte \in Int

\* A call that does not get a result for every contract it asks for fails.
Answered(fetched(_, _), plan, given) ==
  LET underlying == CompleteObservation(given.underlying.result, plan.at, plan.maxAge)
  IN  given.underlying.kind = "RESULT" /\ underlying # None =>
        fetched(plan, underlying) \subseteq DOMAIN given.results

\* A null is no price, size or time, and no reason why a leg has no candle.
ASSUME PriceAssumption ==
  None \notin Int \cup ModelableReasons
                \cup {"PROVIDER_ERROR", "ALIGNMENT_MISMATCH", "STALE_OBSERVATION"}

\* Legs have numbers, and a policy accepts what has data only.
ASSUME StudyAssumption ==
  \A frozen \in Studies :
    /\ \A s \in frozen.scenarios :
         {s.profile.latency, s.profile.minSize, s.profile.tick, s.profile.cost} \subseteq Int
    /\ \A c \in frozen.candidates :
         IsSequence(c.legs) /\ \A i \in DOMAIN c.legs : c.legs[i].quantity \in Int
    /\ AcceptedUnion([policies |-> frozen.policies]) \subseteq
         {c.id : c \in {c \in frozen.candidates : c.status = "AVAILABLE"}}

\* The windows and what sources show have the types of the requests.
ASSUME EvidenceAssumption ==
  \A frozen \in Studies : \A c \in frozen.candidates, h \in DOMAIN HorizonDays :
    /\ IsWindow(Window(c, h))
    /\ \A observed \in Observations(frozen, c, h) :
         \A i \in DOMAIN observed : IsObservation(observed[i], c.legs)

\* Candidates are told apart by numbers, and what a provider answers for one at
\* a session has the types of its results.
ASSUME PackageAssumption ==
  /\ {PackageProfile.maxAge, PackageProfile.maxSkew} \subseteq Int
  /\ Sessions \in Seq(Int)
  /\ \A frozen \in Studies :
       /\ IsFiniteSet(frozen.candidates)
       /\ \A c \in frozen.candidates :
            /\ c.id \in Int
            /\ \A h \in DOMAIN HorizonDays : SessionIndex(Sessions, c, h) \in DOMAIN Sessions =>
                 \A given \in Answers(frozen, c, h) :
                   IsAnswer(given, Checkpoint(Sessions, c, h))

\* What all records share is apart from what each cell adds.
ASSUME FrameAssumption ==
  /\ "quantity" \in DOMAIN Frame.shared /\ Frame.shared.quantity \in Int
  /\ DOMAIN Frame.shared \cap {"candidate", "fingerprint", "days", "profile", "cohort", "fees",
                              "entry", "exit", "exitAt", "manifests"} = {}
  /\ "horizons" \in DOMAIN Frame.report
  /\ DOMAIN Frame.report \cap {"candidates", "policies", "scenarios", "records"} = {}
  /\ \A h \in Frame.report.horizons : h.id \in DOMAIN HorizonDays

\* Plans and the answers to them have the types of the reconstruction.
ASSUME ChainAssumption ==
  \A frozen \in Studies :
    /\ \A plan \in CandidatePlans(frozen) :
         /\ IsPlan(plan) /\ \A i \in DOMAIN plan.items : IsItem(plan.items[i])
         /\ \A given \in ChainAnswers(plan) :
              IsChain(given) /\ Answered(FetchedForItems, plan, given)
    /\ \A plan \in UniversePlans(frozen) :
         /\ IsPlan(plan)
         /\ \A given \in ChainAnswers(plan) :
              /\ IsChain(given)
              /\ ValidUniverse(plan) => Answered(FetchedForUniverse, plan, given)

-----------------------------------------------------------------------------
(* The candidates and the order in which the client takes them.             *)

Frozen == {c \in study.candidates : c.status = "AVAILABLE"}
CandidateOf(id) == The(Frozen, LAMBDA c : c.id = id)
Places == {c.id : c \in Frozen} \X DOMAIN HorizonDays

Earlier(a, b) ==
  a[1] < b[1] \/ (a[1] = b[1] /\ HorizonDays[a[2]] < HorizonDays[b[2]])
NextPlace(done) ==
  CHOOSE p \in Places \ done : \A q \in Places \ (done \cup {p}) : Earlier(p, q)

Outcomes == DOMAIN HorizonDays \ {"ENTRY"}
At(p) == Checkpoint(Sessions, CandidateOf(p[1]), p[2])
HorizonAt(id, h) == The(horizons, LAMBDA r : r.candidate = id /\ r.id = h)

StudyInit ==
  /\ study \in Studies
  /\ phase = "FROZEN"
  /\ answers = <<>> /\ horizons = {} /\ result = None /\ requests = <<>>
  /\ records = {} /\ report = None /\ fill = None
  /\ chain = None

-----------------------------------------------------------------------------
(* get_historical_option_package_horizons.                                  *)

Dates == {At(p) : p \in Places}

ValidHorizonsRequest ==
  /\ ValidTradingCalendar(Sessions)
  /\ ValidHorizonCandidates(Frozen, Sessions, DOMAIN HorizonDays)
  /\ ValidFallback(study.fallback, Dates, Frozen)

RequestHorizons ==
  /\ phase = "FROZEN"
  /\ phase' = IF ValidHorizonsRequest THEN "HORIZONS" ELSE "FAILED"
  /\ UNCHANGED <<study, answers, horizons, result, requests, records, report, fill, chain>>

Keep(p, given, package) ==
  LET all == horizons \cup
        {HorizonResult(CandidateOf(p[1]), p[2], At(p), package, study.fallback)}
      done == DOMAIN answers \cup {p}
  IN  /\ answers' = Joined(answers, [q \in {p} |-> given])
      /\ horizons' = all
      /\ IF done = Places
         THEN phase' = "EVIDENCE" /\ result' = HorizonsResult(all, study.fallback)
         ELSE UNCHANGED <<phase, result>>

\* One package.  The whole call fails with a cache that may not be filled.
PackageCheckpoint ==
  /\ phase = "HORIZONS"
  /\ LET p == NextPlace(DOMAIN answers)
         c == CandidateOf(p[1])
     IN  \E given \in Answers(study, c, p[2]) :
           LET package == PackageAtCheckpoint(c.legs, given, At(p), PackageProfile)
           IN  IF Rethrown(package, study.mode)
               THEN phase' = "FAILED" /\ UNCHANGED <<answers, horizons, result>>
               ELSE Keep(p, given, package)
  /\ UNCHANGED <<study, requests, records, report, fill, chain>>

-----------------------------------------------------------------------------
(* normalize_historical_execution_evidence, once for every window.          *)

EvidenceRequest(c, h, observed) ==
  [scope |-> "WINDOW", family |-> c.family, legs |-> c.legs, fingerprint |-> c.fingerprint,
   policy |-> QuotePolicy, expected |-> Window(c, h).expected, observations |-> observed]

NormalizeEvidence ==
  /\ phase = "EVIDENCE"
  /\ LET p == NextPlace(DOMAIN requests)
         c == CandidateOf(p[1])
     IN  \E observed \in Observations(study, c, p[2]) :
           LET request == EvidenceRequest(c, p[2], observed)
           IN  /\ requests' = Joined(requests,
                    [q \in {p} |-> IF ValidEvidenceRequest(request) THEN request ELSE None])
               /\ phase' = IF DOMAIN requests \cup {p} = Places THEN "RECORDS" ELSE phase
  /\ UNCHANGED <<study, answers, horizons, result, records, report, fill, chain>>

-----------------------------------------------------------------------------
(* simulate_historical_execution, once for every cell.  The scenarios on    *)
(* quotes take the evidence that the client handed in, the one on           *)
(* references what the horizons hand over.                                  *)

Normalized(request) == IF request = None THEN None ELSE Evidence(request)

HandedOver(id, h) ==
  LET valuation == HorizonAt(id, h).valuation
  IN  IF valuation = None THEN None ELSE valuation.evidence

EvidenceFor(s, id, h) ==
  Normalized(IF s.role = "REFERENCE" THEN HandedOver(id, h) ELSE requests[<<id, h>>])

Placed(s, c, h) ==
  LET window == Window(c, h)
  IN  [start |-> window.start, end |-> window.end, limit |-> window.limit,
       evidence |-> EvidenceFor(s, c.id, h)]

SimulationInput(c, s, h, entry, exit) ==
  Joined(Frame.shared,
    [candidate |-> c.id, fingerprint |-> c.fingerprint, days |-> h.days,
     profile |-> s.profile, cohort |-> s.source, fees |-> s.fees,
     entry |-> entry, exit |-> exit, exitAt |-> ExitOf(c, h.id),
     manifests |-> UNION {e.manifests : e \in {entry.evidence, exit.evidence} \ {None}}])

RecordOf(c, s, h, in) ==
  LET simulated == ValidSimulation(in) /\ in.manifests # {}
      valuation == HorizonAt(c.id, h.id).valuation
      valued == s.role = "REFERENCE" /\ valuation # None /\ valuation.status = "AVAILABLE"
  IN  [candidate |-> c.id, scenario |-> s.id, horizon |-> h.id,
       symbols |-> [i \in DOMAIN c.legs |-> Symbol(c.legs[i])],
       class |-> IF simulated THEN "SIMULATED_EXECUTION"
                 ELSE IF valued THEN "VALUATION_ONLY" ELSE "MISSING_EVIDENCE",
       simulation |-> IF simulated THEN Simulate(in) ELSE None,
       valuation |-> IF valued /\ ~simulated THEN valuation.value ELSE None,
       manifests |-> IF simulated THEN in.manifests ELSE {},
       reasons |-> IF simulated THEN {} ELSE {"NOT_SIMULATED"}]

RecordFor(c, s, h) ==
  RecordOf(c, s, h, SimulationInput(c, s, h, Placed(s, c, "ENTRY"), Placed(s, c, h.id)))

ReplayInput ==
  Joined(Frame.report,
    [candidates |-> study.candidates, policies |-> study.policies,
     scenarios |-> study.scenarios, records |-> records])

Unrecorded == Cells(ReplayInput) \ {Cell(r) : r \in records}
Following(cells) == CHOOSE cell \in cells : TRUE

SimulateCell ==
  /\ phase = "RECORDS" /\ Unrecorded # {}
  /\ LET cell == Following(Unrecorded)
     IN  records' = records \cup
           {RecordFor(CandidateOf(cell[1]), The(study.scenarios, LAMBDA s : s.id = cell[2]),
                      The(Frame.report.horizons, LAMBDA h : h.id = cell[3]))}
  /\ UNCHANGED <<phase, study, answers, horizons, result, requests, report, fill, chain>>

\* build_historical_replay_report.
BuildReport ==
  /\ phase = "RECORDS" /\ Unrecorded = {}
  /\ IF ValidReplay(ReplayInput)
     THEN phase' = "REPORTED" /\ report' = Report(ReplayInput)
     ELSE phase' = "REFUSED" /\ report' = None
  /\ UNCHANGED <<study, answers, horizons, result, requests, records, fill, chain>>

-----------------------------------------------------------------------------
(* get_historical_option_package_path and verify_historical_fill.           *)

InTime(path) == SetToSortSeq(path, LAMBDA p, q : p.start < q.start)

VerifyPath ==
  /\ phase = "FROZEN"
  /\ \E c \in Frozen, order \in PathOrders : \E given \in PathAnswers(study) :
       LET path == PackagePath(c.legs, given, order.from, order.to, PackageProfile)
       IN  /\ ValidOrder(order)
           /\ fill' = [answers |-> given, order |-> order, legs |-> c.legs,
                       verdict |-> VerifyFill(order, InTime(path.path))]
  /\ phase' = "VERIFIED"
  /\ UNCHANGED <<study, answers, horizons, result, requests, records, report, chain>>

-----------------------------------------------------------------------------
(* reconstructHistoricalSpxCandidates and                                   *)
(* get_historical_spx_candidate_universe.                                   *)

ReconstructCandidates ==
  /\ phase = "FROZEN"
  /\ \E plan \in CandidatePlans(study) : \E given \in ChainAnswers(plan) :
       chain' = [kind |-> "CANDIDATES", plan |-> plan, given |-> given,
                 result |-> Reconstruct(plan, given)]
  /\ phase' = "RECONSTRUCTED"
  /\ UNCHANGED <<study, answers, horizons, result, requests, records, report, fill>>

ReconstructUniverse ==
  /\ phase = "FROZEN"
  /\ \E plan \in UniversePlans(study) : \E given \in ChainAnswers(plan) :
       chain' = [kind |-> "UNIVERSE", plan |-> plan, given |-> given,
                 result |-> IF ValidUniverse(plan) THEN Universe(plan, given)
                            ELSE Thrown("INVALID_REQUEST")]
  /\ phase' = "RECONSTRUCTED"
  /\ UNCHANGED <<study, answers, horizons, result, requests, records, report, fill>>

StudyNext ==
  \/ ReconstructCandidates \/ ReconstructUniverse
  \/ RequestHorizons \/ PackageCheckpoint \/ NormalizeEvidence
  \/ SimulateCell \/ BuildReport \/ VerifyPath

StudySpec == StudyInit /\ [][StudyNext]_studyVars

-----------------------------------------------------------------------------
(* Properties.                                                              *)

SimulatedRecords == {r \in records : r.simulation # None}
ScenarioOf(r) == The(study.scenarios, LAMBDA s : s.id = r.scenario)
OnQuotes(r) ==
  ScenarioOf(r).role # "REFERENCE" /\ ScenarioOf(r).profile.model \in QuoteModels
OnLegs(r) == OnQuotes(r) /\ ScenarioOf(r).profile.quoteSource # "NATIVE_PACKAGE"
Crossing(r) == ScenarioOf(r).profile.model = "QUOTE_CROSS"

\* The two orders of a record, with the place whose evidence each of them met.
Orders(r) ==
  {[phase |-> r.simulation.entry, window |-> r.simulation.input.entry, side |-> "ENTRY",
    place |-> <<r.candidate, "ENTRY">>, after |-> r.simulation.input.entry.start],
   [phase |-> r.simulation.exit, window |-> r.simulation.input.exit, side |-> "EXIT",
    place |-> <<r.candidate, r.horizon>>, after |-> r.simulation.input.exitAt]}

\* What the source showed at an instant, as it was handed in.
Shown(place, t) ==
  {o \in ToSet(requests[place].observations) : o.at = t}
ShownAt(place, t) == CHOOSE o \in ToSet(requests[place].observations) : o.at = t

\* What an order can have at an instant from the legs on show: the price of
\* the whole package, and whether every leg has the size for it.
LegSide(leg, side) == IF (side = "ENTRY") = (leg.quantity > 0) THEN "ask" ELSE "bid"
SizeSide(leg, side) == IF LegSide(leg, side) = "ask" THEN "askSize" ELSE "bidSize"
ShownPrice(o, legs, side) ==
  SumOf([i \in DOMAIN legs |-> legs[i].quantity * o.legs[i][LegSide(legs[i], side)]])
ShownSize(o, legs, side, quantity) ==
  \A i \in DOMAIN legs :
    o.legs[i][SizeSide(legs[i], side)] >= quantity * Magnitude(legs[i].quantity)

\* The candles of what was reconstructed that were over, fresh and in a whole
\* result at the instant of the plan.
KnownCandles(shown) ==
  {candle \in ToSet(shown.candles) :
     /\ shown.complete /\ ~shown.truncated /\ shown.covered /\ candle.aligned
     /\ candle.end <= candle.availableAt /\ candle.availableAt <= chain.plan.at
     /\ chain.plan.at - candle.availableAt <= chain.plan.maxAge}
Closes(shown) == {candle.close : candle \in KnownCandles(shown)}

\* Whether a forward of an expiration is one that was known: that of a call and
\* a put with one strike, seen within the skew, or the underlying itself.
ForwardKnown(forward, day) ==
  LET of(side, strike) ==
        chain.given.results[[expiration |-> day, side |-> side, strike |-> strike]]
      strikes == {c.strike : c \in DOMAIN chain.given.results}
  IN  IF forward.basis = "PUT_CALL_PARITY"
      THEN \E strike \in strikes :
             \E call \in KnownCandles(of("CALL", strike)), put \in KnownCandles(of("PUT", strike)) :
               /\ forward.value = strike + call.close - put.close
               /\ Max({call.availableAt, put.availableAt})
                    <= Min({call.availableAt, put.availableAt}) + chain.plan.skew
      ELSE forward.value \in Closes(chain.given.underlying.result)

\* The candidates, or the contracts of the universe, that were reconstructed.
Reconstructed ==
  IF chain = None THEN {}
  ELSE IF chain.result.status = "THROWN" THEN {}
  ELSE IF chain.kind = "UNIVERSE" THEN chain.result.contracts
  ELSE ToSet(chain.result.candidates) \ {None}

\* No order fills on a quote that could not be known at the instant of the
\* fill: its source, its arrival and the end of its bar are not later, and it
\* was retrieved afterwards (historical-execution-evidence.ts quoteTimingReasons).
\* Nor does a reconstructed contract have a price, an underlying or a forward
\* that could not be known at the instant of the plan.
NoLookahead ==
  /\ \A c \in Reconstructed :
       /\ c.price \in Closes(chain.given.results[c.contract])
       /\ c.underlying \in Closes(chain.given.underlying.result)
       /\ c.delta # None => ForwardKnown(c.forward, c.contract.expiration)
  /\ \A r \in SimulatedRecords : OnQuotes(r) => \A order \in Orders(r) : Filled(order.phase) =>
       LET o == ShownAt(order.place, order.phase.at)
           used == IF OnLegs(r) THEN ToSet(o.legs) ELSE {o.native}
       IN  \A q \in used :
             /\ q.sourceAt <= o.at /\ q.availableAt <= o.at /\ o.at <= q.retrievedAt
             /\ q.barEnd # None => q.barEnd <= o.at

\* An order that fills on the quotes of the legs could have traded: every leg
\* shows the size on the side that is taken, all legs come from one source,
\* and crossing costs no less than what the legs show.
FillsExecutable ==
  \A r \in SimulatedRecords : OnLegs(r) => \A order \in Orders(r) : Filled(order.phase) =>
    LET o    == ShownAt(order.place, order.phase.at)
        legs == r.simulation.input.entry.evidence.inventory
        price == ShownPrice(o, legs, order.side)
    IN  /\ ShownSize(o, legs, order.side, r.simulation.input.quantity)
        /\ Cardinality({o.legs[i].cohort : i \in DOMAIN legs}) = 1
        /\ Crossing(r) =>
             IF order.side = "ENTRY" THEN order.phase.price >= price
             ELSE order.phase.price <= price

\* "No fill" is a proof: at every expected instant from which the order could
\* fill, the legs were on show, and crossing them missed the limit or the size
\* of the order, or the least size that the profile asks for.
NoFillProved ==
  \A r \in SimulatedRecords : OnLegs(r) => \A order \in Orders(r) :
    order.phase.status = "NO_FILL_UNDER_MODEL" =>
      \A t \in ToSet(Window(CandidateOf(r.candidate), order.place[2]).expected) :
        t >= order.after + ScenarioOf(r).profile.latency =>
          /\ Shown(order.place, t) # {}
          /\ LET o    == ShownAt(order.place, t)
                 legs == r.simulation.input.entry.evidence.inventory
             IN  /\ None \notin ToSet(o.legs)
                 /\ Crossing(r)
                    /\ ShownSize(o, legs, order.side,
                                 Larger(r.simulation.input.quantity,
                                        ScenarioOf(r).profile.minSize))
                    => ~ReachesLimit(Rounded(ShownPrice(o, legs, order.side),
                                             ScenarioOf(r).profile.tick, order.side),
                                     order.window.limit, order.side)

\* Scenarios of valid profiles on the same quotes, of which the first waits no
\* longer, asks for no more size and rounds alike.
Comparable(s, other) ==
  LET p == s.profile
      q == other.profile
  IN  /\ ValidScenario(s) /\ ValidScenario(other)
      /\ p.quoteSource = q.quoteSource /\ p.tick = q.tick
      /\ p.latency <= q.latency /\ p.minSize <= q.minSize

\* The optimistic scenario is the best of the comparable ones: where another
\* enters it enters, no later, and at the same instant for no more.
OptimisticIsBest ==
  \A r, k \in SimulatedRecords :
    /\ ScenarioOf(r).role = "OPTIMISTIC" /\ OnQuotes(k)
    /\ Comparable(ScenarioOf(r), ScenarioOf(k)) /\ r.candidate = k.candidate
    /\ Filled(k.simulation.entry)
    => LET best == r.simulation.entry
           other == k.simulation.entry
       IN  /\ Filled(best) /\ best.at <= other.at
           /\ best.at = other.at => best.price <= other.price

\* What the model simulates the report accepts: records of validated calls
\* never make it refuse the matrix (historical-replay.ts validates again, from
\* the content of every simulation, what historical-execution-model.ts wrote).
SimulationsAccepted == phase # "REFUSED"

\* The universe accounts for every contract of its grid: it is there where its
\* candle was known and its batch did not fail, and counted in the gap of its
\* expiration and side where it is not; a failed batch is never passed off as
\* a contract that did not exist, and a leg selected for the measurement is
\* handed over as seen exactly where it was.
UniverseAccounted ==
  chain # None /\ chain.kind = "UNIVERSE" /\ chain.result.status # "THROWN" =>
    LET universe == chain.result
        grid == Requested(chain.plan)
        seen == {c.contract : c \in universe.contracts}
        failed == UNION {e.contracts : e \in universe.errors}
        traded == {c \in grid : KnownCandles(chain.given.results[c]) # {}}
        spot == chain.given.underlying
        priced == spot.kind = "RESULT" /\ KnownCandles(spot.result) # {}
        inGap(c) == {g \in universe.gaps : g.expiration = c.expiration /\ g.side = c.side}
        runs(g) == UNION {{k \in run[1]..run[2] : (k - run[1]) % chain.plan.strikeStep = 0} :
                            run \in g.ranges}
    IN  /\ Cardinality(universe.contracts) = Cardinality(seen) /\ seen \subseteq grid
        /\ \A c \in grid : c \notin seen <=> \E g \in inGap(c) : c.strike \in runs(g)
        /\ \A g \in universe.gaps : g.missing = Cardinality(runs(g))
        /\ IF priced THEN traded \ failed \subseteq seen /\ seen \subseteq traded ELSE seen = {}
        /\ universe.status = "COMPLETE" => seen = grid
        /\ universe.status = "NOT_AVAILABLE" => universe.errors = {}
        /\ {o.contract : o \in {o \in universe.handoff : o.status = "COMPLETE"}} = seen
        /\ chain.plan.selectedLegs \subseteq {o.contract : o \in universe.handoff}

\* A report is complete only when every candidate was there and every accepted
\* cell ended: closed, proved without a fill, or a value that claims no trade.
\* The drawdown of a group is the worst loss from one close to a later one, in
\* the order in which its positions were closed.
Upto(closed, r) ==
  LET close(k) == k.simulation.exit.at
  IN  {k \in closed : \/ close(k) < close(r)
                     \/ (close(k) = close(r) /\ k.candidate <= r.candidate)}
CompletenessProved ==
  phase = "REPORTED" =>
    /\ report.status = "COMPLETE" =>
         /\ \A c \in study.candidates : c.status = "AVAILABLE"
         /\ \A r \in records :
              \/ r.class = "VALUATION_ONLY"
              \/ /\ r.simulation # None
                 /\ Filled(r.simulation.entry) => Filled(r.simulation.exit)
    /\ \A g \in report.groups :
         LET closed == Valued(g.records, "gross")
             until  == {Upto(closed, r) : r \in closed}
         IN  closed # {} =>
               g.grossDrawdown =
                 Max({0} \cup {-SumOver(late \ early, "gross") :
                                 early \in {{}} \cup until, late \in until})

\* What a report or a universe says of its own completeness is so.
ReportProved == CompletenessProved /\ UniverseAccounted

\* The candles of a leg that a valuation may rest on: from the first batch
\* that is whole, over and available at the checkpoint, and no older than the
\* profile allows.  There are none where no batch is whole.
WholeBatches(given) ==
  {i \in DOMAIN given : /\ given[i].kind = "BATCH"
                        /\ \A symbol \in DOMAIN given[i].results :
                             IsWhole(given[i].results[symbol])}
FirstWhole(given) == given[Min(WholeBatches(given))].results
Candles(given, leg, at) ==
  IF WholeBatches(given) = {} THEN {} ELSE
  {candle \in ToSet(FirstWhole(given)[Symbol(leg)].candles) :
     /\ candle.aligned /\ candle.end <= candle.availableAt /\ candle.availableAt <= at
     /\ at - candle.availableAt <= PackageProfile.maxAge}

\* What the provider answered for a leg: in the first batch that is whole, or,
\* where none is, in the first one that there is.
AnswerFor(given, leg) ==
  ResultOf(IF WholeBatches(given) = {} THEN DiagnosticResults(given) ELSE FirstWhole(given),
           leg)

\* Nothing of a leg was there to be seen at the checkpoint: no error took it
\* away, and no candle of the whole batch was available, be it too old or
\* misaligned for a valuation.
NothingSeen(given, leg, at) ==
  /\ AnswerFor(given, leg) # None
  /\ AnswerFor(given, leg).reasons \subseteq CoverageReasons
  /\ WholeBatches(given) # {} =>
       \A candle \in ToSet(AnswerFor(given, leg).candles) : candle.availableAt > at

\* Whether one of the candles of every leg can be picked so that all of them
\* are within the skew.
WithinSkew(candles) ==
  \E picked \in [DOMAIN candles -> UNION {candles[i] : i \in DOMAIN candles}] :
    LET times == {picked[i].availableAt : i \in DOMAIN candles}
    IN  /\ \A i \in DOMAIN candles : picked[i] \in candles[i]
        /\ Max(times) - Min(times) <= PackageProfile.maxSkew

\* A value at a horizon rests on what there was at its checkpoint: an observed
\* leg on a finished and fresh candle, all of them within the skew where every
\* leg is observed, and a modelled leg only where nothing was seen, not where a
\* candle was stale, misaligned or lost to an error, on inputs that were
\* available.
ValuationsHonest ==
  \A h \in horizons : h.valuation # None /\ h.valuation.status = "AVAILABLE" =>
    LET given == answers[<<h.candidate, h.id>>]
        legs  == CandidateOf(h.candidate).legs
        known == [i \in DOMAIN legs |-> Candles(given, legs[i], h.at)]
        backs == [i \in DOMAIN legs |->
                    {candle \in known[i] : candle.close = h.valuation.legs[i].value}]
    IN  /\ \A i \in DOMAIN legs :
             IF h.valuation.legs[i].source = "OBSERVED" THEN backs[i] # {}
             ELSE /\ NothingSeen(given, legs[i], h.at)
                  /\ \A input \in h.valuation.legs[i].inputs : input.availableAt <= h.at
        /\ h.valuation.basis = "EXACT_PACKAGE_REFERENCE" => WithinSkew(backs)

\* The signed values that a path showed: every bar whose legs all have a
\* finished candle.
BarsShown ==
  LET i == Selected(fill.answers)
      results == fill.answers[i].results
      closes(k, t) == {candle \in ToSet(results[Symbol(fill.legs[k])].candles) :
                         candle.start = t /\ candle.availableAt = candle.end}
      starts == {t \in fill.order.from..fill.order.to :
                   \A k \in DOMAIN fill.legs : closes(k, t) # {}}
      price(k, t) == (CHOOSE candle \in closes(k, t) : TRUE).close
  IN  {[at |-> t + PackageProfile.intervals[i],
        value |-> PackageValue(fill.legs, [k \in DOMAIN fill.legs |-> price(k, t)])] : t \in starts}

\* A verified touch happened, where and when it is said to; "not touched" means
\* that no stretch of the window as long as the largest gap went unobserved,
\* and that every price observed in it was above the threshold.
VerdictProved ==
  fill # None =>
    LET order == fill.order
        bars == {b \in BarsShown : order.submittedAt <= b.at /\ b.at <= order.validUntil}
        low  == {b \in bars : b.value <= Threshold(order)}
        window == fill.verdict.window
    IN  /\ fill.verdict.status = "TOUCHED" =>
             IF window = None THEN fill.verdict.at = Min({b.at : b \in low})
             ELSE window[2] = Min({b.at : b \in low}) /\ window[1] < window[2]
        /\ fill.verdict.status = "NOT_TOUCHED" =>
             /\ low = {}
             /\ \A t \in order.submittedAt..(order.validUntil - order.maxGap) :
                  \E b \in bars : t <= b.at /\ b.at <= t + order.maxGap

=============================================================================
