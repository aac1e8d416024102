----------------------------- MODULE MCReplayStudy -----------------------------
(* Small instances of ReplayStudy for TLC.  In each world one part of the    *)
(* study is rich and the others are plain: the quotes of the entry, those of *)
(* the exit, the package as the provider quotes it, the candles, the path,   *)
(* and the groups of candidates.                                             *)
EXTENDS ReplayStudy

Days == <<0, 10, 20, 30, 40, 50, 60, 70>>
Profiles == [intervals |-> <<2, 4>>, maxAge |-> 4, maxSkew |-> 1]
Policy2  == [maxAge |-> 2, maxSkew |-> 1]

Leg(strike, expiration, quantity) ==
  [side |-> "CALL", strike |-> strike, expiration |-> expiration, quantity |-> quantity,
   multiplier |-> 100, opens |-> TRUE]
Vertical == <<Leg(100, 200, 2), Leg(110, 200, -2)>>
Expiring == <<Leg(100, 38, 2), Leg(110, 38, -2)>>
Put(leg) == [leg EXCEPT !.side = "PUT"]
Diagonal == <<Leg(110, 45, -1), Put(Leg(90, 45, -1)), Leg(110, 200, 1), Put(Leg(90, 200, 1))>>
Outcome3 == "OUTCOME_3_TRADING_DAYS"
Outcome5 == "OUTCOME_5_TRADING_DAYS"

CandidateWith(family, legs, id, date) ==
  [id |-> id, date |-> date, family |-> family, legs |-> legs,
   fingerprint |-> <<id, family, legs>>, status |-> "AVAILABLE", reasons |-> {},
   exits |-> {[horizon |-> Outcome3, at |-> date + 30], [horizon |-> Outcome5, at |-> date + 50]}]
CandidateOn(id, date) == CandidateWith("DEBIT_VERTICAL", Vertical, id, date)
Lost(c) == [c EXCEPT !.status = "MISSING", !.reasons = {"NO_CHAIN"}]
One   == {CandidateOn(1, 10)}
Three == {CandidateOn(1, 10), CandidateOn(2, 0), CandidateOn(3, 20)}

Decide(accepted, candidates) ==
  [id \in {c.id : c \in candidates} |->
     IF (CHOOSE c \in candidates : c.id = id).status # "AVAILABLE"
     THEN "NOT_EVALUATED_MISSING_DATA"
     ELSE IF id \in accepted THEN "ACCEPTED" ELSE "REJECTED"]
Two(candidates, baseline, research) ==
  {[id |-> 1, role |-> "BASELINE", version |-> "SPX-SPREAD-V1", scope |-> "ALL",
    frozenAt |-> 95, decisions |-> Decide(baseline, candidates)],
   [id |-> 2, role |-> "RESEARCH", version |-> "DD_MILD_BACK_RICH_V1",
    scope |-> "MILD_BACK_RICH_ONLY", frozenAt |-> 95,
    decisions |-> Decide(research, candidates)]}

Profile(model, source, reference, latency, fraction, cost) ==
  [model |-> model, quoteSource |-> source, referenceType |-> reference, latency |-> latency,
   minSize |-> 1, tick |-> 3, fraction |-> fraction, cost |-> cost]
Scenario(id, role, source, profile) ==
  [id |-> id, role |-> role, strength |-> Strength(profile.model), source |-> source,
   profile |-> profile, fees |-> IF role = "REFERENCE" THEN None ELSE 1]
ScenariosOn(source) ==
  {Scenario(1, "OPTIMISTIC", "A", Profile("QUOTE_PRICE_IMPROVEMENT", source, None, 1, 0, 0)),
   Scenario(2, "BASELINE", "A", Profile("QUOTE_PRICE_IMPROVEMENT", source, None, 1, 1, 0)),
   Scenario(3, "STRESS", "A", Profile("QUOTE_CROSS", source, None, 1, None, 0)),
   Scenario(4, "REFERENCE", "tastytrade-dxlink",
            Profile("REFERENCE_COST", None, "CANDLE_REFERENCE", 0, None, 1))}

Input(value, t) == [value |-> value, observedAt |-> t, availableAt |-> t, retrievedAt |-> 90,
                    manifest |-> <<"model">>]
Inputs(legs, t) ==
  [underlying |-> Input(105, t),
   legs |-> (Symbol(legs[1]) :> Input(8, t)) @@ (Symbol(legs[2]) :> Input(2, t))]
Fallback(checkpoints) ==
  [maxAge |-> 3, shift |-> 50, cohort |-> "model", model |-> "v1", checkpoints |-> checkpoints]
FallbackAt(t) == Fallback(10 :> Inputs(Vertical, t))

StudyOf(world, candidates, policies, source, fallback, mode) ==
  [world |-> world, candidates |-> candidates, policies |-> policies,
   scenarios |-> ScenariosOn(source), fallback |-> fallback, mode |-> mode]
Simple(world, source) ==
  StudyOf(world, One, Two(One, {1}, {}), source, FallbackAt(9), "READ_THROUGH")

GroupStudies ==
  {StudyOf("GROUPS", Three, Two(Three, a[1], a[2]), "ALIGNED_LEG_QUOTES", None, "READ_THROUGH") :
     a \in {<<{1, 2, 3}, {1}>>, <<{1, 2}, {2, 3}>>}}
  \cup {StudyOf("GROUPS", missing, Two(missing, {1}, {1, 2}), "ALIGNED_LEG_QUOTES", None,
                "READ_THROUGH") :
          missing \in {{CandidateOn(1, 10), CandidateOn(2, 0), Lost(CandidateOn(3, 20))}}}
CandleStudies ==
  {StudyOf("CANDLES", One, Two(One, {1}, {}), "ALIGNED_LEG_QUOTES", fallback, mode) :
     fallback \in {None, FallbackAt(9), FallbackAt(11)}, mode \in {"READ_THROUGH", "CACHE_ONLY"}}
ExpiringStudies ==
  LET candidates == {CandidateWith("DEBIT_VERTICAL", Expiring, 1, 10)}
  IN  {StudyOf("CANDLES", candidates, Two(candidates, {1}, {1}), "ALIGNED_LEG_QUOTES",
               Fallback(40 :> Inputs(Expiring, 39)), "READ_THROUGH")}
DiagonalStudies ==
  LET candidates == {CandidateWith("DOUBLE_DIAGONAL", Diagonal, 1, 10)}
  IN  {StudyOf("DIAGONAL", candidates, Two(candidates, {1}, {}), "ALIGNED_LEG_QUOTES", None,
               "READ_THROUGH")}
SomeStudies ==
  {Simple("ENTRY", "ALIGNED_LEG_QUOTES"), Simple("EXIT", "ALIGNED_LEG_QUOTES"),
   Simple("NATIVE", "NATIVE_PACKAGE"), Simple("PATH", "ALIGNED_LEG_QUOTES"),
   Simple("CHAIN", "ALIGNED_LEG_QUOTES")}
  \cup GroupStudies \cup CandleStudies \cup ExpiringStudies \cup DiagonalStudies

Windows(c, h) ==
  LET at == c.date + 10 * HorizonDays[h]
  IN  IF h = "ENTRY"
      THEN [start |-> at, end |-> at + 2, limit |-> 12, expected |-> <<at, at + 1, at + 2>>]
      ELSE [start |-> at - 1, end |-> at + 1, limit |-> 3, expected |-> <<at - 1, at, at + 1>>]

SomeFrame ==
  [shared |-> [priorAccess |-> FALSE, stage |-> "OUT_OF_SAMPLE", quantity |-> 2, run |-> "run",
               frozen |-> [decision |-> 94, candidate |-> 94, profile |-> 94],
               construction |-> "construction", basis |-> "basis", decision |-> "decision",
               grading |-> "grading", accessedAt |-> 100],
   report |-> [frozenAt |-> 95, accessedAt |-> 100, from |-> 0, to |-> 70,
               stage |-> "OUT_OF_SAMPLE", run |-> "run", construction |-> "construction",
               basis |-> "basis", horizons |-> {[id |-> Outcome3, days |-> 3],
                                                [id |-> Outcome5, days |-> 5]}]]

-----------------------------------------------------------------------------
(* What a source shows: one observation at most for an instant.             *)

Quote(bid, ask, t) ==
  [bid |-> bid, ask |-> ask, bidSize |-> 8, askSize |-> 8, sourceAt |-> t, availableAt |-> t,
   barEnd |-> None, retrievedAt |-> 90, cohort |-> "A", manifest |-> <<"quotes">>, flaws |-> {}]
Both(long, short, t) ==
  <<[at |-> t, legs |-> <<long, short>>, native |-> None, references |-> <<>>]>>
Short(t) == Quote(5, 6, t)

Tight(t) == Both(Quote(10, 11, t), Short(t), t)
Cheap(t) == Both(Quote(9, 10, t), Short(t), t)
Wide(t)  == Both(Quote(10, 12, t), Short(t), t)
Dear(t)  == Both(Quote(14, 16, t), Short(t), t)
Up(t)    == Both(Quote(16, 17, t), Short(t), t)
Down(t)  == Both(Quote(8, 9, t), Short(t), t)
Low(t)   == Both(Quote(6, 7, t), Short(t), t)
Ahead(t) == Both([Quote(9, 10, t) EXCEPT !.sourceAt = t + 1, !.availableAt = t + 1], Short(t), t)
Bar(t)   == Both([Quote(9, 10, t) EXCEPT !.barEnd = t + 1], Short(t), t)
Stale(t) == Both([Quote(9, 10, t) EXCEPT !.sourceAt = t - 5], Short(t), t)
Skew(t)  == Both([Quote(9, 10, t) EXCEPT !.sourceAt = t - 2], Short(t), t)
Small(t) == Both([Quote(9, 10, t) EXCEPT !.askSize = 3], Short(t), t)
Thin(t)  == Both([Quote(16, 17, t) EXCEPT !.bidSize = 3], Short(t), t)
Mixed(t) == Both([Quote(9, 10, t) EXCEPT !.cohort = "B"], Short(t), t)
Later(t) == Both([Quote(16, 17, t) EXCEPT !.retrievedAt = 120], Short(t), t)
NoLeg(t) == Both(Quote(9, 10, t), None, t)
Nothing  == <<>>

Native(t, quote) == <<[Tight(t)[1] EXCEPT !.native = quote]>>
Clear(t) == Native(t, Quote(8, 12, t))
Unclear(t) == Native(t, [Quote(8, 12, t) EXCEPT !.flaws = {"UNCLEAR_PRICE_SEMANTICS"}])
Foreign(t) == Native(t, [Quote(8, 12, t) EXCEPT !.cohort = "B"])
AheadNative(t) == Native(t, [Quote(8, 12, t) EXCEPT !.sourceAt = t + 1, !.availableAt = t + 1])

Four(t) ==
  <<[at |-> t, native |-> None, references |-> <<>>,
     legs |-> <<Short(t), Short(t), Quote(10, 11, t), Quote(10, 11, t)>>]>>

Series(first, second, third) ==
  {a \o b \o c : a \in first, b \in second, c \in third}
AllShow(Show(_), expected) == {Show(expected[1]) \o Show(expected[2]) \o Show(expected[3])}

EntrySeries(t) ==
  Series({Tight(t[1]), Nothing},
         {Tight(t[2]), Cheap(t[2]), Wide(t[2]), Dear(t[2]), Ahead(t[2]), Bar(t[2]), Stale(t[2]),
          Skew(t[2]), Small(t[2]), Mixed(t[2]), NoLeg(t[2]), Nothing},
         {Tight(t[3]), Wide(t[3]), Dear(t[3]), Small(t[3]), Nothing, Tight(t[3]) \o Wide(t[3])})
ExitSeries(t) ==
  Series({Up(t[1]), Nothing},
         {Up(t[2]), Down(t[2]), Low(t[2]), Thin(t[2]), Ahead(t[2]), Later(t[2]), Nothing},
         {Up(t[3]), Low(t[3]), Nothing})
NativeSeries(t) ==
  Series({Nothing}, {Clear(t[2]), Unclear(t[2]), Foreign(t[2]), AheadNative(t[2])},
         {Clear(t[3]), Dear(t[3])})

SomeObservations(s, c, h) ==
  LET t == Windows(c, h).expected
  IN  CASE s.world = "ENTRY" /\ h = "ENTRY" -> EntrySeries(t)
        [] s.world = "EXIT" /\ h = Outcome3 -> ExitSeries(t)
        [] s.world = "NATIVE" -> IF h = Outcome5 THEN AllShow(Clear, t) ELSE NativeSeries(t)
        [] s.world = "DIAGONAL" -> AllShow(Four, t)
        [] s.world = "GROUPS" /\ h = Outcome3 ->
             AllShow(Down, t) \cup (IF c.id = 3 THEN AllShow(Low, t) ELSE AllShow(Up, t))
             \cup (IF c.id = 2 THEN {Nothing} ELSE {})
        [] OTHER -> IF h = "ENTRY" THEN AllShow(Tight, t) ELSE AllShow(Up, t)

-----------------------------------------------------------------------------
(* What the provider answers.                                               *)

Candle(start, length, close) ==
  [start |-> start, end |-> start + length, close |-> close, availableAt |-> start + length,
   aligned |-> TRUE]
Result(candles) ==
  [complete |-> TRUE, truncated |-> FALSE, reasons |-> {}, candles |-> candles,
   retrievedAt |-> 90, manifest |-> <<"candles">>]
Uncovered == [Result(<<>>) EXCEPT !.reasons = {"REQUESTED_WINDOW_NOT_COVERED"}]
Cut(candles) == [Result(candles) EXCEPT !.truncated = TRUE]
Partial(candles) == [Result(candles) EXCEPT !.complete = FALSE]

Batch(long, short) ==
  [kind |-> "BATCH",
   results |-> [symbol \in {Symbol(legs[i]) : legs \in {Vertical, Expiring}, i \in 1..2}
               \cup {Symbol(Diagonal[i]) : i \in 1..4} |->
                  IF symbol[2] = 100 THEN long ELSE short]]
Fault(kind) == [kind |-> kind]

Fresh(t)  == Batch(Result(<<Candle(t - 2, 2, 10)>>), Result(<<Candle(t - 2, 2, 5)>>))
Coarse(t) == Batch(Result(<<Candle(t - 4, 4, 11)>>), Result(<<Candle(t - 4, 4, 5)>>))
Running(t) ==
  Batch(Result(<<Candle(t - 2, 2, 10), Candle(t, 2, 30)>>), Result(<<Candle(t - 2, 2, 5)>>))
OnlyRunning(t) == Batch(Result(<<Candle(t, 2, 30)>>), Result(<<Candle(t - 2, 2, 5)>>))
Skewed2(t) == Batch(Result(<<Candle(t - 4, 2, 10)>>), Result(<<Candle(t - 2, 2, 5)>>))
Old(t)    == Batch(Result(<<Candle(t - 8, 2, 10)>>), Result(<<Candle(t - 2, 2, 5)>>))
Odd(t)    == Batch(Result(<<[Candle(t - 2, 2, 10) EXCEPT !.aligned = FALSE]>>),
                   Result(<<Candle(t - 2, 2, 5)>>))
OneOnly(t) == Batch(Uncovered, Result(<<Candle(t - 2, 2, 5)>>))
Neither   == Batch(Uncovered, Uncovered)
Truncated(t) == Batch(Cut(<<Candle(t - 2, 2, 20)>>), Result(<<Candle(t - 2, 2, 5)>>))
Unfinished(t) == Batch(Partial(<<Candle(t - 2, 2, 20)>>), Result(<<Candle(t - 2, 2, 5)>>))

Lacking(t) ==
  Batch([Uncovered EXCEPT !.complete = FALSE], Result(<<Candle(t - 2, 2, 5)>>))

CandleAnswers(t) ==
  {<<first, Coarse(t)>> :
     first \in {Fresh(t), Running(t), OnlyRunning(t), Skewed2(t), Old(t), Odd(t), OneOnly(t),
                Neither, Truncated(t), Unfinished(t), Fault("BUDGET"), Fault("PROVIDER_ERROR"),
                Fault("CACHE_ERROR")}}
  \cup {<<Truncated(t), Unfinished(t)>>, <<Fault("BUDGET"), Fault("BUDGET")>>,
        <<Lacking(t), Lacking(t)>>}

SomeAnswers(s, c, h) ==
  LET t == c.date + 10 * HorizonDays[h]
  IN  IF s.world # "CANDLES" \/ h = Outcome5 THEN {<<Fresh(t)>>}
      ELSE IF h = "ENTRY" THEN CandleAnswers(t)
      ELSE {<<Fresh(t), Coarse(t)>>, <<OneOnly(t), Coarse(t)>>, <<Fault("CACHE_ERROR")>>}

BarOf(start, close) == IF close = 0 THEN <<>> ELSE <<Candle(start, 2, close)>>
Delayed(start, close) == <<[Candle(start, 2, close) EXCEPT !.availableAt = start + 3]>>
PathSeries ==
  {BarOf(0, a) \o BarOf(2, b) \o x \o BarOf(6, d) :
     a \in {0, 7, 10}, b \in {0, 7, 10}, d \in {0, 7, 10},
     x \in {BarOf(4, 7), BarOf(4, 10), Delayed(4, 7), <<>>}}
SomePathAnswers(s) ==
  IF s.world = "PATH"
  THEN {<<Batch(Result(path), Result([i \in 1..4 |-> Candle(2 * (i - 1), 2, 5)]))>> :
          path \in PathSeries}
       \cup {<<Fault("BUDGET"), Fault("BUDGET")>>, <<Fault("PROVIDER_ERROR")>>}
  ELSE {}

PathOrder(submitted, until, gap, model, bound) ==
  [from |-> 0, to |-> 8, submittedAt |-> submitted, validUntil |-> until, maxGap |-> gap,
   model |-> model, limit |-> 6, bound |-> bound, assumption |-> "FILLED"]
SomePathOrders ==
  {PathOrder(0, 8, 2, "LIMIT_TOUCH", None), PathOrder(1, 8, 3, "CONSERVATIVE_CROSS", 4),
   PathOrder(2, 7, 2, "LIMIT_TOUCH", None), PathOrder(2, 8, 4, "CONSERVATIVE_CROSS", 3)}

-----------------------------------------------------------------------------
(* Reconstruction: the underlying is at 30 at the instant 100 of day 1; the *)
(* contracts of two weeks and of two sides around it.                       *)

SomeGrid ==
  [step |-> 5, radius |-> 5, deltaRadius |-> 10, parityStep |-> 10, parityRadius |-> 10,
   batch |-> 6, fresh |-> 3]

Item(side, method, value, dte) == [side |-> side, method |-> method, value |-> value, dte |-> dte]
PlanOf(items) ==
  [at |-> 100, session |-> 1, min |-> 3, max |-> 6, maxAge |-> 6, skew |-> 1, items |-> items]
SomeCandidatePlans(s) ==
  IF s.world # "CHAIN" THEN {}
  ELSE {PlanOf(<<Item("CALL", "DELTA", 30, 3), Item("PUT", "DELTA", 30, 5)>>),
        PlanOf(<<Item("PUT", "PERCENTAGE_OTM", 20, 6), Item("CALL", "PREMIUM", 4, 4)>>)}

Universe1 ==
  [at |-> 100, session |-> 1, min |-> 3, max |-> 6, maxAge |-> 6, skew |-> 1,
   expirations |-> {4}, strikeMin |-> 22, strikeMax |-> 40, strikeStep |-> 5,
   sides |-> <<"CALL", "PUT">>, fallback |-> FALSE, maxContracts |-> 8,
   selectedLegs |-> Contracts({4}, {"CALL", "PUT"}, {30})]
SomeUniversePlans(s) ==
  IF s.world # "CHAIN" THEN {}
  ELSE {Universe1, [Universe1 EXCEPT !.maxContracts = 7], [Universe1 EXCEPT !.fallback = TRUE],
        [Universe1 EXCEPT !.expirations = None, !.sides = <<"PUT">>, !.strikeMin = 30,
                          !.selectedLegs = {}]}

AllContracts ==
  Contracts({4, 5, 6, 7}, {"CALL", "PUT"}, {5 * k : k \in 1..12})

OptionCandle(c, from, length, time) ==
  [start |-> time - length, end |-> time, availableAt |-> time, aligned |-> TRUE, iv |-> 10,
   close |-> from + (IF c.side = "CALL" THEN (65 - c.strike) ELSE (5 + c.strike)) \div 5]
Seen(candles) ==
  [complete |-> TRUE, truncated |-> FALSE, covered |-> TRUE, candles |-> candles]

\* What is shown of a contract.
Usual(c)   == Seen(<<OptionCandle(c, 0, 2, 97), OptionCandle(c, 1, 2, 99)>>)
Moving(c)  == Seen(<<OptionCandle(c, 0, 2, 98), OptionCandle(c, 9, 2, 101)>>)
Oldish(c)  == Seen(<<OptionCandle(c, 2, 2, 95)>>)
TooOld(c)  == Seen(<<OptionCandle(c, 2, 2, 90)>>)
Askew(c)   == Seen(<<[OptionCandle(c, 3, 2, 99) EXCEPT !.aligned = FALSE]>>)
Unquoted(c) == Seen(<<[OptionCandle(c, 1, 2, 99) EXCEPT !.iv = None]>>)
Broken(c)  == [Usual(c) EXCEPT !.complete = FALSE]
Shortened(c) == [Usual(c) EXCEPT !.truncated = TRUE]
HalfDay(c) == [Usual(c) EXCEPT !.covered = FALSE]
Never(c)   == Seen(<<>>)

\* One look for the calls at and above the underlying, one for the rest.
Chain(Near(_), Far(_)) ==
  [c \in AllContracts |-> IF c.side = "CALL" /\ c.strike >= 30 THEN Near(c) ELSE Far(c)]
Chains ==
  {Chain(Usual, Usual), Chain(Moving, Usual), Chain(Moving, Oldish), Chain(Oldish, Usual),
   Chain(Oldish, Oldish), Chain(TooOld, Usual), Chain(Askew, Usual), Chain(Usual, Askew),
   Chain(Unquoted, Usual), Chain(Usual, Broken), Chain(Shortened, Usual), Chain(HalfDay, Usual),
   Chain(Usual, Never), Chain(Never, Never), Chain(Usual, Unquoted),
   [c \in AllContracts |-> IF c.strike % 10 = 0 THEN Usual(c) ELSE Never(c)]}

SpotCandle(price, volatility, time) ==
  [start |-> time - 2, end |-> time, availableAt |-> time, aligned |-> TRUE, close |-> price,
   iv |-> volatility]
Spots ==
  {[kind |-> "RESULT", result |-> Seen(candles)] :
     candles \in {<<SpotCandle(30, 10, 99)>>, <<SpotCandle(30, None, 99)>>,
                  <<SpotCandle(30, 10, 99), SpotCandle(45, 10, 101)>>, <<SpotCandle(45, 10, 101)>>}}
  \cup {[kind |-> kind] : kind \in {"PROVIDER_ERROR", "CACHE_ERROR", "PROVIDER_TIMEOUT"}}

SomeFaults ==
  {<<>>, 1 :> "PROVIDER_ERROR", 2 :> "PROVIDER_ERROR", 2 :> "PROVIDER_TIMEOUT",
   (1 :> "PROVIDER_ERROR") @@ (2 :> "CACHE_ERROR"),
   (1 :> "PROVIDER_ERROR") @@ (2 :> "PROVIDER_ERROR") @@ (3 :> "PROVIDER_ERROR")}

SomeChainAnswers(plan) ==
  {[underlying |-> spot, results |-> chains, faults |-> faults] :
     spot \in Spots, chains \in Chains, faults \in SomeFaults}

=============================================================================
