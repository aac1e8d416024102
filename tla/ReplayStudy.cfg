SPECIFICATION StudySpec
CONSTANTS
  None = None
  Whole = 2
  Studies <- SomeStudies
  Sessions <- Days
  PackageProfile <- Profiles
  Window <- Windows
  QuotePolicy <- Policy2
  Frame <- SomeFrame
  Answers <- SomeAnswers
  Observations <- SomeObservations
  PathAnswers <- SomePathAnswers
  PathOrders <- SomePathOrders
  Grid <- SomeGrid
  CandidatePlans <- SomeCandidatePlans
  UniversePlans <- SomeUniversePlans
  ChainAnswers <- SomeChainAnswers
INVARIANTS NoLookahead FillsExecutable NoFillProved OptimisticIsBest SimulationsAccepted ReportProved ValuationsHonest VerdictProved
CHECK_DEADLOCK FALSE
