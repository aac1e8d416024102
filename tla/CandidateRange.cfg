SPECIFICATION Spec
CONSTANTS
  NumItems = 1
  None = None
  NumDates = 3
  Workers = {w1, w2}
  MaxConcurrency = 2
  MaxCheckpointsPerRun = 2
  CheckpointDeadline = 2
  MaxAttempts = 2
  Backoff = 1
  PollInterval = 1
  MaxPolls = 2
  FallbackDelays <- Tables
  MaxFallback = 5
  Multipliers = {100}
  Pricings = {TRUE}
  MaxRetryCount = 9
  Provider = "backtester"
  Logs <- SomeLogs
  Simulations <- SomeSimulations
  ProviderErrors <- SomeProviderErrors
  CandleErrors <- SomeCandleErrors
  Modes = {"READ_THROUGH", "CACHE_ONLY"}
  FirstCursors <- SomeCursors
  Cooldowns = {2}
  Max429 = 1
  MaxCrashes = 1
  MaxRuns = 2
  LastStart = 2
INVARIANTS CursorFaithful DeadlineKept RoundRobin
PROPERTIES CompletedStays CooldownDurable
SYMMETRY Symmetry
CHECK_DEADLOCK FALSE
