SPECIFICATION Spec
CONSTANTS
  NumSymbols = 2
  NumSessions = 3
  Supported = {1, 2}
  None = None
  WindowSessions = 2
  MaxAttempts = 3
  MaxEvents = 3
  MaxRows = 2
  MaxBuffer = 3
  MaxTime = 4
  ReservedTime = 1
INVARIANTS SharedBudgets StatusProved
CHECK_DEADLOCK FALSE
