SPECIFICATION Spec
CONSTANTS
  Start = 0
  Stop = 2
  WindowMs = 1
  Symbols = {x, y}
  Full = {full}
  Lean = {lean}
  Bare = {bare}
  Cursors = {c1, c2}
  None = None
  PageBytes = {1}
  PageSize = 2
  MaxPages = 2
  MaxRecords = 3
  MaxBytes = 3
  Deadline = 3
  RequestTimeout = 2
  MaxAttempts = 2
  BaseDelay = 1
  MaxDelay = 1
  Late = 1
INVARIANTS BudgetsHold OneRevision ReturnedInTime EveryGapNamed
SYMMETRY Symmetry
CHECK_DEADLOCK FALSE
