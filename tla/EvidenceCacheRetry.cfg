SPECIFICATION Spec
CONSTANTS
  Callers = {c1, c2}
  Contexts = {x1}
  None = None
  TTL = 1
  MaxTime = 1
  MaxCalls = 3
INVARIANTS ExpiredReadRetries
SYMMETRY CallerSymmetry
CHECK_DEADLOCK FALSE
