SPECIFICATION Spec
CONSTANTS
  Callers = {c1, c2}
  Contexts = {x1, x2}
  None = None
  TTL = 1
  MaxTime = 1
  MaxCalls = 3
INVARIANTS IndexReplays FlightsShared PrefersValid
SYMMETRY Symmetric
CHECK_DEADLOCK FALSE
