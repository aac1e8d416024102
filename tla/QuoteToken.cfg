SPECIFICATION Spec
CONSTANTS
  Requests = {r1, r2}
  Rest = Rest
  Null = Null
  AccessTTL = 3
  AccessSkew = 1
  QuoteTTLs = {1, 2}
  QuoteSkew = 1
  Timeout = 1
  MaxRetries = 1
  MaxTime = 2
INVARIANTS Reacquired
PROPERTIES TokensAlive
SYMMETRY RequestSymmetry
CHECK_DEADLOCK FALSE
