SPECIFICATION LiveSpec
CONSTANTS
  ra = ra
  rb = rb
  rc = rc
  rd = rd
  Symbols = {s1, s2}
  Indices = {i1, i2}
  Rows = {ra, rb}
  TimeOf <- MCTimeOf
  SizeOf <- MCSizeOf
  Wanted <- MCWanted
  NoRow = NoRow
  FlagSets <- AllFlags
  None = None
  DailyRequests = {TRUE, FALSE}
  IndexBytes = 1
  NameBytes = 1
  EventBytes = 2
  MessageBytes = 2
  MaxBuffer = 9
  MaxEvents = 3
  MaxRows = 1
  MaxQueued = 1
INVARIANTS LedgerExact CommitsHold
PROPERTIES CompletedKept RequestEnds

CHECK_DEADLOCK FALSE
