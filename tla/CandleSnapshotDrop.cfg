SPECIFICATION Spec
CONSTANTS
  ra = ra
  rb = rb
  rc = rc
  rd = rd
  Symbols = {s1}
  Indices = {i1, i2}
  Rows = {ra}
  TimeOf <- MCTimeOf
  SizeOf <- MCSizeOf
  Wanted <- MCWanted
  NoRow = NoRow
  FlagSets <- PlainFlags
  None = None
  DailyRequests = {FALSE}
  IndexBytes = 1
  NameBytes = 1
  EventBytes = 2
  MessageBytes = 2
  MaxBuffer = 7
  MaxEvents = 3
  MaxRows = 1
  MaxQueued = 2
INVARIANTS CompleteIsWhole
CHECK_DEADLOCK FALSE
