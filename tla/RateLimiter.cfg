SPECIFICATION LiveGateSpec
CONSTANTS
  Callers = {c1, c2}
  MinInterval = 2
  FallbackDelaysMs <- MCFallbackDelaysMs
  MaxFallbackDelay = 4
  JitterPercent = 50
  MsPerSecond = 3
  HeaderDelays = {1, 4}
  HeaderDates = {2}
  Never = Never
  Absent = Absent
  MaxCalls = 2
  LastArrival = 3
  MaxTime = 5
PROPERTIES SpacedStarts NoStartInCooldown CooldownNeverShortened WaitersLeave
CHECK_DEADLOCK FALSE
