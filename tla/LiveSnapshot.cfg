SPECIFICATION Spec
CONSTANTS
  Batches <- MCBatches
  MaxConcurrent = 2
  DeadlineMs = 2
  GreeksFlags <- MCGreeksFlags
  ExactRequests = {TRUE, FALSE}
  None = None
  MaxTime = 2
INVARIANTS NothingOld SocketsReleased StatusesProved ReadyIsCommitted
CHECK_DEADLOCK FALSE
