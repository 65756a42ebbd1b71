SPECIFICATION FairPoolSpec
CONSTANTS
  Jobs = {j1}
  Hosts = {w1, w2}
  Unset = Unset
  MaxNumResets = 1
  MaxNumRetries = 2
  RetryAfterSet = TRUE
  DequeueLimit = 1
  MaxRequeues = 0
  NumHandlers = 1
  Reliable = {w1}
  TimelyHeartbeats = TRUE
  HandlersReturn = TRUE
  MaxFaults = 0
CHECK_DEADLOCK FALSE
PROPERTIES EventuallyFinished StopReturns
