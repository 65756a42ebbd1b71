SPECIFICATION PoolSpec
CONSTANTS
  Jobs = {j1}
  Hosts = {w1, w2}
  Unset = Unset
  MaxNumResets = 2
  MaxNumRetries = 0
  RetryAfterSet = FALSE
  DequeueLimit = 1
  MaxRequeues = 0
  NumHandlers = 2
  Reliable = {}
  TimelyHeartbeats = TRUE
  HandlersReturn = TRUE
  MaxFaults = 2
CHECK_DEADLOCK FALSE
SYMMETRY Symmetry
INVARIANTS OneLiveHandler
