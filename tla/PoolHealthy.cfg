SPECIFICATION PoolSpec
CONSTANTS
  Jobs = {j1, j2}
  Hosts = {w1, w2}
  Unset = Unset
  MaxNumResets = 1
  MaxNumRetries = 0
  RetryAfterSet = FALSE
  DequeueLimit = 1
  MaxRequeues = 0
  NumHandlers = 1
  Reliable = {}
  TimelyHeartbeats = TRUE
  HandlersReturn = TRUE
  MaxFaults = 0
CHECK_DEADLOCK FALSE
SYMMETRY Symmetry
INVARIANTS PoolTypeOK
PROPERTIES OwnMarks
