SPECIFICATION PoolSpec
CONSTANTS
  Jobs = {j1}
  Hosts = {w1, w2}
  Unset = Unset
  MaxNumResets = 1
  MaxNumRetries = 0
  RetryAfterSet = FALSE
  DequeueLimit = 1
  MaxRequeues = 0
  NumHandlers = 2
  Reliable = {}
  TimelyHeartbeats = FALSE
  HandlersReturn = TRUE
  MaxFaults = 1
CHECK_DEADLOCK FALSE
SYMMETRY Symmetry
INVARIANTS CanceledForThatReason PermitsConserved NoOrphanHandler NoDanglingID
