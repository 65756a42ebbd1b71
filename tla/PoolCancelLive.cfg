SPECIFICATION FairPoolSpec
CONSTANTS
  Jobs = {j1}
  Hosts = {w1, w2}
  Unset = Unset
  MaxNumResets = 1
  MaxNumRetries = 0
  RetryAfterSet = FALSE
  DequeueLimit = 1
  MaxRequeues = 0
  NumHandlers = 1
  Reliable = {w1}
  TimelyHeartbeats = FALSE
  HandlersReturn = FALSE
  MaxFaults = 1
CHECK_DEADLOCK FALSE
PROPERTIES CancelObeyed
