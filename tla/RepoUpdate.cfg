SPECIFICATION FairUpdateSpec
CONSTANTS
  Limiters = {l1}
  Calls = {u1, u2, k1}
  Updates = {u1, u2}
  Repos = {r1}
  Nobody = Nobody
  MaxPushes = 1
  Limits <- LimitsWithNone
  StartLimit = 1
CHECK_DEADLOCK FALSE
INVARIANTS Fresh OneFetch Stopped HoldersListed
PROPERTIES UpdateAnswered StopEnds AcquireReturns ImplementsSemaphore
