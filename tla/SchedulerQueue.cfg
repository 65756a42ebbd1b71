SPECIFICATION SchedulerSpec
CONSTANTS
  Limiters <- Generation1
  Calls = {1, 2}
  Limits = {2}
  StartLimit = 1
  Repos = {r1, r2}
  NoRepo = NoRepo
  MaxGenerations = 1
  MinDelay = 2
  MaxDelay = 2
  JitterDivisor = 2
  Wanted <- Skewed
  Synced = {r1, r2}
  Uncloned = {r1, r2}
  Manual = {}
INVARIANTS NotifyLossless OneUpdate ScheduleAwake IntervalsBounded
SYMMETRY SymmetricRepos
