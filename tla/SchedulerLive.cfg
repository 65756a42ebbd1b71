SPECIFICATION FairSchedulerSpec
CONSTANTS
  Limiters <- Generation1
  Calls = {1}
  Limits = {1}
  StartLimit = 1
  Repos = {r1, r2}
  NoRepo = NoRepo
  MaxGenerations = 1
  MinDelay = 2
  MaxDelay = 2
  JitterDivisor = 2
  Wanted = {}
  Synced = {r1}
  Uncloned = {r1}
  Manual = {r1, r2}
PROPERTIES EventuallyUpdated ScheduledUpdated
