SPECIFICATION SchedulerSpec
CONSTANTS
  Limiters <- Generations3
  Calls = {1}
  Limits = {}
  StartLimit = 1
  Repos = {r1}
  NoRepo = NoRepo
  MaxGenerations = 3
  MinDelay = 2
  MaxDelay = 2
  JitterDivisor = 2
  Wanted = {}
  Synced = {}
  Uncloned = {r1}
  Manual = {r1}
INVARIANTS ScheduleAwake LoopCanWake
