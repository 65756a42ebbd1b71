SPECIFICATION FairMigrationSpec
CONSTANTS
  Runners = {m1, m2}
  Nobody = Nobody
  Last = 4
  Indexes = {2, 3}
  IfNotExists = {2}
  MaxFailures = 2
CHECK_DEADLOCK FALSE
INVARIANTS AppliedOnce InOrder LogTrue NoFalseAlarm
PROPERTIES RunnerEnds
