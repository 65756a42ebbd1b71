SPECIFICATION FairCloneSpec
CONSTANTS
  Repos = {r1}
  Tasks = {c1, c2}
  CloneLimit = 1
  NoLock = NoLock
  Abandoned = Abandoned
  NoRepo = NoRepo
  MaxCrashes = 1
CHECK_DEADLOCK FALSE
INVARIANTS CompleteOrAbsent LockHasOwner DestinationFree StatusTrue
PROPERTIES LockReleased
