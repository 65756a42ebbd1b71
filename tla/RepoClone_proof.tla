--------------------------- MODULE RepoClone_proof ---------------------------
(***************************************************************************)
(* Proofs about the clones of one gitserver, for every number of           *)
(* repositories, of concurrent clones, of places in the limiter and of     *)
(* restarts.                                                               *)
(***************************************************************************)
EXTENDS RepoClone, SequenceTheorems, TLAPS

USE CloneAssumption

Task == [pc : TaskStates, repo : Repos, kind : Kinds, cloned : BOOLEAN]

(***************************************************************************)
(* The constant records are well formed.                                   *)
(***************************************************************************)
LEMMA IdleTyped ==
  /\ NoTask \in Task /\ NoTask.pc = "idle"
  /\ Idle \in [pc : {"idle", "moved", "deleting"}, repo : Repos]
  /\ Idle \in [pc : {"idle", "fetching"}, repo : Repos]
  /\ Idle.pc = "idle"
  /\ NoSync \in [pc : {"idle", "read", "batched"}, repo : Repos, status : CloneStatuses]
  /\ NoSync.pc = "idle"
<1>1. (CHOOSE r \in Repos : TRUE) \in Repos
  OBVIOUS
<1>2. QED
  BY <1>1 DEF NoTask, Idle, NoSync, Task, TaskStates, Kinds, CloneStatuses

(***************************************************************************)
(* What the two ways to move a task do.                                    *)
(***************************************************************************)
LEMMA GotoEffect ==
  ASSUME task \in [Tasks -> Task], NEW c \in Tasks, NEW pc \in TaskStates, Goto(c, pc)
  PROVE  /\ task' \in [Tasks -> Task]
         /\ task'[c].pc = pc /\ task'[c].repo = task[c].repo
         /\ task'[c].kind = task[c].kind /\ task'[c].cloned = task[c].cloned
         /\ \A d \in Tasks \ {c} : task'[d] = task[d]
BY DEF Goto, Task

LEMMA ReturnsEffect ==
  ASSUME task \in [Tasks -> Task], NEW c \in Tasks, Returns(c)
  PROVE  /\ task' \in [Tasks -> Task]
         /\ task'[c].pc = "idle"
         /\ \A d \in Tasks \ {c} : task'[d] = task[d]
BY IdleTyped DEF Returns

LEMMA LooksEffect ==
  ASSUME task \in [Tasks -> Task], NEW c \in Tasks, Looks(c)
  PROVE  /\ task' \in [Tasks -> Task]
         /\ task'[c].pc = "reporting" /\ task'[c].repo = task[c].repo
         /\ task'[c].kind = task[c].kind
         /\ task'[c].cloned <=> RepoCloned(task[c].repo)
         /\ \A d \in Tasks \ {c} : task'[d] = task[d]
<1> DEFINE b == RepoCloned(task[c].repo)
<1>0. b \in BOOLEAN
  BY DEF RepoCloned
<1>1. task' = [task EXCEPT ![c].pc = "reporting", ![c].cloned = b]
  BY DEF Looks
<1> HIDE DEF b
<1>2. /\ task' \in [Tasks -> Task]
      /\ task'[c].pc = "reporting" /\ task'[c].repo = task[c].repo
      /\ task'[c].kind = task[c].kind /\ task'[c].cloned = b
      /\ \A d \in Tasks \ {c} : task'[d] = task[d]
  BY <1>0, <1>1 DEF Task, TaskStates, LockHolding, InDoClone
<1>3. QED
  BY <1>2 DEF b

LEMMA ReportsEffect ==
  ASSUME task \in [Tasks -> Task], NEW c \in Tasks, Reports(c)
  PROVE  /\ task' \in [Tasks -> Task]
         /\ task'[c].pc = "releasing" /\ task'[c].repo = task[c].repo
         /\ \A d \in Tasks \ {c} : task'[d] = task[d]
BY DEF Reports, Task, TaskStates, LockHolding, InDoClone
----------------------------------------------------------------------------
(***************************************************************************)
(* Every step keeps the state well formed.                                 *)
(***************************************************************************)
LEMMA CloneTypeStep ==
  ASSUME CloneTypeOK, [CloneNext]_cloneVars
  PROVE  CloneTypeOK'
<1> USE DEF CloneTypeOK, diskVars, lockVars, pipelineVars, otherVars
<1>t. task \in [Tasks -> Task]
  BY DEF Task
<1> DEFINE TypeOKBut ==
      /\ dir' \in [Repos -> Contents] /\ tmp' \in [Tasks -> Contents]
      /\ status' \in [Repos -> CloneStatuses]
      /\ locks' \in [Repos -> Tasks \cup {NoLock, Abandoned}]
      /\ done' \in [Tasks -> BOOLEAN] /\ reader' \in [Tasks -> Repos \cup {NoRepo}]
      /\ queue' \in Seq(Tasks)
      /\ producer' \in {"top", "empty", "waiting", "popping"}
      /\ removal' \in [pc : {"idle", "moved", "deleting"}, repo : Repos]
      /\ fetch' \in [pc : {"idle", "fetching"}, repo : Repos]
      /\ sync' \in [pc : {"idle", "read", "batched"}, repo : Repos, status : CloneStatuses]
      /\ doubt' \in [Repos -> BOOLEAN] /\ crashes' \in Nat
<1>q. ASSUME task' \in [Tasks -> Task], TypeOKBut PROVE CloneTypeOK'
  BY <1>q DEF Task
<1>s. \A cloned, cloning \in BOOLEAN : CloneStatus(cloned, cloning) \in CloneStatuses
  BY DEF CloneStatus, CloneStatuses
<1>r. \A c \in Tasks : task[c].repo \in Repos
  BY <1>t DEF Task
<1>d. \A r \in Repos, other \in BOOLEAN :
        Begin(r, other) \/ Join(r, other) => doubt' \in [Repos -> BOOLEAN]
  BY DEF Begin, Join
<1>b. \A r \in Repos : Busy(r) \in BOOLEAN /\ Locked(r) \in BOOLEAN /\ RepoCloned(r) \in BOOLEAN
  BY DEF Busy, Locked, RepoCloned
<1>c. ASSUME NEW r \in Repos, NEW s \in CloneStatuses, SetCloneStatus(r, s)
      PROVE  status' \in [Repos -> CloneStatuses] /\ doubt' \in [Repos -> BOOLEAN]
  <2>1. CASE status' = [status EXCEPT ![r] = s] /\ UNCHANGED doubt
    BY <1>c, <2>1
  <2>2. CASE doubt' = [doubt EXCEPT ![r] = TRUE] /\ UNCHANGED status
    BY <1>c, <2>2
  <2>3. QED
    BY <1>c, <2>1, <2>2 DEF SetCloneStatus
<1>1. ASSUME NEW c \in Tasks, NEW r \in Repos, NEW kind \in Kinds, CloneRepo(c, r, kind)
      PROVE  CloneTypeOK'
  <2>1. task' \in [Tasks -> Task]
    BY <1>t, <1>1, IdleTyped DEF CloneRepo, Task, TaskStates
  <2>2. QED
    BY <1>1, <1>q, <2>1 DEF CloneRepo
<1>2. ASSUME NEW c \in Tasks, CloneRepoReturns(c)
      PROVE  CloneTypeOK'
  BY <1>t, <1>2, <1>q, ReturnsEffect DEF CloneRepoReturns
<1>3. ASSUME NEW c \in Tasks, CloneRepoLocks(c)
      PROVE  CloneTypeOK'
  <2>1. task' \in [Tasks -> Task]
    BY <1>t, <1>3, GotoEffect DEF CloneRepoLocks, TaskStates, LockHolding
  <2>2. doubt' \in [Repos -> BOOLEAN]
    BY <1>3, <1>r, <1>b, <1>d DEF CloneRepoLocks
  <2>3. queue' \in Seq(Tasks) /\ producer' \in {"top", "empty", "waiting", "popping"}
    <3>1. Append(queue, c) \in Seq(Tasks)
      BY AppendProperties
    <3>2. /\ queue' = Append(queue, c) \/ queue' = queue
          /\ producer' = "popping" \/ producer' = producer
      BY <1>3 DEF CloneRepoLocks
    <3>3. QED
      BY <3>1, <3>2
  <2>4. QED
    BY <1>3, <1>r, <1>q, <2>1, <2>2, <2>3 DEF CloneRepoLocks
<1>4. ASSUME NEW c \in Tasks,
             \/ LimiterAdmits(c) \/ ConsumerReceives(c) \/ ConsumerStarts(c)
             \/ DoCloneRefuses(c) \/ DoCloneFails(c)
      PROVE  CloneTypeOK'
  <2>1. task' \in [Tasks -> Task]
    BY <1>t, <1>4, GotoEffect
       DEF LimiterAdmits, ConsumerReceives, ConsumerStarts, DoCloneRefuses, DoCloneFails,
           TaskStates, LockHolding, InDoClone
  <2>2. QED
    BY <1>4, <1>q, <2>1
       DEF LimiterAdmits, ConsumerReceives, ConsumerStarts, DoCloneRefuses, DoCloneFails
<1>5. ASSUME NEW c \in Tasks, LimiterRefuses(c) \/ ConsumerRefuses(c)
      PROVE  CloneTypeOK'
  BY <1>t, <1>r, <1>5, <1>q, ReturnsEffect DEF LimiterRefuses, ConsumerRefuses
<1>6. CASE ProducerChecks \/ ProducerWaits
  BY <1>t, <1>6, <1>q DEF ProducerChecks, ProducerWaits
<1>7. CASE ProducerPops
  <2>1. CASE queue = <<>>
    BY <1>t, <1>7, <1>q, <2>1 DEF ProducerPops
  <2>2. CASE queue # <<>>
    <3>1. Head(queue) \in Tasks /\ queue' \in Seq(Tasks)
      <4>1. queue' = Tail(queue)
        BY <1>7, <2>2 DEF ProducerPops
      <4>2. QED
        BY <2>2, <4>1, HeadTailProperties
    <3>2. task' \in [Tasks -> Task]
      BY <1>t, <1>7, <2>2, <3>1, GotoEffect DEF ProducerPops, TaskStates, LockHolding
    <3>3. QED
      BY <1>7, <1>q, <2>2, <3>1, <3>2 DEF ProducerPops
  <2>3. QED
    BY <2>1, <2>2
<1>8. ASSUME NEW c \in Tasks, DoCloneStarts(c)
      PROVE  CloneTypeOK'
  <2>1. task' \in [Tasks -> Task]
    BY <1>t, <1>8, GotoEffect DEF DoCloneStarts, TaskStates, LockHolding, InDoClone
  <2>2. doubt' \in [Repos -> BOOLEAN]
    BY <1>8, <1>r, <1>b, <1>d DEF DoCloneStarts
  <2>3. tmp' \in [Tasks -> Contents] /\ status' \in [Repos -> CloneStatuses]
    BY <1>8, <1>r DEF DoCloneStarts, Contents, CloneStatuses
  <2>4. QED
    BY <1>8, <1>r, <1>q, <2>1, <2>2, <2>3 DEF DoCloneStarts
<1>9. ASSUME NEW c \in Tasks, Clones(c) \/ MovesOld(c) \/ Places(c)
      PROVE  CloneTypeOK'
  <2>1. task' \in [Tasks -> Task]
    BY <1>t, <1>9, GotoEffect
       DEF Clones, MovesOld, Places, TaskStates, LockHolding, InDoClone
  <2>2. dir' \in [Repos -> Contents] /\ tmp' \in [Tasks -> Contents]
    BY <1>9, <1>r DEF Clones, MovesOld, Places, Contents
  <2>3. QED
    BY <1>9, <1>q, <2>1, <2>2 DEF Clones, MovesOld, Places
<1>10. ASSUME NEW c \in Tasks, Looks(c)
       PROVE  CloneTypeOK'
  <2>1. task' \in [Tasks -> Task]
    BY <1>t, <1>10, LooksEffect
  <2>2. status' \in [Repos -> CloneStatuses]
    BY <1>10, <1>r DEF Looks, CloneStatuses
  <2>3. QED
    BY <1>10, <1>q, <2>1, <2>2 DEF Looks
<1>11. ASSUME NEW c \in Tasks, Reports(c)
       PROVE  CloneTypeOK'
  <2>1. task' \in [Tasks -> Task]
    BY <1>t, <1>11, ReportsEffect
  <2>2. task[c].cloned \in BOOLEAN
    BY <1>t DEF Task
  <2>3. status' \in [Repos -> CloneStatuses] /\ doubt' \in [Repos -> BOOLEAN]
    BY <1>11, <1>r, <1>s, <1>c, <2>2 DEF Reports
  <2>4. QED
    BY <1>11, <1>q, <2>1, <2>3 DEF Reports
<1>12. ASSUME NEW c \in Tasks, Releases(c)
       PROVE  CloneTypeOK'
  BY <1>t, <1>r, <1>12, <1>q, ReturnsEffect DEF Releases, Release, Contents
<1>13. ASSUME NEW c \in Tasks, ReaderEnds(c)
       PROVE  CloneTypeOK'
  BY <1>t, <1>13, <1>q DEF ReaderEnds, SetStatus
<1>14. ASSUME NEW r \in Repos, Removes(r) \/ DeletesMissing(r)
       PROVE  CloneTypeOK'
  <2>1. doubt' \in [Repos -> BOOLEAN]
    BY <1>14, <1>b, <1>d DEF Removes, DeletesMissing
  <2>2. removal' \in [pc : {"idle", "moved", "deleting"}, repo : Repos]
    <3>1. \/ removal' = removal
          \/ \E pc \in {"moved", "deleting"} : removal' = [pc |-> pc, repo |-> r]
      BY <1>14 DEF Removes, DeletesMissing
    <3>2. QED
      BY <3>1
  <2>3. dir' \in [Repos -> Contents]
    BY <1>14 DEF Removes, DeletesMissing, Contents
  <2>4. QED
    BY <1>t, <1>14, <1>q, <2>1, <2>2, <2>3 DEF Removes, DeletesMissing
<1>15. CASE RemovalReports \/ DeleteReports
  <2>1. removal.repo \in Repos /\ "not_cloned" \in CloneStatuses
    BY DEF CloneStatuses
  <2>2. status' \in [Repos -> CloneStatuses] /\ doubt' \in [Repos -> BOOLEAN]
    BY <1>15, <1>c, <2>1 DEF RemovalReports, DeleteReports
  <2>3. removal' \in [pc : {"idle", "moved", "deleting"}, repo : Repos]
    BY <1>15, IdleTyped DEF RemovalReports, DeleteReports
  <2>4. QED
    BY <1>t, <1>15, <1>q, <2>2, <2>3 DEF RemovalReports, DeleteReports
<1>16. ASSUME NEW r \in Repos, Fetches(r)
       PROVE  CloneTypeOK'
  <2>1. doubt' \in [Repos -> BOOLEAN]
    BY <1>16, <1>b, <1>d DEF Fetches
  <2>2. QED
    BY <1>t, <1>16, <1>q, <2>1 DEF Fetches
<1>17. CASE FetchEnds
  <2>1. fetch' \in [pc : {"idle", "fetching"}, repo : Repos]
    BY <1>17, IdleTyped DEF FetchEnds
  <2>2. status' \in [Repos -> CloneStatuses]
    BY <1>17 DEF FetchEnds, CloneStatuses
  <2>3. QED
    BY <1>t, <1>17, <1>q, <2>1, <2>2 DEF FetchEnds
<1>18. ASSUME NEW r \in Repos, SyncReads(r)
       PROVE  CloneTypeOK'
  <2>1. doubt' \in [Repos -> BOOLEAN]
    BY <1>18, <1>b, <1>d DEF SyncReads
  <2>2. sync' \in [pc : {"idle", "read", "batched"}, repo : Repos, status : CloneStatuses]
    BY <1>18 DEF SyncReads
  <2>3. QED
    BY <1>t, <1>18, <1>q, <2>1, <2>2 DEF SyncReads
<1>23. CASE SyncLooks
  <2>1. CloneStatus(RepoCloned(sync.repo), Locked(sync.repo)) \in CloneStatuses
    BY <1>b, <1>s
  <2>2. sync' \in [pc : {"idle", "read", "batched"}, repo : Repos, status : CloneStatuses]
    BY <1>23, <2>1, IdleTyped DEF SyncLooks
  <2>3. QED
    BY <1>t, <1>23, <1>q, <2>2 DEF SyncLooks
<1>19. CASE SyncWrites
  <2>1. sync.repo \in Repos /\ sync.status \in CloneStatuses
    OBVIOUS
  <2>2. status' \in [Repos -> CloneStatuses] /\ doubt' \in [Repos -> BOOLEAN]
    BY <1>19, <1>c, <2>1 DEF SyncWrites
  <2>3. sync' \in [pc : {"idle", "read", "batched"}, repo : Repos, status : CloneStatuses]
    BY <1>19, IdleTyped DEF SyncWrites
  <2>4. QED
    BY <1>t, <1>19, <1>q, <2>2, <2>3 DEF SyncWrites
<1>20. CASE Restart
  BY <1>20, <1>q, IdleTyped DEF Restart, Contents
<1>21. CASE UNCHANGED cloneVars
  BY <1>21 DEF cloneVars
<1>22. QED
  BY <1>1, <1>2, <1>3, <1>4, <1>5, <1>6, <1>7, <1>8, <1>9, <1>10, <1>11, <1>12,
     <1>13, <1>14, <1>15, <1>16, <1>17, <1>18, <1>19, <1>20, <1>21, <1>23
     DEF CloneNext, TaskNext, DoCloneStep, UnlockedNext
----------------------------------------------------------------------------
\* The queue has tasks that are queued, each of them once.
QueueInv ==
  /\ \A i \in 1 .. Len(queue) : task[queue[i]].pc = "queued"
  /\ \A i, k \in 1 .. Len(queue) : queue[i] = queue[k] => i = k

\* The task has the lock of its repository, and doClone has not begun.
Waiting == {"limited", "queued", "popped", "accepted"}

(***************************************************************************)
(* A lock that is held is not done yet; a goroutine that still reads       *)
(* progress lines has a lock that is done, or held by its own task.        *)
(***************************************************************************)
ReaderInv ==
  \A c \in Tasks :
    /\ task[c].pc \in LockHolding => ~done[c]
    /\ reader[c] # NoRepo /\ ~done[c]
         => task[c].pc \in LockHolding /\ task[c].repo = reader[c]
    /\ task[c].pc \in {"checking"} \cup Waiting => reader[c] = NoRepo

LockInv == LockHasOwner /\ QueueInv /\ ReaderInv

(***************************************************************************)
(* A task that has the lock goes on, and keeps it.                         *)
(***************************************************************************)
LEMMA WorkKeepsLock ==
  ASSUME CloneTypeOK, LockInv, NEW c \in Tasks,
         task[c].pc \in LockHolding \ {"queued"},
         task'[c].pc \in LockHolding,
         task'[c].pc \in Waiting => task[c].pc \in Waiting /\ UNCHANGED reader,
         task'[c].repo = task[c].repo,
         \A d \in Tasks \ {c} : task'[d] = task[d],
         UNCHANGED <<locks, done, queue>>,
         \/ UNCHANGED reader
         \/ reader' = [reader EXCEPT ![c] = task[c].repo]
  PROVE  LockInv'
<1>1. LockHasOwner'
  BY DEF LockInv, LockHasOwner
<1>2. QueueInv'
  <2>1. \A i \in 1 .. Len(queue) : queue[i] \in Tasks /\ queue[i] # c
    BY DEF LockInv, QueueInv, CloneTypeOK
  <2>2. QED
    BY <2>1 DEF LockInv, QueueInv
<1>3. ReaderInv'
  <2> SUFFICES ASSUME NEW d \in Tasks
               PROVE  /\ task'[d].pc \in LockHolding => ~done'[d]
                      /\ reader'[d] # NoRepo /\ ~done'[d]
                           => task'[d].pc \in LockHolding /\ task'[d].repo = reader'[d]
                      /\ task'[d].pc \in {"checking"} \cup Waiting => reader'[d] = NoRepo
    BY DEF ReaderInv
  <2>1. CASE d = c
    BY <2>1 DEF LockInv, ReaderInv, CloneTypeOK, LockHolding, InDoClone, Waiting
  <2>2. CASE d # c
    BY <2>2 DEF LockInv, ReaderInv, CloneTypeOK
  <2>3. QED
    BY <2>1, <2>2
<1>4. QED
  BY <1>1, <1>2, <1>3 DEF LockInv

(***************************************************************************)
(* Progress lines that come late do not bring a lock back.                 *)
(***************************************************************************)
LEMMA LateProgressHarmless ==
  ASSUME CloneTypeOK, LockInv, NEW c \in Tasks, ReaderEnds(c)
  PROVE  locks' = locks
<1>t. reader \in [Tasks -> Repos \cup {NoRepo}] /\ reader[c] # NoRepo
      /\ locks \in [Repos -> Tasks \cup {NoLock, Abandoned}]
  BY DEF CloneTypeOK, ReaderEnds
<1>1. CASE done[c]
  BY <1>1 DEF ReaderEnds, SetStatus
<1>2. CASE ~done[c]
  <2>1. locks[reader[c]] = c /\ reader[c] \in Repos
    BY <1>t, <1>2 DEF LockInv, ReaderInv, LockHasOwner
  <2>2. QED
    BY <1>t, <1>2, <2>1 DEF ReaderEnds, SetStatus
<1>3. QED
  BY <1>1, <1>2

(***************************************************************************)
(* Every step leaves each lock with the one task that will release it.     *)
(***************************************************************************)
LEMMA LockStep ==
  ASSUME CloneTypeOK, LockInv, [CloneNext]_cloneVars
  PROVE  LockInv'
<1> USE DEF diskVars, lockVars, pipelineVars, otherVars
<1>t. /\ task \in [Tasks -> Task]
      /\ \A c \in Tasks : task[c].repo \in Repos
      /\ locks \in [Repos -> Tasks \cup {NoLock, Abandoned}]
      /\ done \in [Tasks -> BOOLEAN] /\ reader \in [Tasks -> Repos \cup {NoRepo}]
      /\ queue \in Seq(Tasks)
  BY DEF CloneTypeOK, Task
<1>u. ASSUME UNCHANGED <<task, locks, done, reader, queue>> PROVE LockInv'
  BY <1>u DEF LockInv, LockHasOwner, QueueInv, ReaderInv
<1>1. ASSUME NEW c \in Tasks, NEW r \in Repos, NEW kind \in Kinds, CloneRepo(c, r, kind)
      PROVE  LockInv'
  <2>1. /\ task[c].pc = "idle" /\ reader[c] = NoRepo
        /\ task'[c].pc = "checking"
        /\ \A d \in Tasks \ {c} : task'[d] = task[d]
        /\ UNCHANGED <<locks, done, reader, queue>>
    BY <1>t, <1>1 DEF CloneRepo, NoTask
  <2>2. "checking" \notin LockHolding /\ "idle" \notin LockHolding \cup Waiting
    BY DEF LockHolding, InDoClone, Waiting
  <2>3. LockHasOwner'
    BY <2>1, <2>2 DEF LockInv, LockHasOwner
  <2>4. QueueInv'
    BY <1>t, <2>1 DEF LockInv, QueueInv
  <2>5. ReaderInv'
    BY <2>1, <2>2 DEF LockInv, ReaderInv
  <2>6. QED
    BY <2>3, <2>4, <2>5 DEF LockInv
<1>2. ASSUME NEW c \in Tasks, CloneRepoReturns(c)
      PROVE  LockInv'
  <2>1. /\ task[c].pc = "checking" /\ task'[c].pc = "idle" /\ reader[c] = NoRepo
        /\ \A d \in Tasks \ {c} : task'[d] = task[d]
        /\ UNCHANGED <<locks, done, reader, queue>>
    BY <1>t, <1>2, ReturnsEffect DEF CloneRepoReturns, LockInv, ReaderInv
  <2>2. "checking" \notin LockHolding /\ "idle" \notin LockHolding \cup Waiting
    BY DEF LockHolding, InDoClone, Waiting
  <2>3. LockHasOwner'
    BY <2>1, <2>2 DEF LockInv, LockHasOwner
  <2>4. QueueInv'
    BY <1>t, <2>1 DEF LockInv, QueueInv
  <2>5. ReaderInv'
    BY <2>1, <2>2 DEF LockInv, ReaderInv
  <2>6. QED
    BY <2>3, <2>4, <2>5 DEF LockInv
<1>3. ASSUME NEW c \in Tasks, CloneRepoLocks(c)
      PROVE  LockInv'
  <2>1. /\ task[c].pc = "checking" /\ locks[task[c].repo] = NoLock /\ reader[c] = NoRepo
        /\ locks' = [locks EXCEPT ![task[c].repo] = c]
        /\ done' = [done EXCEPT ![c] = FALSE]
        /\ UNCHANGED reader
    BY <1>3 DEF CloneRepoLocks, Acquires, LockInv, ReaderInv
  <2>2. \/ task'[c].pc = "queued" /\ queue' = Append(queue, c)
        \/ task'[c].pc = "limited" /\ queue' = queue
    BY <1>t, <1>3, GotoEffect DEF CloneRepoLocks, TaskStates, LockHolding
  <2>3. task'[c].repo = task[c].repo /\ \A d \in Tasks \ {c} : task'[d] = task[d]
    BY <1>t, <1>3, GotoEffect DEF CloneRepoLocks, TaskStates, LockHolding
  <2>4. {"queued", "limited"} \subseteq LockHolding /\ "checking" \notin LockHolding
    BY DEF LockHolding, InDoClone
  <2>5. LockHasOwner'
    BY <1>t, <2>1, <2>2, <2>3, <2>4 DEF LockInv, LockHasOwner
  <2>6. QueueInv'
    <3>1. \A i \in 1 .. Len(queue) : queue[i] \in Tasks /\ queue[i] # c
      BY <1>t, <2>1 DEF LockInv, QueueInv
    <3>2. CASE queue' = queue
      BY <2>3, <3>1, <3>2 DEF LockInv, QueueInv
    <3>3. CASE queue' = Append(queue, c) /\ task'[c].pc = "queued"
      <4>1. /\ Len(queue') = Len(queue) + 1 /\ Len(queue) \in Nat
            /\ \A i \in 1 .. Len(queue) : queue'[i] = queue[i]
            /\ queue'[Len(queue) + 1] = c
        BY <1>t, <3>3
      <4>2. QED
        BY <2>3, <3>1, <3>3, <4>1 DEF LockInv, QueueInv
    <3>4. QED
      BY <2>2, <3>2, <3>3
  <2>7. ReaderInv'
    BY <1>t, <2>1, <2>2, <2>3, <2>4 DEF LockInv, ReaderInv
  <2>8. QED
    BY <2>5, <2>6, <2>7 DEF LockInv
<1>4. ASSUME NEW c \in Tasks,
             \/ LimiterAdmits(c) \/ ConsumerReceives(c) \/ ConsumerStarts(c)
             \/ DoCloneRefuses(c) \/ DoCloneStarts(c) \/ Clones(c) \/ MovesOld(c)
             \/ Places(c) \/ DoCloneFails(c)
      PROVE  LockInv'
  <2>1. PICK pc \in LockHolding :
          Goto(c, pc) /\ (pc \in Waiting => task[c].pc \in Waiting /\ UNCHANGED reader)
    BY <1>4 DEF LimiterAdmits, ConsumerReceives, ConsumerStarts, DoCloneRefuses,
         DoCloneStarts, Clones, MovesOld, Places, DoCloneFails,
         LockHolding, InDoClone, Waiting
  <2>2. task[c].pc \in LockHolding \ {"queued"}
    BY <1>4 DEF LimiterAdmits, ConsumerReceives, ConsumerStarts, DoCloneRefuses,
         DoCloneStarts, Clones, MovesOld, Places, DoCloneFails,
         LockHolding, InDoClone
  <2>3. /\ UNCHANGED <<locks, done, queue>>
        /\ UNCHANGED reader \/ reader' = [reader EXCEPT ![c] = task[c].repo]
    BY <1>4 DEF LimiterAdmits, ConsumerReceives, ConsumerStarts, DoCloneRefuses,
         DoCloneStarts, Clones, MovesOld, Places, DoCloneFails
  <2>4. pc \in TaskStates
    BY DEF TaskStates
  <2>5. /\ task'[c].pc = pc /\ task'[c].repo = task[c].repo
        /\ \A d \in Tasks \ {c} : task'[d] = task[d]
    BY <1>t, <2>1, <2>4, GotoEffect
  <2>6. QED
    BY <2>1, <2>2, <2>3, <2>5, WorkKeepsLock
<1>5. ASSUME NEW c \in Tasks, Looks(c) \/ Reports(c)
      PROVE  LockInv'
  <2>1. /\ task[c].pc \in LockHolding \ {"queued"}
        /\ {"reporting", "releasing"} \subseteq LockHolding \ Waiting
        /\ UNCHANGED <<locks, done, queue, reader>>
    BY <1>5 DEF Looks, Reports, LockHolding, InDoClone, Waiting
  <2>2. /\ task'[c].pc \in {"reporting", "releasing"} /\ task'[c].repo = task[c].repo
        /\ \A d \in Tasks \ {c} : task'[d] = task[d]
    BY <1>t, <1>5, LooksEffect, ReportsEffect
  <2>3. QED
    BY <2>1, <2>2, WorkKeepsLock
<1>6. ASSUME NEW c \in Tasks, LimiterRefuses(c) \/ ConsumerRefuses(c)
      PROVE  LockInv'
  <2>1. /\ task[c].pc \in {"limited", "accepted"} /\ task'[c].pc = "idle"
        /\ \A d \in Tasks \ {c} : task'[d] = task[d]
        /\ locks' = [locks EXCEPT ![task[c].repo] = Abandoned]
        /\ UNCHANGED <<done, reader, queue>>
    BY <1>t, <1>6, ReturnsEffect DEF LimiterRefuses, ConsumerRefuses
  <2>2. {"limited", "accepted"} \subseteq LockHolding /\ "idle" \notin LockHolding \cup Waiting
    BY DEF LockHolding, InDoClone, Waiting
  <2>3. LockHasOwner'
    BY <1>t, <2>1, <2>2 DEF LockInv, LockHasOwner
  <2>4. QueueInv'
    BY <1>t, <2>1 DEF LockInv, QueueInv
  <2>5. reader[c] = NoRepo
    BY <2>1 DEF LockInv, ReaderInv, Waiting
  <2>6. ReaderInv'
    BY <2>1, <2>2, <2>5 DEF LockInv, ReaderInv
  <2>7. QED
    BY <2>3, <2>4, <2>6 DEF LockInv
<1>7. ASSUME NEW c \in Tasks, Releases(c)
      PROVE  LockInv'
  <2>1. /\ task[c].pc = "releasing" /\ task'[c].pc = "idle" /\ ~done[c]
        /\ \A d \in Tasks \ {c} : task'[d] = task[d]
    BY <1>t, <1>7, ReturnsEffect DEF Releases, LockInv, ReaderInv, LockHolding, InDoClone
  <2>2. /\ locks' = [locks EXCEPT ![task[c].repo] = NoLock]
        /\ done' = [done EXCEPT ![c] = TRUE]
        /\ UNCHANGED <<reader, queue>>
    BY <1>7, <2>1 DEF Releases, Release
  <2>3. "releasing" \in LockHolding /\ "idle" \notin LockHolding \cup Waiting
    BY DEF LockHolding, InDoClone, Waiting
  <2>4. LockHasOwner'
    BY <1>t, <2>1, <2>2, <2>3 DEF LockInv, LockHasOwner
  <2>5. QueueInv'
    BY <1>t, <2>1, <2>2 DEF LockInv, QueueInv
  <2>6. ReaderInv'
    BY <1>t, <2>1, <2>2, <2>3 DEF LockInv, ReaderInv
  <2>7. QED
    BY <2>4, <2>5, <2>6 DEF LockInv
<1>8. ASSUME NEW c \in Tasks, ReaderEnds(c)
      PROVE  LockInv'
  <2>1. reader[c] # NoRepo /\ reader' = [reader EXCEPT ![c] = NoRepo]
        /\ UNCHANGED <<task, done, queue>>
    BY <1>8 DEF ReaderEnds
  <2>2. locks' = locks
    BY <1>8, LateProgressHarmless
  <2>3. LockHasOwner' /\ QueueInv'
    BY <2>1, <2>2 DEF LockInv, LockHasOwner, QueueInv
  <2>4. ReaderInv'
    BY <1>t, <2>1 DEF LockInv, ReaderInv
  <2>5. QED
    BY <2>3, <2>4 DEF LockInv
<1>9. CASE ProducerPops
  <2>1. CASE queue = <<>>
    BY <1>9, <1>u, <2>1 DEF ProducerPops
  <2>2. CASE queue # <<>>
    <3> DEFINE c == Head(queue)
    <3>1. /\ c = queue[1] /\ c \in Tasks /\ queue' = Tail(queue)
          /\ Goto(c, "popped") /\ UNCHANGED <<locks, done, reader>>
      BY <1>t, <1>9, <2>2 DEF ProducerPops
    <3>2. /\ Len(queue) \in Nat \ {0} /\ Len(queue') = Len(queue) - 1
          /\ \A i \in 1 .. Len(queue') : queue'[i] = queue[i + 1]
      BY <1>t, <2>2, <3>1
    <3>3. task[c].pc = "queued"
      BY <3>1, <3>2 DEF LockInv, QueueInv
    <3>4. /\ task'[c].pc = "popped" /\ task'[c].repo = task[c].repo
          /\ \A d \in Tasks \ {c} : task'[d] = task[d]
      BY <1>t, <3>1, GotoEffect DEF TaskStates, LockHolding
    <3> HIDE DEF c
    <3>5. {"queued", "popped"} \subseteq LockHolding /\ {"queued", "popped"} \subseteq Waiting
      BY DEF LockHolding, Waiting
    <3>6. LockHasOwner'
      BY <3>1, <3>3, <3>4, <3>5 DEF LockInv, LockHasOwner
    <3>7. QueueInv'
      <4>1. \A i \in 1 .. Len(queue') : i + 1 \in 1 .. Len(queue) /\ queue'[i] \in Tasks \ {c}
        BY <1>t, <3>1, <3>2 DEF LockInv, QueueInv
      <4>2. QED
        BY <3>2, <3>4, <4>1 DEF LockInv, QueueInv
    <3>8. ReaderInv'
      BY <3>1, <3>3, <3>4, <3>5 DEF LockInv, ReaderInv
    <3>9. QED
      BY <3>6, <3>7, <3>8 DEF LockInv
  <2>3. QED
    BY <2>1, <2>2
<1>10. CASE \/ ProducerChecks \/ ProducerWaits \/ UnlockedNext \/ UNCHANGED cloneVars
  BY <1>10, <1>u DEF ProducerChecks, ProducerWaits, UnlockedNext, cloneVars,
       Removes, DeletesMissing, Fetches, SyncReads,
       RemovalReports, DeleteReports, FetchEnds, SyncLooks, SyncWrites
<1>11. CASE Restart
  <2>1. "idle" \notin LockHolding \cup Waiting
    BY DEF LockHolding, InDoClone, Waiting
  <2>2. LockHasOwner' /\ QueueInv' /\ ReaderInv'
    BY <1>11, <2>1, IdleTyped DEF Restart, LockHasOwner, QueueInv, ReaderInv
  <2>3. QED
    BY <2>2 DEF LockInv
<1>12. QED
  BY <1>1, <1>2, <1>3, <1>4, <1>5, <1>6, <1>7, <1>8, <1>9, <1>10, <1>11
     DEF CloneNext, TaskNext, DoCloneStep
----------------------------------------------------------------------------
(***************************************************************************)
(* What is renamed into place is complete, and the place is free from the  *)
(* moment that doClone found it so, or emptied it.                         *)
(***************************************************************************)
DiskInv ==
  /\ \A r \in Repos : dir[r] \in {"none", "ready"}
  /\ \A c \in Tasks :
       /\ task[c].pc \in {"moving", "placing"} => tmp[c] = "ready"
       /\ task[c].pc = "cloning" /\ ~Overwrite(c) => dir[task[c].repo] = "none"
       /\ task[c].pc = "placing" => dir[task[c].repo] = "none"

(***************************************************************************)
(* Every step leaves the disk so: what one task puts into place cannot be  *)
(* in the way of another, since it has the lock.                           *)
(***************************************************************************)
LEMMA DiskStep ==
  ASSUME CloneTypeOK, LockInv, DiskInv, [CloneNext]_cloneVars
  PROVE  DiskInv'
<1> USE DEF diskVars, lockVars, pipelineVars, otherVars
<1>t. /\ task \in [Tasks -> Task]
      /\ \A c \in Tasks : task[c].repo \in Repos /\ task[c].kind \in Kinds
      /\ dir \in [Repos -> Contents] /\ tmp \in [Tasks -> Contents]
  BY DEF CloneTypeOK, Task
<1>u. ASSUME UNCHANGED <<task, dir, tmp>> PROVE DiskInv'
  BY <1>u DEF DiskInv, Overwrite
<1>v. ASSUME UNCHANGED <<dir, tmp>>, NEW c \in Tasks,
             task'[c].pc \notin {"cloning", "moving", "placing"},
             \A d \in Tasks \ {c} : task'[d] = task[d]
      PROVE  DiskInv'
  BY <1>v DEF DiskInv, Overwrite
<1>w. ASSUME NEW r \in Repos, dir' = [dir EXCEPT ![r] = "none"], UNCHANGED tmp,
             NEW c \in Tasks,
             task'[c].pc # "cloning" /\ (task'[c].pc = "moving" => task[c].pc = "moving"),
             task'[c].pc = "placing" => task'[c].repo = r /\ tmp[c] = "ready",
             \A d \in Tasks \ {c} : task'[d] = task[d]
      PROVE  DiskInv'
  BY <1>t, <1>w DEF DiskInv, Overwrite
<1>1. ASSUME NEW c \in Tasks, NEW r \in Repos, NEW kind \in Kinds, CloneRepo(c, r, kind)
      PROVE  DiskInv'
  <2>1. /\ task'[c].pc = "checking" /\ UNCHANGED <<dir, tmp>>
        /\ \A d \in Tasks \ {c} : task'[d] = task[d]
    BY <1>t, <1>1 DEF CloneRepo, NoTask
  <2>2. QED
    BY <1>v, <2>1
<1>2. ASSUME NEW c \in Tasks, CloneRepoReturns(c) \/ LimiterRefuses(c) \/ ConsumerRefuses(c)
      PROVE  DiskInv'
  <2>1. /\ task'[c].pc = "idle" /\ UNCHANGED <<dir, tmp>>
        /\ \A d \in Tasks \ {c} : task'[d] = task[d]
    BY <1>t, <1>2, ReturnsEffect DEF CloneRepoReturns, LimiterRefuses,
         ConsumerRefuses
  <2>2. QED
    BY <1>v, <2>1
<1>3. ASSUME NEW c \in Tasks,
             \/ CloneRepoLocks(c) \/ LimiterAdmits(c) \/ ConsumerReceives(c)
             \/ ConsumerStarts(c) \/ DoCloneRefuses(c) \/ DoCloneFails(c)
      PROVE  DiskInv'
  <2>1. PICK pc \in {"queued", "limited", "accepted", "starting", "ending", "releasing"} :
               Goto(c, pc)
    BY <1>3 DEF CloneRepoLocks, LimiterAdmits, ConsumerReceives, ConsumerStarts,
         DoCloneRefuses, DoCloneFails
  <2>2. task'[c].pc = pc /\ \A d \in Tasks \ {c} : task'[d] = task[d]
    BY <1>t, <2>1, GotoEffect DEF TaskStates, LockHolding, InDoClone
  <2>3. UNCHANGED <<dir, tmp>>
    BY <1>3 DEF CloneRepoLocks, LimiterAdmits, ConsumerReceives, ConsumerStarts,
         DoCloneRefuses, DoCloneFails
  <2>4. QED
    BY <1>v, <2>2, <2>3
<1>4. ASSUME NEW c \in Tasks, Looks(c) \/ Reports(c)
      PROVE  DiskInv'
  BY <1>t, <1>4, <1>v, LooksEffect, ReportsEffect DEF Looks, Reports
<1>5. ASSUME NEW c \in Tasks, DoCloneStarts(c)
      PROVE  DiskInv'
  <2>1. /\ MayClone(c) /\ UNCHANGED dir /\ tmp' = [tmp EXCEPT ![c] = "partial"]
        /\ task[c].pc = "starting" /\ task'[c].pc = "cloning"
        /\ task'[c].repo = task[c].repo /\ task'[c].kind = task[c].kind
        /\ \A d \in Tasks \ {c} : task'[d] = task[d]
    BY <1>t, <1>5, GotoEffect DEF DoCloneStarts, TaskStates, LockHolding, InDoClone
  <2>2. QED
    BY <1>t, <2>1 DEF DiskInv, Overwrite, MayClone
<1>6. ASSUME NEW c \in Tasks, Clones(c)
      PROVE  DiskInv'
  <2>1. /\ UNCHANGED dir /\ tmp' = [tmp EXCEPT ![c] = "ready"]
        /\ task[c].pc = "cloning"
        /\ task'[c].pc = IF Overwrite(c) THEN "moving" ELSE "placing"
        /\ task'[c].repo = task[c].repo /\ task'[c].kind = task[c].kind
        /\ \A d \in Tasks \ {c} : task'[d] = task[d]
    BY <1>t, <1>6, GotoEffect DEF Clones, TaskStates, LockHolding, InDoClone
  <2>2. QED
    BY <1>t, <2>1 DEF DiskInv, Overwrite
<1>7. ASSUME NEW c \in Tasks, MovesOld(c)
      PROVE  DiskInv'
  <2>1. /\ dir' = [dir EXCEPT ![task[c].repo] = "none"] /\ UNCHANGED tmp
        /\ task[c].pc = "moving"
        /\ task'[c].pc \in {"placing", "ending"} /\ task'[c].repo = task[c].repo
        /\ \A d \in Tasks \ {c} : task'[d] = task[d]
    BY <1>t, <1>7, GotoEffect DEF MovesOld, TaskStates, LockHolding, InDoClone
  <2>2. tmp[c] = "ready"
    BY <2>1 DEF DiskInv
  <2>3. QED
    BY <1>t, <1>w, <2>1, <2>2
<1>8. ASSUME NEW c \in Tasks, Places(c)
      PROVE  DiskInv'
  <2>0. /\ task'[c].pc \in {"placed", "ending"}
        /\ \A d \in Tasks \ {c} : task'[d] = task[d]
    BY <1>t, <1>8, GotoEffect DEF Places, TaskStates, LockHolding, InDoClone
  <2>1. /\ task[c].pc = "placing" /\ tmp[c] = "ready"
        /\ dir' = [dir EXCEPT ![task[c].repo] = "ready"]
        /\ tmp' = [tmp EXCEPT ![c] = "none"]
    BY <1>8 DEF Places, DiskInv
  <2>2. \A d \in Tasks \ {c} :
          task[d].pc \in {"cloning", "placing"} => task[d].repo # task[c].repo
    <3>1. {"cloning", "placing"} \subseteq LockHolding
      BY DEF LockHolding, InDoClone
    <3>2. QED
      BY <1>t, <2>1, <3>1 DEF LockInv, LockHasOwner
  <2>3. QED
    BY <1>t, <2>0, <2>1, <2>2 DEF DiskInv, Overwrite
<1>9. ASSUME NEW c \in Tasks, Releases(c)
      PROVE  DiskInv'
  <2>1. /\ task'[c].pc = "idle" /\ UNCHANGED dir /\ tmp' = [tmp EXCEPT ![c] = "none"]
        /\ \A d \in Tasks \ {c} : task'[d] = task[d]
    BY <1>t, <1>9, ReturnsEffect DEF Releases
  <2>2. QED
    BY <1>t, <2>1 DEF DiskInv, Overwrite
<1>10. CASE ProducerPops
  <2>1. CASE queue = <<>>
    BY <1>10, <1>u, <2>1 DEF ProducerPops
  <2>2. CASE queue # <<>>
    <3>1. Head(queue) \in Tasks /\ Goto(Head(queue), "popped") /\ UNCHANGED <<dir, tmp>>
      BY <1>10, <2>2, HeadTailProperties DEF ProducerPops, CloneTypeOK
    <3>2. /\ task'[Head(queue)].pc = "popped"
          /\ \A d \in Tasks \ {Head(queue)} : task'[d] = task[d]
      BY <1>t, <3>1, GotoEffect DEF TaskStates, LockHolding
    <3>3. QED
      BY <1>v, <3>1, <3>2
  <2>3. QED
    BY <2>1, <2>2
<1>11. ASSUME NEW r \in Repos, Removes(r)
       PROVE  DiskInv'
  BY <1>t, <1>11 DEF Removes, DiskInv, Overwrite
<1>12. CASE Restart
  BY <1>12, IdleTyped DEF Restart, DiskInv
<1>13. CASE \/ ProducerChecks \/ ProducerWaits
            \/ \E c \in Tasks : ReaderEnds(c)
            \/ \E r \in Repos : DeletesMissing(r) \/ Fetches(r) \/ SyncReads(r)
            \/ RemovalReports \/ DeleteReports \/ FetchEnds \/ SyncLooks \/ SyncWrites
            \/ UNCHANGED cloneVars
  BY <1>13, <1>u DEF ProducerChecks, ProducerWaits, ReaderEnds, DeletesMissing, Fetches,
       SyncReads, RemovalReports, DeleteReports, FetchEnds, SyncLooks, SyncWrites, cloneVars
<1>14. QED
  BY <1>1, <1>2, <1>3, <1>4, <1>5, <1>6, <1>7, <1>8, <1>9, <1>10, <1>11, <1>12, <1>13
     DEF CloneNext, TaskNext, DoCloneStep, UnlockedNext
----------------------------------------------------------------------------
(***************************************************************************)
(* The status of r that the database will have when the operation that is  *)
(* under way has ended, if nothing casts doubt on it: until it sets the    *)
(* status, the operation knows what is on disk.                            *)
(***************************************************************************)
Right(r) == status[r] = CloneStatus(RepoCloned(r), FALSE)

\* The task has not set the status yet, or has just done so.
Quiet == {"limited", "queued", "popped", "accepted", "starting", "releasing"}

RemovalOf(r) == removal.pc # "idle" /\ removal.repo = r
FetchOf(r)   == fetch.pc # "idle" /\ fetch.repo = r
SyncOf(r)    == sync.pc # "idle" /\ sync.repo = r

\* Without doubt, at most one operation works on r.
Alone(r) ==
  /\ RemovalOf(r) => ~FetchOf(r) /\ ~SyncOf(r) /\ ~Locked(r)
  /\ FetchOf(r) => ~SyncOf(r) /\ ~Locked(r)
  /\ SyncOf(r) => ~Locked(r)

Foreseen(r) ==
  /\ RemovalOf(r) => dir[r] = "none"
  /\ FetchOf(r) => RepoCloned(r) /\ Right(r)
  /\ SyncOf(r) /\ sync.pc = "read" => sync.status = status[r]
  /\ SyncOf(r) /\ sync.pc = "batched" => sync.status = CloneStatus(RepoCloned(r), FALSE)
  /\ locks[r] = Abandoned => Right(r)
  /\ \A c \in Tasks :
       locks[r] = c =>
         /\ task[c].pc \in Quiet => Right(r)
         /\ task[c].pc = "reporting" => (task[c].cloned <=> RepoCloned(r))
  /\ ~RemovalOf(r) /\ ~FetchOf(r) /\ ~SyncOf(r) /\ ~Locked(r) => Right(r)

StatusInv == \A r \in Repos : ~doubt[r] => Alone(r) /\ Foreseen(r)

(***************************************************************************)
(* Every step keeps what is foreseen of the status.                        *)
(***************************************************************************)
LEMMA StatusStep ==
  ASSUME CloneTypeOK, LockInv, StatusInv, [CloneNext]_cloneVars
  PROVE  StatusInv'
<1> USE DEF diskVars, lockVars, pipelineVars, otherVars
<1> SUFFICES ASSUME NEW r \in Repos PROVE (~doubt[r] => Alone(r) /\ Foreseen(r))'
  BY DEF StatusInv
<1> DEFINE Good == (~doubt[r] => Alone(r) /\ Foreseen(r))'
<1>0. ~doubt[r] => Alone(r) /\ Foreseen(r)
  BY DEF StatusInv
<1>t. /\ task \in [Tasks -> Task]
      /\ \A c \in Tasks : task[c].repo \in Repos /\ task[c].cloned \in BOOLEAN
      /\ locks \in [Repos -> Tasks \cup {NoLock, Abandoned}]
      /\ dir \in [Repos -> Contents] /\ status \in [Repos -> CloneStatuses]
      /\ doubt \in [Repos -> BOOLEAN]
  BY DEF CloneTypeOK, Task
<1>l. \A q \in Repos, c \in Tasks :
        locks[q] = c <=> task[c].repo = q /\ task[c].pc \in LockHolding
  BY DEF LockInv, LockHasOwner
<1>b. \A q \in Repos : Busy(q) <=> RemovalOf(q) \/ FetchOf(q) \/ SyncOf(q)
  BY DEF Busy, RemovalOf, FetchOf, SyncOf
\* Nothing that concerns r changes, but that there may be doubt.
<1>k. ASSUME doubt[r] => doubt'[r],
             status'[r] = status[r], dir'[r] = dir[r], locks'[r] = locks[r],
             RemovalOf(r)' <=> RemovalOf(r), FetchOf(r)' <=> FetchOf(r),
             SyncOf(r)' <=> SyncOf(r), SyncOf(r) => sync' = sync,
             \A c \in Tasks : locks[r] = c => task'[c] = task[c]
      PROVE  Good
  BY <1>0, <1>k DEF Alone, Foreseen, Right, Locked, RepoCloned
\* Neither do the goroutines that take no lock.
<1>m. ASSUME UNCHANGED otherVars
      PROVE  /\ (RemovalOf(r)' <=> RemovalOf(r))
             /\ (FetchOf(r)' <=> FetchOf(r))
             /\ (SyncOf(r)' <=> SyncOf(r))
             /\ sync' = sync
  BY <1>m DEF RemovalOf, FetchOf, SyncOf
\* A task that has not the lock of r moves.
<1>n. ASSUME NEW c \in Tasks, locks[r] # c,
             \A d \in Tasks \ {c} : task'[d] = task[d],
             doubt[r] => doubt'[r],
             status'[r] = status[r], dir'[r] = dir[r], locks'[r] = locks[r],
             UNCHANGED otherVars
      PROVE  Good
  <2>1. \A d \in Tasks : locks[r] = d => task'[d] = task[d]
    BY <1>n
  <2>2. QED
    BY <1>n, <1>m, <1>k, <2>1
\* The task that has the lock of r goes on without touching the status.
<1>p. ASSUME NEW c \in Tasks, locks[r] = c, UNCHANGED <<doubt, status, dir, locks>>,
             UNCHANGED otherVars,
             task[c].pc \in Quiet, task'[c].pc \in Quiet
      PROVE  Good
  <2>1. \A d \in Tasks : locks'[r] = d => d = c
    BY <1>p
  <2>2. task'[c].pc # "reporting" /\ locks[r] # Abandoned /\ Locked(r)
    BY <1>p DEF Quiet, Locked
  <2>3. QED
    BY <1>0, <1>p, <1>m, <2>1, <2>2 DEF Alone, Foreseen, Right, Locked, RepoCloned
\* The task that has the lock of r is at work on the disk.
<1>q. ASSUME NEW c \in Tasks, locks'[r] = c,
             ~doubt'[r] => ~RemovalOf(r) /\ ~FetchOf(r) /\ ~SyncOf(r),
             UNCHANGED otherVars,
             task'[c].pc \notin Quiet \cup {"reporting"}
      PROVE  Good
  <2>1. ((~RemovalOf(r))' /\ (~FetchOf(r))' /\ (~SyncOf(r))') \/ doubt'[r]
    BY <1>q, <1>m
  <2>2. locks'[r] # Abandoned /\ locks'[r] # NoLock
    BY <1>q
  <2>3. QED
    BY <1>q, <2>1, <2>2 DEF Alone, Foreseen, Locked
<1>a. ASSUME NEW c \in Tasks, locks[r] = c, ~doubt[r]
      PROVE  ~RemovalOf(r) /\ ~FetchOf(r) /\ ~SyncOf(r)
  BY <1>0, <1>a DEF Alone, Locked
<1>1. ASSUME NEW c \in Tasks, NEW q \in Repos, NEW kind \in Kinds, CloneRepo(c, q, kind)
      PROVE  Good
  <2>1. locks[r] # c
    BY <1>1, <1>l DEF CloneRepo, LockHolding, InDoClone
  <2>2. \A d \in Tasks \ {c} : task'[d] = task[d]
    BY <1>t, <1>1 DEF CloneRepo
  <2>3. QED
    BY <1>1, <1>n, <2>1, <2>2 DEF CloneRepo
<1>2. ASSUME NEW c \in Tasks, CloneRepoReturns(c)
      PROVE  Good
  <2>1. locks[r] # c
    BY <1>2, <1>l DEF CloneRepoReturns, LockHolding, InDoClone
  <2>2. QED
    BY <1>t, <1>2, <1>n, <2>1, ReturnsEffect DEF CloneRepoReturns
<1>3. ASSUME NEW c \in Tasks, CloneRepoLocks(c)
      PROVE  Good
  <2>0. /\ locks[r] # c
        /\ locks[task[c].repo] = NoLock
        /\ locks' = [locks EXCEPT ![task[c].repo] = c]
        /\ Join(task[c].repo, Busy(task[c].repo))
        /\ UNCHANGED <<status, dir>> /\ UNCHANGED otherVars
    BY <1>3, <1>l DEF CloneRepoLocks, Acquires, LockHolding, InDoClone
  <2>1. task'[c].pc \in {"queued", "limited"} /\ \A d \in Tasks \ {c} : task'[d] = task[d]
    BY <1>t, <1>3, GotoEffect DEF CloneRepoLocks, TaskStates, LockHolding
  <2>2. CASE r # task[c].repo
    BY <1>t, <1>n, <2>0, <2>1, <2>2 DEF Join
  <2>3. CASE r = task[c].repo
    <3>1. ~doubt'[r] => ~doubt[r] /\ ~RemovalOf(r) /\ ~FetchOf(r) /\ ~SyncOf(r)
      BY <1>t, <1>b, <2>0, <2>3 DEF Join
    <3>2. ~doubt'[r] => Right(r)'
      BY <1>0, <2>0, <2>3, <3>1 DEF Foreseen, Locked, Right, RepoCloned
    <3>3. locks'[r] = c /\ locks'[r] # Abandoned /\ locks'[r] # NoLock
      BY <1>t, <2>0, <2>3
    <3>4. ~doubt'[r] => (~RemovalOf(r))' /\ (~FetchOf(r))' /\ (~SyncOf(r))'
      BY <1>m, <2>0, <3>1
    <3>5. QED
      BY <2>1, <3>2, <3>3, <3>4 DEF Alone, Foreseen, Locked
  <2>4. QED
    BY <2>2, <2>3
<1>4. ASSUME NEW c \in Tasks,
             \/ LimiterAdmits(c) \/ ConsumerReceives(c) \/ ConsumerStarts(c)
             \/ DoCloneRefuses(c)
      PROVE  Good
  <2>1. PICK pc \in {"accepted", "starting", "releasing"} : Goto(c, pc)
    BY <1>4 DEF LimiterAdmits, ConsumerReceives, ConsumerStarts, DoCloneRefuses
  <2>2. /\ task[c].pc \in Quiet /\ UNCHANGED <<doubt, status, dir, locks>>
        /\ UNCHANGED otherVars
    BY <1>4 DEF LimiterAdmits, ConsumerReceives, ConsumerStarts, DoCloneRefuses, Quiet
  <2>3. task'[c].pc \in Quiet /\ \A d \in Tasks \ {c} : task'[d] = task[d]
    BY <1>t, <2>1, GotoEffect DEF TaskStates, LockHolding, InDoClone, Quiet
  <2>4. QED
    BY <1>n, <1>p, <2>2, <2>3
<1>5. ASSUME NEW c \in Tasks, LimiterRefuses(c) \/ ConsumerRefuses(c)
      PROVE  Good
  <2>1. /\ task[c].pc \in {"limited", "accepted"} /\ UNCHANGED <<doubt, status, dir>>
        /\ UNCHANGED otherVars
        /\ locks' = [locks EXCEPT ![task[c].repo] = Abandoned]
        /\ \A d \in Tasks \ {c} : task'[d] = task[d]
    BY <1>t, <1>5, ReturnsEffect DEF LimiterRefuses, ConsumerRefuses
  <2>2. CASE r # task[c].repo
    BY <1>t, <1>l, <1>n, <2>1, <2>2
  <2>3. CASE r = task[c].repo
    <3>1. locks[r] = c /\ locks'[r] = Abandoned
      BY <1>t, <1>l, <2>1, <2>3 DEF LockHolding
    <3>2. ~doubt[r] => Right(r)
      BY <1>0, <2>1, <3>1 DEF Foreseen, Quiet
    <3>3. QED
      BY <1>a, <1>m, <2>1, <3>1, <3>2 DEF Alone, Foreseen, Right, Locked, RepoCloned
  <2>4. QED
    BY <2>2, <2>3
<1>6. ASSUME NEW c \in Tasks, DoCloneStarts(c)
      PROVE  Good
  <2>1. /\ task[c].pc = "starting" /\ UNCHANGED <<dir, locks>> /\ UNCHANGED otherVars
        /\ Begin(task[c].repo, Busy(task[c].repo))
        /\ UNCHANGED status \/ status' = [status EXCEPT ![task[c].repo] = "cloning"]
    BY <1>6 DEF DoCloneStarts
  <2>2. task'[c].pc = "cloning" /\ \A d \in Tasks \ {c} : task'[d] = task[d]
    BY <1>t, <1>6, GotoEffect DEF DoCloneStarts, TaskStates, LockHolding, InDoClone
  <2>3. CASE r # task[c].repo
    <3>1. locks[r] # c
      BY <1>l, <2>3
    <3>2. doubt'[r] = doubt[r] /\ status'[r] = status[r]
      BY <1>t, <2>1, <2>3 DEF Begin
    <3>3. QED
      BY <1>n, <2>1, <2>2, <3>1, <3>2
  <2>4. CASE r = task[c].repo
    <3>1. locks'[r] = c
      BY <1>t, <1>l, <2>1, <2>4 DEF LockHolding, InDoClone
    <3>2. ~doubt'[r] => ~RemovalOf(r) /\ ~FetchOf(r) /\ ~SyncOf(r)
      BY <1>t, <1>b, <2>1, <2>4 DEF Begin
    <3>3. QED
      BY <1>q, <2>1, <2>2, <3>1, <3>2 DEF Quiet
  <2>5. QED
    BY <2>3, <2>4
<1>7. ASSUME NEW c \in Tasks, Clones(c) \/ MovesOld(c) \/ Places(c) \/ DoCloneFails(c)
      PROVE  Good
  <2>1. PICK pc \in {"moving", "placing", "placed", "ending"} : Goto(c, pc)
    BY <1>7 DEF Clones, MovesOld, Places, DoCloneFails
  <2>2. task'[c].pc = pc /\ \A d \in Tasks \ {c} : task'[d] = task[d]
    BY <1>t, <2>1, GotoEffect DEF TaskStates, LockHolding, InDoClone
  <2>3. /\ task[c].pc \in {"cloning", "moving", "placing"}
        /\ UNCHANGED <<status, locks, doubt>> /\ UNCHANGED otherVars
        /\ UNCHANGED dir \/ \E x : dir' = [dir EXCEPT ![task[c].repo] = x]
    BY <1>7 DEF Clones, MovesOld, Places, DoCloneFails
  <2>4. CASE r # task[c].repo
    BY <1>t, <1>l, <1>n, <2>2, <2>3, <2>4
  <2>5. CASE r = task[c].repo
    <3>1. locks[r] = c
      BY <1>t, <1>l, <2>3, <2>5 DEF LockHolding, InDoClone
    <3>2. QED
      BY <1>a, <1>q, <2>2, <2>3, <3>1 DEF Quiet
  <2>6. QED
    BY <2>4, <2>5
<1>8. ASSUME NEW c \in Tasks, Looks(c)
      PROVE  Good
  <2>1. /\ task[c].pc \in {"placed", "ending"}
        /\ UNCHANGED <<dir, locks, doubt>> /\ UNCHANGED otherVars
        /\ UNCHANGED status \/ status' = [status EXCEPT ![task[c].repo] = "cloned"]
    BY <1>8 DEF Looks
  <2>2. /\ task'[c].pc = "reporting"
        /\ task'[c].cloned <=> RepoCloned(task[c].repo)
    BY <1>t, <1>8, LooksEffect
  <2>d. \A d \in Tasks \ {c} : task'[d] = task[d]
    BY <1>t, <1>8, LooksEffect
  <2>3. CASE r # task[c].repo
    BY <1>t, <1>l, <1>n, <2>d, <2>1, <2>3
  <2>4. CASE r = task[c].repo
    <3>1. locks[r] = c /\ c # Abandoned /\ c # NoLock
      BY <1>t, <1>l, <2>1, <2>4 DEF LockHolding, InDoClone
    <3>2. ~doubt'[r] => (~RemovalOf(r))' /\ (~FetchOf(r))' /\ (~SyncOf(r))'
      BY <1>a, <1>m, <2>1, <3>1
    <3>3. QED
      BY <2>1, <2>2, <2>4, <3>1, <3>2 DEF Alone, Foreseen, Locked, Quiet, RepoCloned
  <2>5. QED
    BY <2>3, <2>4
<1>9. ASSUME NEW c \in Tasks, Reports(c)
      PROVE  Good
  <2>1. /\ task[c].pc = "reporting" /\ UNCHANGED <<dir, locks>> /\ UNCHANGED otherVars
        /\ SetCloneStatus(task[c].repo, CloneStatus(task[c].cloned, FALSE))
    BY <1>9 DEF Reports
  <2>2. task'[c].pc = "releasing" /\ \A d \in Tasks \ {c} : task'[d] = task[d]
    BY <1>t, <1>9, ReportsEffect
  <2>3. CASE r # task[c].repo
    <3>1. doubt'[r] = doubt[r] /\ status'[r] = status[r]
      BY <1>t, <2>1, <2>3 DEF SetCloneStatus
    <3>2. QED
      BY <1>l, <1>n, <2>1, <2>2, <2>3, <3>1
  <2>4. CASE r = task[c].repo
    <3>1. locks[r] = c /\ c # Abandoned /\ c # NoLock
      BY <1>t, <1>l, <2>1, <2>4 DEF LockHolding, InDoClone
    <3>2. ~doubt'[r] => ~doubt[r] /\ status'[r] = CloneStatus(task[c].cloned, FALSE)
      BY <1>t, <2>1, <2>4 DEF SetCloneStatus
    <3>3. ~doubt[r] => (task[c].cloned <=> RepoCloned(r))
      BY <1>0, <2>1, <3>1 DEF Foreseen
    <3>4. ~doubt'[r] => Right(r)'
      BY <2>1, <3>2, <3>3 DEF Right, RepoCloned, CloneStatus
    <3>5. ~doubt'[r] => (~RemovalOf(r))' /\ (~FetchOf(r))' /\ (~SyncOf(r))'
      BY <1>a, <1>m, <2>1, <3>1, <3>2
    <3>6. QED
      BY <2>1, <2>2, <3>1, <3>4, <3>5 DEF Alone, Foreseen, Locked
  <2>5. QED
    BY <2>3, <2>4
<1>10. ASSUME NEW c \in Tasks, Releases(c)
       PROVE  Good
  <2>1. /\ task[c].pc = "releasing" /\ UNCHANGED <<dir, status, doubt>> /\ UNCHANGED otherVars
        /\ \A d \in Tasks \ {c} : task'[d] = task[d]
    BY <1>t, <1>10, ReturnsEffect DEF Releases
  <2>2. locks' = [locks EXCEPT ![task[c].repo] = NoLock]
    <3>1. ~done[c]
      BY <2>1 DEF LockInv, ReaderInv, LockHolding, InDoClone
    <3>2. QED
      BY <1>10, <3>1 DEF Releases, Release
  <2>3. CASE r # task[c].repo
    BY <1>t, <1>l, <1>n, <2>1, <2>2, <2>3
  <2>4. CASE r = task[c].repo
    <3>1. locks[r] = c /\ locks'[r] = NoLock /\ NoLock \notin Tasks /\ NoLock # Abandoned
      BY <1>t, <1>l, <2>1, <2>2, <2>4 DEF LockHolding, InDoClone
    <3>2. ~doubt[r] => Right(r)
      BY <1>0, <2>1, <3>1 DEF Foreseen, Quiet
    <3>3. QED
      BY <1>a, <1>m, <2>1, <3>1, <3>2 DEF Alone, Foreseen, Right, Locked, RepoCloned
  <2>5. QED
    BY <2>3, <2>4
<1>11. CASE ProducerPops
  <2>1. CASE queue = <<>>
    BY <1>11, <1>k, <1>m, <2>1 DEF ProducerPops
  <2>2. CASE queue # <<>>
    <3> DEFINE c == Head(queue)
    <3>1. /\ c = queue[1] /\ c \in Tasks /\ Goto(c, "popped") /\ 1 \in 1 .. Len(queue)
          /\ UNCHANGED <<doubt, status, dir, locks>> /\ UNCHANGED otherVars
      BY <1>11, <2>2 DEF ProducerPops, CloneTypeOK
    <3>2. task[c].pc = "queued"
      BY <3>1 DEF LockInv, QueueInv
    <3>3. task'[c].pc = "popped" /\ \A d \in Tasks \ {c} : task'[d] = task[d]
      BY <1>t, <3>1, GotoEffect DEF TaskStates, LockHolding
    <3>4. QED
      BY <1>n, <1>p, <3>1, <3>2, <3>3 DEF Quiet
  <2>3. QED
    BY <2>1, <2>2
<1>12. ASSUME NEW q \in Repos, Removes(q)
       PROVE  Good
  <2>1. /\ removal.pc = "idle" /\ UNCHANGED <<status, locks, task, fetch, sync>>
        /\ dir' = [dir EXCEPT ![q] = "none"]
        /\ \/ removal' = [pc |-> "moved", repo |-> q] /\ Begin(q, Locked(q) \/ Busy(q))
           \/ UNCHANGED removal /\ Begin(q, TRUE)
    BY <1>12 DEF Removes
  <2>2. (FetchOf(r)' <=> FetchOf(r)) /\ (SyncOf(r)' <=> SyncOf(r))
    BY <2>1 DEF FetchOf, SyncOf
  <2>3. CASE r # q
    <3>1. /\ ~RemovalOf(r) /\ (~RemovalOf(r))' /\ doubt'[r] = doubt[r] /\ dir'[r] = dir[r]
      BY <1>t, <2>1, <2>3 DEF RemovalOf, Begin
    <3>2. QED
      BY <1>k, <2>1, <2>2, <3>1
  <2>4. CASE r = q
    <3>1. ~doubt'[r] => ~Locked(r) /\ ~FetchOf(r) /\ ~SyncOf(r) /\ RemovalOf(r)'
      <4>1. CASE removal' = [pc |-> "moved", repo |-> q] /\ Begin(q, Locked(q) \/ Busy(q))
        <5>1. RemovalOf(r)'
          BY <2>4, <4>1 DEF RemovalOf
        <5>2. QED
          BY <1>t, <1>b, <2>4, <4>1, <5>1 DEF Begin
      <4>2. CASE Begin(q, TRUE)
        BY <1>t, <2>4, <4>2 DEF Begin
      <4>3. QED
        BY <2>1, <4>1, <4>2
    <3>2. dir'[r] = "none"
      BY <1>t, <2>1, <2>4
    <3>3. QED
      BY <1>t, <2>1, <2>2, <3>1, <3>2 DEF Alone, Foreseen, Locked
  <2>5. QED
    BY <2>3, <2>4
<1>13. ASSUME NEW q \in Repos, DeletesMissing(q)
       PROVE  Good
  <2>1. /\ removal.pc = "idle" /\ UNCHANGED <<status, locks, task, fetch, sync, dir>>
        /\ dir[q] = "none"
        /\ removal' = [pc |-> "deleting", repo |-> q] /\ Begin(q, Locked(q) \/ Busy(q))
    BY <1>13 DEF DeletesMissing, RepoCloned
  <2>2. (FetchOf(r)' <=> FetchOf(r)) /\ (SyncOf(r)' <=> SyncOf(r))
    BY <2>1 DEF FetchOf, SyncOf
  <2>3. CASE r # q
    <3>1. /\ ~RemovalOf(r) /\ (~RemovalOf(r))' /\ doubt'[r] = doubt[r]
      BY <1>t, <2>1, <2>3 DEF RemovalOf, Begin
    <3>2. QED
      BY <1>k, <2>1, <2>2, <3>1
  <2>4. CASE r = q
    <3>1. ~doubt'[r] => ~Locked(r) /\ ~FetchOf(r) /\ ~SyncOf(r) /\ RemovalOf(r)'
      BY <1>t, <1>b, <2>1, <2>4 DEF Begin, RemovalOf
    <3>2. QED
      BY <1>t, <2>1, <2>2, <2>4, <3>1 DEF Alone, Foreseen, Locked
  <2>5. QED
    BY <2>3, <2>4
<1>14. CASE RemovalReports \/ DeleteReports
  <2>1. /\ removal.pc # "idle" /\ removal.repo \in Repos
        /\ UNCHANGED <<dir, locks, task, fetch, sync>>
        /\ SetCloneStatus(removal.repo, "not_cloned")
        /\ removal' = Idle \/ removal' = [removal EXCEPT !.pc = "deleting"]
    BY <1>14 DEF RemovalReports, DeleteReports, CloneTypeOK
  <2>2. (FetchOf(r)' <=> FetchOf(r)) /\ (SyncOf(r)' <=> SyncOf(r))
    BY <2>1 DEF FetchOf, SyncOf
  <2>3. CASE r # removal.repo
    <3>1. doubt'[r] = doubt[r] /\ status'[r] = status[r]
      BY <1>t, <2>1, <2>3 DEF SetCloneStatus
    <3>2. ~RemovalOf(r) /\ (~RemovalOf(r))'
      BY <2>1, <2>3, IdleTyped DEF RemovalOf, CloneTypeOK
    <3>3. QED
      BY <1>k, <2>1, <2>2, <3>1, <3>2
  <2>4. CASE r = removal.repo
    <3>1. RemovalOf(r)
      BY <2>1, <2>4 DEF RemovalOf
    <3>2. ~doubt'[r] => ~doubt[r] /\ status'[r] = "not_cloned"
      BY <1>t, <2>1, <2>4 DEF SetCloneStatus
    <3>3. ~doubt[r] => dir[r] = "none" /\ ~FetchOf(r) /\ ~SyncOf(r) /\ ~Locked(r)
      BY <1>0, <3>1 DEF Alone, Foreseen
    <3>4. ~doubt'[r] => Right(r)'
      BY <2>1, <3>2, <3>3 DEF Right, RepoCloned, CloneStatus
    <3>5. QED
      BY <1>t, <2>1, <2>2, <3>2, <3>3, <3>4 DEF Alone, Foreseen, Locked
  <2>5. QED
    BY <2>3, <2>4
<1>15. ASSUME NEW q \in Repos, Fetches(q)
       PROVE  Good
  <2>1. /\ fetch.pc = "idle" /\ UNCHANGED <<status, locks, task, removal, sync, dir>>
        /\ RepoCloned(q)
        /\ fetch' = [pc |-> "fetching", repo |-> q] /\ Join(q, Locked(q) \/ Busy(q))
    BY <1>15 DEF Fetches
  <2>2. (RemovalOf(r)' <=> RemovalOf(r)) /\ (SyncOf(r)' <=> SyncOf(r))
    BY <2>1 DEF RemovalOf, SyncOf
  <2>3. CASE r # q
    <3>1. /\ ~FetchOf(r) /\ (~FetchOf(r))' /\ doubt'[r] = doubt[r]
      BY <1>t, <2>1, <2>3 DEF FetchOf, Join
    <3>2. QED
      BY <1>k, <2>1, <2>2, <3>1
  <2>4. CASE r = q
    <3>1. ~doubt'[r] => ~doubt[r] /\ ~Locked(r) /\ ~RemovalOf(r) /\ ~SyncOf(r) /\ ~FetchOf(r)
      BY <1>t, <1>b, <2>1, <2>4 DEF Join
    <3>2. ~doubt'[r] => Right(r)'
      BY <1>0, <2>1, <3>1 DEF Foreseen, Right, RepoCloned
    <3>3. QED
      BY <1>t, <2>1, <2>2, <2>4, <3>1, <3>2 DEF Alone, Foreseen, Locked, RepoCloned
  <2>5. QED
    BY <2>3, <2>4
<1>16. CASE FetchEnds
  <2>1. /\ fetch.pc # "idle" /\ fetch.repo \in Repos
        /\ UNCHANGED <<dir, locks, task, removal, sync, doubt>>
        /\ fetch' = Idle
        /\ UNCHANGED status \/ status' = [status EXCEPT ![fetch.repo] = "cloned"]
    BY <1>16 DEF FetchEnds, CloneTypeOK
  <2>2. /\ (RemovalOf(r)' <=> RemovalOf(r)) /\ (SyncOf(r)' <=> SyncOf(r))
        /\ (~FetchOf(r))'
    BY <2>1, IdleTyped DEF RemovalOf, SyncOf, FetchOf
  <2>3. CASE r # fetch.repo
    <3>1. status'[r] = status[r] /\ ~FetchOf(r)
      BY <1>t, <2>1, <2>3 DEF FetchOf
    <3>2. QED
      BY <1>k, <2>1, <2>2, <3>1
  <2>4. CASE r = fetch.repo
    <3>1. FetchOf(r)
      BY <2>1, <2>4 DEF FetchOf
    <3>2. ~doubt[r] => RepoCloned(r) /\ Right(r) /\ ~RemovalOf(r) /\ ~SyncOf(r) /\ ~Locked(r)
      BY <1>0, <3>1 DEF Alone, Foreseen
    <3>3. ~doubt[r] => Right(r)'
      BY <1>t, <2>1, <2>4, <3>2 DEF Right, RepoCloned, CloneStatus
    <3>4. QED
      BY <1>t, <2>1, <2>2, <3>2, <3>3 DEF Alone, Foreseen, Locked
  <2>5. QED
    BY <2>3, <2>4
<1>17. ASSUME NEW q \in Repos, SyncReads(q)
       PROVE  Good
  <2>1. /\ sync.pc = "idle" /\ UNCHANGED <<status, locks, task, removal, fetch, dir>>
        /\ sync' = [pc |-> "read", repo |-> q, status |-> status[q]]
        /\ Begin(q, Locked(q) \/ Busy(q))
    BY <1>17 DEF SyncReads
  <2>2. (RemovalOf(r)' <=> RemovalOf(r)) /\ (FetchOf(r)' <=> FetchOf(r))
    BY <2>1 DEF RemovalOf, FetchOf
  <2>3. CASE r # q
    <3>1. /\ ~SyncOf(r) /\ (~SyncOf(r))' /\ doubt'[r] = doubt[r]
      BY <1>t, <2>1, <2>3 DEF SyncOf, Begin
    <3>2. QED
      BY <1>k, <2>1, <2>2, <3>1
  <2>4. CASE r = q
    <3>1. ~doubt'[r] => ~Locked(r) /\ ~RemovalOf(r) /\ ~FetchOf(r)
      BY <1>t, <1>b, <2>1, <2>4 DEF Begin
    <3>2. sync'.status = status'[r] /\ sync'.pc = "read" /\ SyncOf(r)'
      BY <2>1, <2>4 DEF SyncOf
    <3>3. QED
      BY <1>t, <2>1, <2>2, <3>1, <3>2 DEF Alone, Foreseen, Locked
  <2>5. QED
    BY <2>3, <2>4
<1>23. CASE SyncLooks
  <2> DEFINE seen == CloneStatus(RepoCloned(sync.repo), Locked(sync.repo))
  <2>1. /\ sync.pc = "read" /\ sync.repo \in Repos
        /\ UNCHANGED <<dir, locks, task, removal, fetch, status, doubt>>
        /\ \/ sync' = [sync EXCEPT !.pc = "batched", !.status = seen]
           \/ sync.status = seen /\ sync' = NoSync
    BY <1>23 DEF SyncLooks, CloneTypeOK
  <2>2. /\ (RemovalOf(r)' <=> RemovalOf(r)) /\ (FetchOf(r)' <=> FetchOf(r))
    BY <2>1 DEF RemovalOf, FetchOf
  <2>3. CASE r # sync.repo
    <3>1. ~SyncOf(r) /\ (~SyncOf(r))'
      BY <2>1, <2>3, IdleTyped DEF SyncOf, CloneTypeOK
    <3>2. QED
      BY <1>k, <2>1, <2>2, <3>1
  <2>4. CASE r = sync.repo
    <3>1. SyncOf(r)
      BY <2>1, <2>4 DEF SyncOf
    <3>2. ~doubt[r] => /\ sync.status = status[r]
                       /\ ~RemovalOf(r) /\ ~FetchOf(r) /\ ~Locked(r)
      BY <1>0, <2>1, <3>1 DEF Alone, Foreseen
    <3>3. ~doubt[r] => seen = CloneStatus(RepoCloned(r), FALSE)
      BY <2>4, <3>2 DEF CloneStatus
    <3>4. CASE sync' = [sync EXCEPT !.pc = "batched", !.status = seen]
      <4>1. SyncOf(r)' /\ sync'.pc = "batched" /\ sync'.status = seen
        BY <2>1, <2>4, <3>4 DEF SyncOf, CloneTypeOK
      <4> HIDE DEF seen
      <4>2. QED
        BY <2>1, <2>2, <3>2, <3>3, <4>1 DEF Alone, Foreseen, Locked, RepoCloned
    <3>5. CASE sync.status = seen /\ sync' = NoSync
      <4>1. (~SyncOf(r))'
        BY <3>5, IdleTyped DEF SyncOf
      <4> HIDE DEF seen
      <4>2. ~doubt'[r] => Right(r)'
        BY <2>1, <3>2, <3>3, <3>5 DEF Right, RepoCloned
      <4>3. QED
        BY <2>1, <2>2, <3>2, <4>1, <4>2 DEF Alone, Foreseen, Locked
    <3>6. QED
      BY <2>1, <3>4, <3>5
  <2>5. QED
    BY <2>3, <2>4
<1>18. CASE SyncWrites
  <2>1. /\ sync.pc = "batched" /\ sync.repo \in Repos
        /\ UNCHANGED <<dir, locks, task, removal, fetch>>
        /\ SetCloneStatus(sync.repo, sync.status)
        /\ sync' = NoSync
    BY <1>18 DEF SyncWrites, CloneTypeOK
  <2>2. /\ (RemovalOf(r)' <=> RemovalOf(r)) /\ (FetchOf(r)' <=> FetchOf(r))
        /\ (~SyncOf(r))'
    BY <2>1, IdleTyped DEF RemovalOf, SyncOf, FetchOf
  <2>3. CASE r # sync.repo
    <3>1. doubt'[r] = doubt[r] /\ status'[r] = status[r] /\ ~SyncOf(r)
      BY <1>t, <2>1, <2>3 DEF SyncOf, SetCloneStatus
    <3>2. QED
      BY <1>k, <2>1, <2>2, <3>1
  <2>4. CASE r = sync.repo
    <3>1. SyncOf(r)
      BY <2>1, <2>4 DEF SyncOf
    <3>2. ~doubt'[r] => ~doubt[r] /\ status'[r] = sync.status
      BY <1>t, <2>1, <2>4 DEF SetCloneStatus
    <3>3. ~doubt[r] => /\ sync.status = CloneStatus(RepoCloned(r), FALSE)
                       /\ ~RemovalOf(r) /\ ~FetchOf(r) /\ ~Locked(r)
      BY <1>0, <2>1, <3>1 DEF Alone, Foreseen
    <3>4. ~doubt'[r] => Right(r)'
      BY <2>1, <3>2, <3>3 DEF Right, RepoCloned
    <3>5. QED
      BY <1>t, <2>1, <2>2, <3>2, <3>3, <3>4 DEF Alone, Foreseen, Locked
  <2>5. QED
    BY <2>3, <2>4
<1>19. ASSUME NEW c \in Tasks, ReaderEnds(c)
       PROVE  Good
  <2>1. UNCHANGED <<locks, task, dir, status, doubt>> /\ UNCHANGED otherVars
    BY <1>19, LateProgressHarmless DEF ReaderEnds
  <2>2. QED
    BY <1>k, <1>m, <2>1
<1>20. CASE Restart
  BY <1>20 DEF Restart
<1>21. CASE ProducerChecks \/ ProducerWaits \/ UNCHANGED cloneVars
  BY <1>21, <1>k, <1>m DEF ProducerChecks, ProducerWaits, cloneVars
<1>22. QED
  BY <1>1, <1>2, <1>3, <1>4, <1>5, <1>6, <1>7, <1>8, <1>9, <1>10, <1>11, <1>12, <1>13,
     <1>14, <1>15, <1>16, <1>17, <1>18, <1>19, <1>20, <1>21, <1>23
     DEF CloneNext, TaskNext, DoCloneStep, UnlockedNext
----------------------------------------------------------------------------
\* What every reachable state satisfies.
CloneInv == CloneTypeOK /\ LockInv /\ DiskInv /\ StatusInv

(***************************************************************************)
(* CloneInv is an inductive invariant of the clones.                       *)
(***************************************************************************)
THEOREM CloneInvariant == CloneSpec => []CloneInv
<1>1. CloneInit => CloneInv
  <2> SUFFICES ASSUME CloneInit PROVE CloneInv
    OBVIOUS
  <2>0. "idle" \notin LockHolding \cup Waiting
    BY DEF LockHolding, InDoClone, Waiting
  <2>s. \A r \in Repos : CloneStatus(RepoCloned(r), FALSE) \in CloneStatuses
    BY DEF CloneStatus, CloneStatuses, RepoCloned
  <2>1. CloneTypeOK
    <3>1. dir \in [Repos -> Contents] /\ tmp \in [Tasks -> Contents]
      BY DEF CloneInit, Contents
    <3>2. status \in [Repos -> CloneStatuses]
      BY <2>s DEF CloneInit
    <3>3. task \in [Tasks -> Task] /\ removal = Idle /\ fetch = Idle /\ sync = NoSync
      BY IdleTyped DEF CloneInit
    <3>4. locks \in [Repos -> Tasks \cup {NoLock, Abandoned}] /\ queue \in Seq(Tasks)
      BY DEF CloneInit
    <3>5. /\ done \in [Tasks -> BOOLEAN] /\ reader \in [Tasks -> Repos \cup {NoRepo}]
          /\ producer = "top" /\ doubt \in [Repos -> BOOLEAN] /\ crashes \in Nat
      BY DEF CloneInit
    <3>6. QED
      BY <3>1, <3>2, <3>3, <3>4, <3>5, IdleTyped DEF CloneTypeOK, Task
  <2>2. LockInv
    BY <2>0, IdleTyped DEF CloneInit, LockInv, LockHasOwner, QueueInv, ReaderInv
  <2>3. DiskInv
    BY IdleTyped DEF CloneInit, DiskInv
  <2>4. StatusInv
    BY IdleTyped DEF CloneInit, StatusInv, Alone, Foreseen, Right, RemovalOf, FetchOf,
         SyncOf, Locked
  <2>5. QED
    BY <2>1, <2>2, <2>3, <2>4 DEF CloneInv
<1>2. CloneInv /\ [CloneNext]_cloneVars => CloneInv'
  BY CloneTypeStep, LockStep, DiskStep, StatusStep DEF CloneInv
<1>3. QED
  BY <1>1, <1>2, PTL DEF CloneSpec

(***************************************************************************)
(* No directory in the repository tree is an incomplete clone, whoever     *)
(* clones, overwrites or removes it and wherever gitserver is killed.      *)
(***************************************************************************)
THEOREM ClonesComplete == CloneSpec => []CompleteOrAbsent
<1>1. CloneInv => CompleteOrAbsent
  BY DEF CloneInv, DiskInv, CompleteOrAbsent
<1>2. QED
  BY <1>1, CloneInvariant, PTL

(***************************************************************************)
(* The lock of a repository belongs to the one task that works on it.      *)
(***************************************************************************)
THEOREM LocksOwned == CloneSpec => []LockHasOwner
<1>1. CloneInv => LockHasOwner
  BY DEF CloneInv, LockInv
<1>2. QED
  BY <1>1, CloneInvariant, PTL

(***************************************************************************)
(* The final rename of a clone finds its destination free.                 *)
(***************************************************************************)
THEOREM RenameSucceeds == CloneSpec => []DestinationFree
<1>1. CloneInv => DestinationFree
  BY DEF CloneInv, DiskInv, DestinationFree
<1>2. QED
  BY <1>1, CloneInvariant, PTL

(***************************************************************************)
(* When nothing is under way, clone_status is what is on disk, unless one  *)
(* of the listed causes of doubt has come up since the last operation that *)
(* ran by itself.                                                          *)
(***************************************************************************)
THEOREM StatusBelieved == CloneSpec => []StatusTrue
<1>1. CloneInv => StatusTrue
  <2> SUFFICES ASSUME CloneInv, NEW r \in Repos, ~doubt[r], ~Locked(r), ~Busy(r)
               PROVE  status[r] = CloneStatus(RepoCloned(r), FALSE)
    BY DEF StatusTrue
  <2>1. ~RemovalOf(r) /\ ~FetchOf(r) /\ ~SyncOf(r)
    BY DEF Busy, RemovalOf, FetchOf, SyncOf
  <2>2. QED
    BY <2>1 DEF CloneInv, StatusInv, Foreseen, Right
<1>2. QED
  BY <1>1, CloneInvariant, PTL
=============================================================================
