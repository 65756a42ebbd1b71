----------------------------- MODULE RepoClone -----------------------------
(***************************************************************************)
(* The repositories on the disk of one gitserver: how they are cloned,     *)
(* cloned again and removed, and what the database is told about it        *)
(* (cmd/gitserver/server: server.go, lock.go, clone.go, cleanup.go,        *)
(* repo_info.go and common/queue.go).                                      *)
(*                                                                         *)
(* A task is a call of cloneRepo, with the goroutine that goes on with     *)
(* doClone.  Tasks of different kinds race for the lock of a repository;   *)
(* removals, fetches and the goroutine that synchronises the database with *)
(* the disk take no lock at all.  A step is what happens between two       *)
(* points where another goroutine can see or change the disk, the locks,   *)
(* the queue or the database.  git commands and database calls may fail,   *)
(* and the process may be killed and started again.                        *)
(***************************************************************************)
EXTENDS Integers, Sequences, FiniteSets

CONSTANTS
  Repos,       \* repositories, that is, their directories
  Tasks,       \* calls of cloneRepo
  CloneLimit,  \* conf.GitMaxConcurrentClones
  NoLock,      \* no entry in the map of the locker
  NoRepo,      \* no repository
  Abandoned,   \* an entry of the map whose lock nobody can release any more
  MaxCrashes   \* bound on the restarts of gitserver

ASSUME CloneAssumption ==
  /\ Repos # {}
  /\ CloneLimit \in Nat \ {0}
  /\ NoLock \notin Tasks /\ Abandoned \notin Tasks /\ NoLock # Abandoned
  /\ NoRepo \notin Repos
  /\ MaxCrashes \in Nat

VARIABLES
  dir,       \* what is in the directory of each repository
  tmp,       \* what is in the temporary directory of each task
  status,    \* gitserver_repos.clone_status
  locks,     \* RepositoryLocker.status: whose lock the entry is
  task,      \* where each task is: pc, repo, kind, and the status it reports
  done,      \* RepositoryLock.done of the lock of each task
  reader,    \* the readCloneProgress goroutine of each task: its repository
  queue,     \* CloneQueue
  producer,  \* where cloneJobProducer is
  removal,   \* removeRepoDirectory and deleteRepo: pc and repo
  fetch,     \* doBackgroundRepoUpdate: pc and repo
  sync,      \* syncRepoState: pc, repo and the status it read or will write
  doubt,     \* history: clone_status may be wrong for a reason (see Begin)
  crashes

diskVars == <<dir, tmp>>
lockVars == <<locks, done>>
pipelineVars == <<queue, producer>>
otherVars == <<removal, fetch, sync>>
cloneVars == <<dir, tmp, status, locks, task, done, reader, queue, producer,
               removal, fetch, sync, doubt, crashes>>
----------------------------------------------------------------------------
(***************************************************************************)
(* A git directory is missing, incomplete (git clone is running or was     *)
(* interrupted) or ready: git clone returned, and it has a HEAD, a type, a *)
(* last-changed stamp, attributes and a gc configuration.                  *)
(***************************************************************************)
Contents == {"none", "partial", "ready"}

CloneStatuses == {"not_cloned", "cloning", "cloned"}

\* A clone, for an update (blocking) or on request (through the queue), and the
\* re-clone of the janitor (blocking, with Overwrite).
Kinds == {"clone", "reclone"}

\* doClone runs, and holds a place of the clone limiter.
InDoClone == {"starting", "cloning", "moving", "placing", "placed", "ending",
              "reporting", "releasing"}

\* The task has the lock of its repository.
LockHolding == {"limited", "queued", "popped", "accepted"} \cup InDoClone

TaskStates == {"idle", "checking"} \cup LockHolding

NoTask == [pc |-> "idle", repo |-> CHOOSE r \in Repos : TRUE, kind |-> "clone",
           cloned |-> FALSE]
Idle   == [pc |-> "idle", repo |-> CHOOSE r \in Repos : TRUE]
NoSync == [pc |-> "idle", repo |-> CHOOSE r \in Repos : TRUE, status |-> "not_cloned"]

RepoCloned(r) == dir[r] # "none"

CloneStatus(cloned, cloning) ==
  IF cloned THEN "cloned" ELSE IF cloning THEN "cloning" ELSE "not_cloned"

\* Mutant: the last place is never given out.
LimiterFreeEarly ==
  Cardinality({c \in Tasks : task[c].pc \in InDoClone})
    + (IF fetch.pc = "idle" THEN 0 ELSE 1) + 1 < CloneLimit

\* The clone limiter has a place: doClone and fetches take one each.
LimiterFree ==
  Cardinality({c \in Tasks : task[c].pc \in InDoClone})
    + (IF fetch.pc = "idle" THEN 0 ELSE 1) < CloneLimit

Overwrite(c) == task[c].kind = "reclone"

Goto(c, pc) == task' = [task EXCEPT ![c].pc = pc]
Returns(c)  == task' = [task EXCEPT ![c] = NoTask]

(***************************************************************************)
(* doubt is what keeps a reader of clone_status from trusting it.  An      *)
(* operation that sets the status of r from what it sees on disk removes   *)
(* the doubt when it begins, unless another one is under way, which it may *)
(* overtake.  A failed write and a restart leave doubt behind.             *)
(***************************************************************************)
Locked(r) == locks[r] # NoLock
Busy(r)   == \E o \in {removal, fetch, sync} : o.pc # "idle" /\ o.repo = r

\* The operation will set the status; other is whether another is under way.
Begin(r, other) == doubt' = [doubt EXCEPT ![r] = other]

\* The operation may end without setting the status.
Join(r, other) == doubt' = [doubt EXCEPT ![r] = @ \/ other]

\* SetCloneStatus; setCloneStatusNonFatal only logs an error.
SetCloneStatus(r, s) ==
  \/ status' = [status EXCEPT ![r] = s] /\ UNCHANGED doubt
  \/ doubt' = [doubt EXCEPT ![r] = TRUE] /\ UNCHANGED status
----------------------------------------------------------------------------
(***************************************************************************)
(* The locker.                                                             *)
(***************************************************************************)
\* TryAcquire finds no entry.
Acquires(c) == locks[task[c].repo] = NoLock

\* Mutant: a lock that was released sets its status all the same.
SetStatusRevives(c) == locks' = [locks EXCEPT ![reader[c]] = c]

\* SetStatus of the lock of c, called by its reader.
SetStatus(c) ==
  locks' = IF done[c] THEN locks ELSE [locks EXCEPT ![reader[c]] = c]

\* Release of the lock of c.
Release(c) ==
  /\ locks' = IF done[c] THEN locks ELSE [locks EXCEPT ![task[c].repo] = NoLock]
  /\ done' = [done EXCEPT ![c] = TRUE]
----------------------------------------------------------------------------
CloneInit ==
  /\ dir \in [Repos -> {"none", "ready"}]
  /\ status = [r \in Repos |-> CloneStatus(RepoCloned(r), FALSE)]
  /\ tmp = [c \in Tasks |-> "none"]
  /\ locks = [r \in Repos |-> NoLock]
  /\ task = [c \in Tasks |-> NoTask]
  /\ done = [c \in Tasks |-> TRUE]
  /\ reader = [c \in Tasks |-> NoRepo]
  /\ queue = <<>>
  /\ producer = "top"
  /\ removal = Idle /\ fetch = Idle /\ sync = NoSync
  /\ doubt = [r \in Repos |-> FALSE]
  /\ crashes = 0

(***************************************************************************)
(* cloneRepo.                                                              *)
(***************************************************************************)
\* The janitor's condition, and the first look at the locker.  (An update asks
\* for a clone if it has found none, a request whatever is on disk.)
CloneRepo(c, r, kind) ==
  /\ task[c].pc = "idle" /\ reader[c] = NoRepo
  /\ kind = "reclone" => RepoCloned(r)
  /\ locks[r] = NoLock
  /\ task' = [task EXCEPT ![c] = [NoTask EXCEPT !.pc = "checking", !.repo = r,
                                                !.kind = kind]]
  /\ UNCHANGED <<diskVars, status, lockVars, reader, pipelineVars, otherVars,
                 doubt, crashes>>

\* The repository is not cloneable, or the context is canceled; or someone
\* else has the lock by now.
CloneRepoReturns(c) ==
  /\ task[c].pc = "checking"
  /\ Returns(c)
  /\ UNCHANGED <<diskVars, status, lockVars, reader, pipelineVars, otherVars,
                 doubt, crashes>>

\* TryAcquire succeeds: a blocking task waits for the limiter, the others
\* are pushed to the queue.  Push wakes the producer if it waits.
CloneRepoLocks(c) ==
  /\ task[c].pc = "checking"
  /\ Acquires(c)
  /\ locks' = [locks EXCEPT ![task[c].repo] = c]
  /\ done' = [done EXCEPT ![c] = FALSE]
  /\ \/ /\ ~Overwrite(c)
        /\ Goto(c, "queued")
        /\ queue' = Append(queue, c)
        /\ producer' = IF producer = "waiting" THEN "popping" ELSE producer
     \/ Goto(c, "limited") /\ UNCHANGED pipelineVars
  /\ Join(task[c].repo, Busy(task[c].repo))
  /\ UNCHANGED <<diskVars, status, reader, otherVars, crashes>>

\* acquireCloneLimiter gives a place to a blocking task.
LimiterAdmits(c) ==
  /\ task[c].pc = "limited"
  /\ LimiterFree
  /\ Goto(c, "starting")
  /\ UNCHANGED <<diskVars, status, lockVars, reader, pipelineVars, otherVars,
                 doubt, crashes>>

\* The context of a blocking task is done before the limiter admits it:
\* cloneRepo returns the error and keeps the lock.
LimiterRefuses(c) ==
  /\ task[c].pc = "limited"
  /\ Returns(c)
  /\ locks' = [locks EXCEPT ![task[c].repo] = Abandoned]
  /\ UNCHANGED <<diskVars, status, done, reader, pipelineVars, otherVars,
                 doubt, crashes>>

(***************************************************************************)
(* The pipeline: cloneJobProducer and cloneJobConsumer.  Push does not     *)
(* take the mutex that the producer holds between Empty and Wait.          *)
(***************************************************************************)
ProducerChecks ==
  /\ producer = "top"
  /\ producer' = IF queue = <<>> THEN "empty" ELSE "popping"
  /\ UNCHANGED <<diskVars, status, lockVars, task, reader, queue, otherVars,
                 doubt, crashes>>

ProducerWaits ==
  /\ producer = "empty"
  /\ producer' = "waiting"
  /\ UNCHANGED <<diskVars, status, lockVars, task, reader, queue, otherVars,
                 doubt, crashes>>

ProducerPops ==
  /\ producer = "popping"
  /\ \A c \in Tasks : task[c].pc # "popped"
  /\ IF queue = <<>>
     THEN producer' = "top" /\ UNCHANGED <<queue, task>>
     ELSE Goto(Head(queue), "popped") /\ queue' = Tail(queue) /\ UNCHANGED producer
  /\ UNCHANGED <<diskVars, status, lockVars, reader, otherVars, doubt, crashes>>

\* The producer sends, the consumer receives.
ConsumerReceives(c) ==
  /\ task[c].pc = "popped"
  /\ \A d \in Tasks : task[d].pc # "accepted"
  /\ Goto(c, "accepted")
  /\ UNCHANGED <<diskVars, status, lockVars, reader, pipelineVars, otherVars,
                 doubt, crashes>>

\* acquireCloneLimiter returns in the consumer, which starts a goroutine.
ConsumerStarts(c) ==
  /\ task[c].pc = "accepted"
  /\ LimiterFree
  /\ Goto(c, "starting")
  /\ UNCHANGED <<diskVars, status, lockVars, reader, pipelineVars, otherVars,
                 doubt, crashes>>

\* Only when gitserver stops, that is, before a restart: acquireCloneLimiter
\* fails in the consumer, which goes on and keeps the lock of the task.
ConsumerRefuses(c) ==
  /\ task[c].pc = "accepted"
  /\ crashes < MaxCrashes
  /\ Returns(c)
  /\ locks' = [locks EXCEPT ![task[c].repo] = Abandoned]
  /\ UNCHANGED <<diskVars, status, done, reader, pipelineVars, otherVars,
                 doubt, crashes>>
----------------------------------------------------------------------------
(***************************************************************************)
(* doClone.                                                                *)
(***************************************************************************)
\* Mutant: whether the directory exists is not checked.
MayCloneAnyway(c) == TRUE

\* The destination does not exist, or will be overwritten.
MayClone(c) == Overwrite(c) \/ dir[task[c].repo] = "none"

\* Before anything is deferred but the release of the lock: the rate
\* limiter's context is done, or the directory exists.
DoCloneRefuses(c) ==
  /\ task[c].pc = "starting"
  /\ Goto(c, "releasing")
  /\ UNCHANGED <<diskVars, status, lockVars, reader, pipelineVars, otherVars,
                 doubt, crashes>>

\* The temporary directory is made, the database is told that a repository
\* that was missing is being cloned, and git clone is started together with
\* the goroutine that reads its progress.
DoCloneStarts(c) ==
  LET r == task[c].repo
  IN  /\ task[c].pc = "starting"
      /\ MayClone(c)
      /\ Goto(c, "cloning")
      /\ tmp' = [tmp EXCEPT ![c] = "partial"]
      /\ reader' = [reader EXCEPT ![c] = r]
      /\ Begin(r, Busy(r))
      /\ \/ RepoCloned(r) /\ UNCHANGED status
         \/ ~RepoCloned(r) /\ status' = [status EXCEPT ![r] = "cloning"]
         \/ UNCHANGED status  \* SetCloneStatus failed; it is set again below
      /\ UNCHANGED <<dir, lockVars, pipelineVars, otherVars, crashes>>

\* Mutant: what comes after an interrupted git clone is done all the same.
ClonesPartly(c) ==
  /\ task[c].pc = "cloning"
  /\ Goto(c, IF Overwrite(c) THEN "moving" ELSE "placing")
  /\ UNCHANGED <<diskVars, status, lockVars, reader, pipelineVars, otherVars,
                 doubt, crashes>>

\* git clone succeeds, and so do setHEAD, setRepositoryType, setLastChanged,
\* setGitAttributes and gitSetAutoGC in the temporary directory.
Clones(c) ==
  /\ task[c].pc = "cloning"
  /\ tmp' = [tmp EXCEPT ![c] = "ready"]
  /\ Goto(c, IF Overwrite(c) THEN "moving" ELSE "placing")
  /\ UNCHANGED <<dir, status, lockVars, reader, pipelineVars, otherVars, doubt,
                 crashes>>

\* Overwrite: the old clone is moved into the temporary directory.  (An error
\* of RenameAndSync may also come from the sync, after the rename.)
MovesOld(c) ==
  /\ task[c].pc = "moving"
  /\ dir' = [dir EXCEPT ![task[c].repo] = "none"]
  /\ \E pc \in {"placing", "ending"} : Goto(c, pc)
  /\ UNCHANGED <<tmp, status, lockVars, reader, pipelineVars, otherVars, doubt,
                 crashes>>

\* The new clone is renamed to its place; again the sync may fail.
Places(c) ==
  /\ task[c].pc = "placing"
  /\ dir[task[c].repo] = "none"
  /\ dir' = [dir EXCEPT ![task[c].repo] = tmp[c]]
  /\ tmp' = [tmp EXCEPT ![c] = "none"]
  /\ \E pc \in {"placed", "ending"} : Goto(c, pc)
  /\ UNCHANGED <<status, lockVars, reader, pipelineVars, otherVars, doubt, crashes>>

\* A command or a rename fails.
DoCloneFails(c) ==
  /\ task[c].pc \in {"cloning", "moving", "placing"}
  /\ Goto(c, "ending")
  /\ UNCHANGED <<diskVars, status, lockVars, reader, pipelineVars, otherVars,
                 doubt, crashes>>

\* The deferred report, first half: repoCloned.  On success setLastFetched
\* and setRepoSize come before, best effort.
Looks(c) ==
  /\ task[c].pc \in {"placed", "ending"}
  /\ \/ task[c].pc = "placed" /\ status' = [status EXCEPT ![task[c].repo] = "cloned"]
     \/ UNCHANGED status
  /\ task' = [task EXCEPT ![c].pc = "reporting",
                          ![c].cloned = RepoCloned(task[c].repo)]
  /\ UNCHANGED <<diskVars, lockVars, reader, pipelineVars, otherVars, doubt, crashes>>

\* Mutant: only a successful clone is reported.
ReportsSuccess(c) ==
  /\ task[c].pc = "reporting"
  /\ IF task[c].cloned THEN SetCloneStatus(task[c].repo, "cloned")
                       ELSE UNCHANGED <<status, doubt>>
  /\ Goto(c, "releasing")
  /\ UNCHANGED <<diskVars, lockVars, reader, pipelineVars, otherVars, crashes>>

\* The deferred report, second half.
Reports(c) ==
  /\ task[c].pc = "reporting"
  /\ SetCloneStatus(task[c].repo, CloneStatus(task[c].cloned, FALSE))
  /\ task' = [task EXCEPT ![c].pc = "releasing", ![c].cloned = FALSE]
  /\ UNCHANGED <<diskVars, lockVars, reader, pipelineVars, otherVars, crashes>>

\* The other deferred calls: the temporary directory is removed, the lock
\* released and the place of the limiter returned.
Releases(c) ==
  /\ task[c].pc = "releasing"
  /\ tmp' = [tmp EXCEPT ![c] = "none"]
  /\ Release(c)
  /\ Returns(c)
  /\ UNCHANGED <<dir, status, reader, pipelineVars, otherVars, doubt, crashes>>

\* readCloneProgress sets the status of the lock to the last line; the pipe
\* is closed when doClone returns, but the goroutine is not waited for.
ReaderEnds(c) ==
  /\ reader[c] # NoRepo
  /\ task[c].pc \notin {"cloning", "moving", "placing", "placed"}
  /\ SetStatus(c)
  /\ reader' = [reader EXCEPT ![c] = NoRepo]
  /\ UNCHANGED <<diskVars, status, task, done, pipelineVars, otherVars, doubt,
                 crashes>>
----------------------------------------------------------------------------
(***************************************************************************)
(* The goroutines that do not take the lock.                               *)
(***************************************************************************)
\* removeRepoDirectory moves an existing directory away; if only the sync
\* fails, it returns without setting the status ...
Removes(r) ==
  /\ removal.pc = "idle"
  /\ RepoCloned(r)
  /\ dir' = [dir EXCEPT ![r] = "none"]
  /\ \/ removal' = [pc |-> "moved", repo |-> r] /\ Begin(r, Locked(r) \/ Busy(r))
     \/ Begin(r, TRUE) /\ UNCHANGED removal
  /\ UNCHANGED <<tmp, status, lockVars, task, reader, pipelineVars, fetch, sync,
                 crashes>>

\* ... and sets the status, for the janitor or for deleteRepo.
RemovalReports ==
  /\ removal.pc = "moved"
  /\ SetCloneStatus(removal.repo, "not_cloned")
  /\ \/ removal' = Idle
     \/ removal' = [removal EXCEPT !.pc = "deleting"]
  /\ UNCHANGED <<diskVars, lockVars, task, reader, pipelineVars, fetch, sync,
                 crashes>>

\* deleteRepo finds no directory.
DeletesMissing(r) ==
  /\ removal.pc = "idle"
  /\ ~RepoCloned(r)
  /\ removal' = [pc |-> "deleting", repo |-> r]
  /\ Begin(r, Locked(r) \/ Busy(r))
  /\ UNCHANGED <<diskVars, status, lockVars, task, reader, pipelineVars, fetch,
                 sync, crashes>>

\* deleteRepo sets the status after all.
DeleteReports ==
  /\ removal.pc = "deleting"
  /\ SetCloneStatus(removal.repo, "not_cloned")
  /\ removal' = Idle
  /\ UNCHANGED <<diskVars, lockVars, task, reader, pipelineVars, fetch, sync,
                 crashes>>

\* doBackgroundRepoUpdate gets a place of the limiter and fetches into a
\* directory ...
Fetches(r) ==
  /\ fetch.pc = "idle"
  /\ RepoCloned(r)
  /\ LimiterFree
  /\ fetch' = [pc |-> "fetching", repo |-> r]
  /\ Join(r, Locked(r) \/ Busy(r))
  /\ UNCHANGED <<diskVars, status, lockVars, task, reader, pipelineVars, removal,
                 sync, crashes>>

\* ... and ends with setLastFetched and setRepoSize, which set the status
\* too, or fails.
FetchEnds ==
  /\ fetch.pc = "fetching"
  /\ \/ status' = [status EXCEPT ![fetch.repo] = "cloned"]
     \/ UNCHANGED status
  /\ fetch' = Idle
  /\ UNCHANGED <<diskVars, lockVars, task, reader, pipelineVars, removal, sync,
                 doubt, crashes>>

\* syncRepoState reads a row with its page ...
SyncReads(r) ==
  /\ sync.pc = "idle"
  /\ sync' = [pc |-> "read", repo |-> r, status |-> status[r]]
  /\ Begin(r, Locked(r) \/ Busy(r))
  /\ UNCHANGED <<diskVars, status, lockVars, task, reader, pipelineVars, removal,
                 fetch, crashes>>

\* ... and comes to it later: it looks at the disk and the locker, and adds the
\* row to its batch if it differs from what it has read, or names another
\* shard; otherwise it leaves the table alone, whatever is there by now ...
SyncLooks ==
  LET seen == CloneStatus(RepoCloned(sync.repo), Locked(sync.repo))
  IN  /\ sync.pc = "read"
      /\ \/ sync' = [sync EXCEPT !.pc = "batched", !.status = seen]
         \/ sync.status = seen /\ sync' = NoSync
      /\ UNCHANGED <<diskVars, status, lockVars, task, reader, pipelineVars, removal,
                     fetch, doubt, crashes>>

\* ... and writes the batch once it is full, as the rate limiter allows.
SyncWrites ==
  /\ sync.pc = "batched"
  /\ SetCloneStatus(sync.repo, sync.status)
  /\ sync' = NoSync
  /\ UNCHANGED <<diskVars, lockVars, task, reader, pipelineVars, removal,
                 fetch, crashes>>

\* gitserver is killed and started again: SetupAndClearTmp removes what the
\* tasks left behind.
Restart ==
  /\ crashes < MaxCrashes
  /\ crashes' = crashes + 1
  /\ tmp' = [c \in Tasks |-> "none"]
  /\ locks' = [r \in Repos |-> NoLock]
  /\ task' = [c \in Tasks |-> NoTask]
  /\ done' = [c \in Tasks |-> TRUE]
  /\ reader' = [c \in Tasks |-> NoRepo]
  /\ queue' = <<>> /\ producer' = "top"
  /\ removal' = Idle /\ fetch' = Idle /\ sync' = NoSync
  /\ doubt' = [r \in Repos |-> TRUE]
  /\ UNCHANGED <<dir, status>>
----------------------------------------------------------------------------
DoCloneStep(c) ==
  \/ DoCloneRefuses(c) \/ DoCloneStarts(c) \/ Clones(c) \/ MovesOld(c)
  \/ Places(c) \/ DoCloneFails(c)
  \/ Looks(c) \/ Reports(c) \/ Releases(c)

TaskNext(c) ==
  \/ \E r \in Repos, kind \in Kinds : CloneRepo(c, r, kind)
  \/ CloneRepoReturns(c) \/ CloneRepoLocks(c)
  \/ LimiterAdmits(c) \/ LimiterRefuses(c)
  \/ ConsumerReceives(c) \/ ConsumerStarts(c) \/ ConsumerRefuses(c)
  \/ DoCloneStep(c) \/ ReaderEnds(c)

UnlockedNext ==
  \/ \E r \in Repos : Removes(r) \/ DeletesMissing(r) \/ Fetches(r) \/ SyncReads(r)
  \/ RemovalReports \/ DeleteReports \/ FetchEnds \/ SyncLooks \/ SyncWrites

CloneNext ==
  \/ \E c \in Tasks : TaskNext(c)
  \/ ProducerChecks \/ ProducerWaits \/ ProducerPops
  \/ UnlockedNext
  \/ Restart

CloneSpec == CloneInit /\ [][CloneNext]_cloneVars

(***************************************************************************)
(* Goroutines that can run do run, and git commands end, by a timeout if   *)
(* need be.  A task that waits for the limiter gets its place: the limiter *)
(* serves its callers in order (AcquireReturns of MutableLimiter).         *)
(***************************************************************************)
CloneFairness ==
  /\ \A c \in Tasks :
       /\ WF_cloneVars(\/ CloneRepoReturns(c) \/ CloneRepoLocks(c)
                      \/ ConsumerReceives(c) \/ DoCloneStep(c))
       /\ SF_cloneVars(LimiterAdmits(c) \/ ConsumerStarts(c))
  /\ WF_cloneVars(FetchEnds)
  /\ WF_cloneVars(ProducerChecks \/ ProducerWaits \/ ProducerPops)

FairCloneSpec == CloneSpec /\ CloneFairness
----------------------------------------------------------------------------
\* The disk, the database and the goroutines are well formed.
CloneTypeOK ==
  /\ dir \in [Repos -> Contents] /\ tmp \in [Tasks -> Contents]
  /\ status \in [Repos -> CloneStatuses]
  /\ locks \in [Repos -> Tasks \cup {NoLock, Abandoned}]
  /\ task \in [Tasks -> [pc : TaskStates, repo : Repos, kind : Kinds, cloned : BOOLEAN]]
  /\ done \in [Tasks -> BOOLEAN] /\ reader \in [Tasks -> Repos \cup {NoRepo}]
  /\ queue \in Seq(Tasks)
  /\ producer \in {"top", "empty", "waiting", "popping"}
  /\ removal \in [pc : {"idle", "moved", "deleting"}, repo : Repos]
  /\ fetch \in [pc : {"idle", "fetching"}, repo : Repos]
  /\ sync \in [pc : {"idle", "read", "batched"}, repo : Repos, status : CloneStatuses]
  /\ doubt \in [Repos -> BOOLEAN] /\ crashes \in Nat

(***************************************************************************)
(* A directory in the repository tree is a complete clone, also after a    *)
(* crash, and whoever removes or overwrites it meanwhile: "We clone to a   *)
(* temporary location first to avoid having incomplete clones in the repo  *)
(* tree" (server.go, cloneRepo).  (With the types.)                        *)
(***************************************************************************)
CompleteOrAbsent ==
  /\ CloneTypeOK
  /\ \A r \in Repos : dir[r] \in {"none", "ready"}

(***************************************************************************)
(* Whoever works on a repository in cloneRepo has its lock, so that no two *)
(* clones of it run; and an entry of the locker belongs to a task that     *)
(* will still release it, although progress lines that come late are       *)
(* written to it by another goroutine.  The exceptions are the two places  *)
(* where acquireCloneLimiter fails and the lock is not released: the       *)
(* context of a blocking task is done while it waits (LimiterRefuses), and *)
(* the consumer is told to stop (ConsumerRefuses).                         *)
(***************************************************************************)
LockHasOwner ==
  \A r \in Repos, c \in Tasks :
    locks[r] = c <=> task[c].repo = r /\ task[c].pc \in LockHolding

(***************************************************************************)
(* A clone finds its destination free when it comes to the final rename,   *)
(* hours after doClone looked (os.Rename would fail, and the work be       *)
(* lost): nobody else has put a clone there meanwhile.                     *)
(***************************************************************************)
DestinationFree ==
  \A c \in Tasks : task[c].pc = "placing" => dir[task[c].repo] = "none"

(***************************************************************************)
(* When nothing is under way, clone_status says what is on disk, whether   *)
(* the last clone succeeded, failed or found the directory removed; it may *)
(* be wrong only if two operations on the repository overlapped, a write   *)
(* failed or gitserver was restarted, and no clone, removal or             *)
(* synchronisation of this repository has run by itself since: a           *)
(* synchronisation from the reading of the page to the end, because it     *)
(* does not write what agrees with the row it has read.                    *)
(***************************************************************************)
StatusTrue ==
  \A r \in Repos :
    ~doubt[r] /\ ~Locked(r) /\ ~Busy(r) =>
      status[r] = CloneStatus(RepoCloned(r), FALSE)

\* A job lies in the queue and nobody will take it out: its Push came after
\* the producer had seen an empty queue and before it waited.
Stranded == producer = "waiting" /\ queue # <<>>

(***************************************************************************)
(* A repository does not stay locked: every clone that was accepted is     *)
(* carried out or fails, and its repository can be cloned again.  The code *)
(* keeps this but for two cases: a lock that was abandoned (LimiterRefuses *)
(* and ConsumerRefuses), and a job that lies in the queue until the next   *)
(* Push.                                                                   *)
(***************************************************************************)
LockReleased ==
  \A r \in Repos :
    Locked(r) ~> locks[r] \in {NoLock, Abandoned} \/ Stranded
============================================================================
