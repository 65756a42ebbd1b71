# Gatherstack in TLA+

Gatherstack is a fork of the open-source parts of Sourcegraph: services written
in Go that mirror repositories of code hosts, index them and search them. This
project models the parts of it where processes, goroutines and database
statements interleave, checks the models with TLC and proves their most
important properties with TLAPS.

Every definition stands for lines of `src/`; `PROJECT.json` ("map") says which.

## Inventory

| Component | State | Operations | Interacts with | What makes it correct |
|---|---|---|---|---|
| Job store, `internal/workerutil/dbworker/store` | one table row per record: state, cancel, counters, timestamps, hostname | Dequeue, Heartbeat, Requeue, MarkComplete, MarkErrored, MarkFailed, ResetStalled | PostgreSQL row locks; workers, resetter, producers, cancellation API | attempts are bounded, finished records stay finished, cancellations are not lost |
| Worker, `internal/workerutil` (`worker.go`, `idset.go`), `dbworker/store_shim.go` | semaphore, IDSet, WaitGroup, contexts | dequeue loop, handler goroutines, heartbeat goroutine, Stop | job store | no two live handlers of one record, permits do not leak, every record is finished, Stop returns |
| Resetter, `dbworker/resetter.go` | none | periodic ResetStalled | job store | orphaned records come back |
| Sync jobs, `internal/repos/sync_worker.go`, `store.go`, `internal/database/external_services.go` | table `external_service_sync_jobs` | enqueue (periodic, single), cancel, clean up | an instance of store and worker | at most one active job per external service |
| Outbound webhooks, `cmd/worker/internal/outboundwebhooks` | table `outbound_webhook_jobs` | enqueue, handle | an instance of store and worker | every payload is sent or its job failed |
| Update scheduler, `internal/repos/scheduler.go` | schedule heap, update queue heap, wakeup channels, timer | UpdateFromDiff, UpdateOnce, PrioritiseUncloned, schedule and update loops, reset on a configuration change | syncer, gitserver, limiter | no lost wakeup, one update of a repository at a time, intervals within their limits |
| Mutable limiter, `internal/limiter` | list of cancel functions, limit | Acquire, release, SetLimit | update loop, gitserver | a semaphore whose limit may change at any time |
| Repository syncer, `internal/repos/syncer.go`, `purge.go` | tables `repo`, `external_service_repos` | streaming sync, single sync, delete | sync jobs, scheduler | a failed or partial listing deletes nothing, renames do not collide |
| gitserver, clones: `cmd/gitserver/server` (`server.go`, `lock.go`, `cleanup.go`, `repo_info.go`, `common/queue.go`) | directories on disk, locks, clone queue, `gitserver_repos.clone_status` | cloneRepo (blocking, queued, overwriting), removal, state synchronisation, janitor | scheduler, limiter, database | a repository on disk is complete or absent, its lock is released, its status is right |
| gitserver, fetches: `server.go` (doRepoUpdate, serverContext, Stop) | a `sync.Once` and a mutex per repository, a WaitGroup | update, shared fetch, timeout, Stop | scheduler, limiter, code host | a caller is served by a fetch that is not older than its call, Stop returns when all is done |
| Out-of-band migrations, `internal/oobmigration` | progress, direction | runner loop, refresh | migrators | one migrator at a time, no work after completion |
| Schema migrations, `internal/database/migration/runner` | migration log, advisory lock, indexes | up, down, validate, concurrent index creation | all instances at startup | each migration is applied once, in order, and logged truthfully |
| Transactions, `internal/database/basestore` | stack of savepoints | Transact, Done | every store | innermost savepoint first |
| Configuration, `internal/conf` | cached configuration, watchers | fetch, Watch, Write | every service | watchers see the last value |
| Disk cache, `internal/diskcache`; endpoint map, `internal/endpoint`; Redis caches and locks, `internal/rcache`, `internal/redislock`, `internal/redispool`; periodic goroutines, `internal/goroutine` | caches, locks | open, evict, lookup, lock | searcher, symbols, all | no torn entry, mutual exclusion, clean shutdown |

Not candidates for modelling: the web client (`client/`), GraphQL and HTTP
handlers (`cmd/frontend`), clients of code hosts (`internal/extsvc`), parsers
and converters (`lib/codeintel`, `internal/search/query`), generated code,
build files and images.

What is hard in this code, line by line, is the list "hazards" of
`PROJECT.json`.

## Modules

| Module | Models | Composes |
|---|---|---|
| `WorkerStore` | the job table and every statement that writes it | |
| `WorkerPool` | workers, handlers, heartbeats, resetter, faults and crashes | extends `WorkerStore` |
| `MutableLimiter` | semaphores whose limit changes | |
| `UpdateScheduler` | schedule, update queue and their loops in repo-updater | extends `MutableLimiter` |
| `Semaphore` | what a limiter promises (abstract) | |
| `RepoUpdate` | updates of cloned repositories, the server's contexts and Stop | extends `MutableLimiter`; instantiates `Semaphore` |
| `RepoClone` | clones, re-clones, removals, the clone queue, the clone status | |
| `MigrationRunner` | concurrent migrators and validators of one schema | |
| `..._proof` | the theorems of each module but `Semaphore`, whose refinement is in `RepoUpdate_proof` | extend the modules above |
| `MC...` | instances for TLC | extend the modules above |

### WorkerStore

`jobs` is the table. A row has the columns that the statements read or write;
a timestamp is a Boolean that answers the one question a statement asks of it:

| Column | In the model |
|---|---|
| `state`, `cancel`, `num_resets`, `num_failures`, `worker_hostname` | themselves |
| `last_heartbeat_at` | `stalled`: older than `StalledMaxAge` |
| `process_after` | `delayed`: in the future |
| `finished_at` | `cooled`: more than `RetryAfter` ago |
| `queued_at`, `started_at`, `failure_message`, `execution_logs` | left out: no statement decides on them |

Every SQL statement is an action, and the row it writes an operator of its own
(`ErroredRow`, `ResetRow`, ...). The statements run outside of transactions and
lock the rows that they write, so each is atomic. Dequeue is two actions,
because its candidates come from the statement's snapshot
(`DequeueSelect`) while the row lock and "Recheck state" see the current row
(`DequeueClaim`). The time passes in `Stall`, `ProcessAfterPasses` and
`CoolDown`. `dequeues` and `requeues` are history variables that count.
Enqueueing, cancelling and cleaning are taken from the sync jobs.

`StoreSpec` lets any client call any operation at any time: what holds of it
does not depend on the workers' good behaviour.

### WorkerPool

| Code | In the model |
|---|---|
| `handlerSemaphore` | `permits[w]` |
| `runningIDSet` | `running[w][j]`: the attempt whose cancel function is registered, or 0 |
| the handler goroutine and its context | `attempts[<<j, n>>]`: program counter, worker, canceled |
| the loop of `Start` and `dequeueAndHandle` | `loop[w]`: idle, selecting (inside Dequeue), adding (before `Add`), draining (`wg.Wait`), finished |
| the heartbeat goroutine | `heart[w]`: what it sliced, and what of the answer it has still to apply |
| `dequeueCancel` | `stopping[w]` |

The n-th time record j is moved to processing starts attempt `<<j, n>>`; the
bound proved as `PoisonBounded` makes the set of attempts finite.

`handle` takes three steps (Handle returns, the Mark call, the deferred
function), and the deferred function two, because it returns the permit before
it removes the identifier. The heartbeat goroutine removes and cancels one
identifier per step, so that a dequeue may come between any two. A failing
database call may have been committed or not. A crash removes the worker's
goroutines and its IDSet and leaves the rows; a restarted worker is another
member of `Hosts`. Hooks, `NumTotalJobs`, `MaxActiveTime` and
`MaximumRuntimePerJob` are set by no caller in the repository.

### MutableLimiter

A limiter is a goroutine that owns the list `cancelFuncs[l]` of acquired
contexts; `acquire[l]` are the callers that are blocked on its channel, in the
order in which Go serves them. `call[c]` says where a caller is and whether its
context has been canceled: by the parent, or by a `SetLimit` that removed it
from the list while it works on. One turn of `do` is one step.

### UpdateScheduler

| Code | In the model |
|---|---|
| `schedule.index` and its heap | `schedule[r]`: the interval, and the ticks until `Due` (0: due) |
| `schedule.timer` | `timer`: ticks until it expires; `firing`: its function runs, which `Stop` does not stop any more |
| `schedule.wakeup`, `updateQueue.notifyEnqueue` | the number of the channel in the field, and which channels, replaced ones too, hold a value |
| `updateQueue.heap`, `index`, `seq` | `queue`: the entries in the order of `Seq`; `NextIndexes` is the head of the heap, `Place(r)` what `index` finds |
| `runScheduleLoop`, `runUpdateLoop` of one call of `RunScheduler` | `scheduleLoop[g]`, `updateLoop[g]`: program counter, and the channel it selects on |
| the goroutine of an update | `update[c]`, with the limiter call `c` that gave it its slot |
| `watchSyncer` between the two halves of an upsert or remove | `relay` |

`RunScheduler` stops the loops and starts new ones without waiting for the old
ones, so that loops of several generations run at a time. Each has a limiter of its
own. A step is a critical section of one of the two mutexes; only `runSchedule`
keeps `schedule.mu` over several, because it enqueues in between (`Unlocked`).
Repositories that are past due are enqueued in any order: by how much they are
late is not kept. `auto` is the configuration; callers look at it once and may
act on what they saw (`AutoSeen`). `Wanted` are the intervals that a rule or
an answer of gitserver may ask for, besides the doubled one.

### Semaphore and RepoUpdate

`Semaphore` is the abstract specification of a limiter: a set of holders and a
bound; a place is given out only if there is one, and a new bound takes away
as many places as it must and no more. `RepoUpdate` maps `limit` to `bound` and the
members of `cancelFuncs` to `held` (`CloneSemaphore`, an `INSTANCE ... WITH`), and
`ImplementsSemaphore` is checked of the system in which updates, a clone and the
configuration use the limiter.

| Code | In the model |
|---|---|
| the goroutine of `doRepoUpdate` | `update[u].pc` |
| the `sync.Once` a call has got | `update[u].once`: the current one, one whose leader has replaced it, or one that has run |
| `repoUpdateLocks[repo].mu` | `mu[r]` |
| `Server.ctx`, `canceled`, `wg` | `stop` (running, canceled, flagged, stopped), `wg` |
| the code host and the clone | `upstream[r]`, `disk[r]`: versions |

Updates that carry the same Once are found by its state (`Sharing`): at most one
Once of a repository is current, and at most one is being run by the holder of the
mutex. `wanted` is history: what the code host had when the call was made. A
caller that gives up leaves its goroutine behind, so that it needs no action. A
Once that has run is "ok" or "failed" by its fetch; what a caller who joined is
told is another matter (see Disagreements).

### RepoClone

| Code | In the model |
|---|---|
| a directory under `ReposDir`; the directory of `tempDir("clone-")` | `dir[r]`, `tmp[c]`: none, partial (git clone has not returned), ready |
| `gitserver_repos.clone_status` | `status[r]` |
| `RepositoryLocker.status`, `RepositoryLock.done` | `locks[r]`: whose lock the entry is; `done[c]` |
| `cloneRepo` and the goroutine that runs `doClone` | `task[c]` |
| `readCloneProgress` | `reader[c]` |
| `CloneQueue`, `cloneJobProducer` | `queue`, `producer` (waiting: inside `Cond.Wait`) |
| `removeRepoDirectory` and `deleteRepo`, `doBackgroundRepoUpdate`, `syncRepoState` | `removal`, `fetch`, `sync`: one of each at a time |

A step is what happens between two points where others can see or change the
disk, the locks, the queue or the database. A clone blocks or goes through the queue;
the janitor's re-clone overwrites and blocks. `syncRepoState` is three steps: it reads the rows of a page
(`SyncReads`), comes to a row later and looks at the disk and the locker (`SyncLooks`),
and writes the batch later still (`SyncWrites`). A row that agrees with what was read
is left alone, whatever the table says by then; a row with another shard is written
in any case.

`doubt[r]` is history: it says that the status may be wrong because operations on r
overlapped, a write failed or gitserver was restarted, and it ends when an operation
that sets the status from the disk begins alone. The synchronisation begins with the
reading of its page. `Abandoned` stands for an entry whose lock nobody can release: of a
blocking clone that gave up waiting (`LimiterRefuses`), or of a queued one whose consumer was told to
stop (`ConsumerRefuses`, only before a restart).

### MigrationRunner

| Code | In the model |
|---|---|
| the session-level advisory lock | `lock` |
| the newest row of `migration_logs` of a version | `log[d]`, and who will update it |
| `pg_index`, `pg_stat_progress_create_index` | `index[d]` |
| the effect of a transaction | `applied[d]`: how often it was committed |
| `runSchema`, `validateSchema` and what they call | `runner[i]` |

A step is a statement sent to PostgreSQL. A `CREATE INDEX CONCURRENTLY` is two:
it gets the lock of the table (it waits for another creation), and it ends; it may
fail in both. The repair of an invalid index is a transaction of two steps: it
begins, which dates the row that it logs (`DropBegins`: `NOW()` is the start of the
transaction), and it drops the index, which waits for a creation under way (`Drop`).
A row that somebody inserts in between stays the newest; `later` in `log[d]` tells.
Indexes are absent, invalid or valid at first: an invalid one was left behind by an
earlier installation, and is repaired without any failure in the model. All
migrations of this repository that create an index concurrently say `IF NOT
EXISTS`; `IfNotExists` keeps the other case, which `createIndexConcurrently`
handles. `spoiled` is history (see Disagreements). Definitions are numbered in
the order of their graph.

## Runs

| Run | Bounds | Shows |
|---|---|---|
| `store` | 1 record, 2 hosts, 2 resets, 2 retries, 2 requeues | `PoisonBound`, `TerminalIsFinal`, `CancelSticks` |
| `pool_untimely` | 1 record, 2 workers with 2 handlers, 1 reset, 1 fault, heartbeats may be late | `PermitsConserved`, `NoOrphanHandler`, `NoDanglingID`, `CanceledForThatReason` |
| `pool_faults` | 1 record, 2 workers with 2 handlers, 2 resets, 2 faults, timely heartbeats | `OneLiveHandler` |
| `pool_healthy` | 2 records, 2 workers with 1 handler, 1 reset, no faults | `OwnMarks` |
| `pool_live` | 1 record, 1 reliable and 1 unreliable worker, 1 reset, 2 retries | `EventuallyFinished`, `StopReturns` |
| `pool_cancel_live` | the same without retries, late heartbeats, 1 fault, handlers that run forever | `CancelObeyed` |
| `scheduler_queue` | 2 scheduled repositories, 2 update slots, delays of 2, jitter of a half, an answer that asks for an interval of -1 | `NotifyLossless`, `OneUpdate`, `ScheduleAwake`, `IntervalsBounded` |
| `scheduler_restart` | 1 repository that queries find and UpdateOnce is called for, 3 generations of loops (on, off, on), 1 limiter call | `ScheduleAwake`, `LoopCanWake` |
| `scheduler_live` | 2 repositories, one scheduled, both also updated by hand, 1 slot | `EventuallyUpdated`, `ScheduledUpdated` |
| `repo_update` | 2 updates of 1 repository, 1 clone in the limiter, limits 0, 1 and none, 1 push, Stop | `Fresh`, `OneFetch`, `Stopped`, `UpdateAnswered`, `StopEnds`; of the limiter `HoldersListed`, `AcquireReturns`, `ImplementsSemaphore` |
| `clone` | 2 clones of any kind of 1 repository, 1 place in the limiter, 1 restart, any number of removals, fetches and synchronisations | `CompleteOrAbsent`, `LockHasOwner`, `DestinationFree`, `StatusTrue`, `LockReleased` |
| `migrations` | 2 runners that start any number of times, 4 migrations of which 2 create an index, one with `IF NOT EXISTS`; 2 failures or kills | `AppliedOnce`, `InOrder`, `LogTrue`, `NoFalseAlarm`, `RunnerEnds` |

The type invariants of the scheduler, `RepoUpdate`, `RepoClone` and
`MigrationRunner` are conjuncts of `ScheduleAwake`, `Stopped`,
`CompleteOrAbsent` and `AppliedOnce`.

Why the bounds are enough: statements treat rows independently of each other,
so one record shows what statements can do to it; its two hosts are an owner
and a successor, and two resets or retries are the first and the last. The
store has also been checked with two records (1,071,019 states, nothing
found). Two handlers per worker are needed for a record to meet itself on one
worker, which is where the IDSet is hard. Two records on single-handler workers
make the loop wait for the semaphore. `MaxFaults` bounds failing database
calls; the proved properties do not depend on any of these bounds.

For the scheduler, two repositories show every order in the queue and at the
head of the schedule, and two slots an update next to an idle loop. A generation
has a schedule loop only while updates are automatic, so that it takes three, on,
off and on again, for two schedule loops to live side by side and the reset of the
first to come after the last has begun to wait. `scheduler_restart` leaves out the diffs of
the syncer, which add and remove as the other callers and finished updates do, and are in the
other runs and in the theorems. `scheduler_queue` has low priorities only and a
symmetry that swaps the repositories; `scheduler_live` has both priorities, and
one limiter call, so that a loop without a slot waits before `Acquire` instead of
inside; that `Acquire` returns is checked in `repo_update`. The jitter is half an interval instead of 5%, so that
it is visible in intervals of 1 and 2 ticks. Loops of one generation and of several
are checked apart: across a restart `NotifyLossless`, `OneUpdate` and
`EventuallyUpdated` do not hold.

For gitserver, locks, mutexes and directories belong to one repository, so that
two tasks on one repository meet in every way; one place in the limiter makes
them, and the fetch, wait for each other. Two updates are a leader and one that
joins it or leads the next Once; a third caller of the limiter makes a limit of 1
take places away. One push lies before or after every step of an update. One
restart comes at any moment. For the migrations, two indexes between two
transactions show what comes before and after a lock that was given up, and two
failures a repair that fails. Three runners with three migrations and one failure
have also been checked for the invariants (441,919 states, nothing found).

`CHECK_DEADLOCK FALSE` in the configurations of the pool, of `repo_update`, `clone`
and `migrations`: a system whose records are finished and whose workers have
stopped is at rest, and so are a stopped server, callers that call no more, and
migrators that have ended.

`TimelyHeartbeats` says that a record that is registered on some worker, or
about to be, does not become stale. The sync workers send heartbeats every 15
seconds with a `StalledMaxAge` of 30. The outbound webhooks have 10 seconds for
both, and live with what `pool_untimely` shows.

Fairness (`Fairness` in `WorkerPool`): goroutines that can run do run, the
resetter and the dequeue loop poll (they are loops over timers), time passes,
and a database call returns. `HandlersReturn` is the assumption that handlers
return by themselves; `CancelObeyed` is checked without it, and then a handler
only returns once its context is canceled. All of it is weak fairness. Nothing
is assumed of producers, cancellations, Stop, crashes and faults; only
`EventuallyFinished` needs one worker that is not taken away (`Reliable`).

`LimiterFairness`: the limiter's goroutine serves its channels, and holders call
cancel, which "must be called". `SchedulerFairness`: goroutines that can run do
run, time passes, timers fire, the callback of a changed configuration is
called, and requests to gitserver return (they have a timeout). An update
goroutine that waits for `schedule.mu` gets it although the schedule loop takes
it again and again, because a Go mutex hands itself to a waiter that starves:
this needs strong fairness. Callers are not fair.

`UpdateFairness`: goroutines run, the limiter serves its channels, the other
holders of a place return it, and the timeout of an update strikes some day. The
callers, the code host and Stop are not fair; once Stop is called it goes on.
`CloneFairness`: goroutines run and git commands end, by their timeout if need be;
a task that waits for the limiter gets a place (strong fairness, because the limiter
serves its callers in order, which is `AcquireReturns`). `MigrationFairness`:
migrators run and PostgreSQL answers; a migrator that polls for the lock gets it if
it is free again and again (strong fairness: in the model others may start for
ever, while real ones poll once a second and end).

### Disagreements

Where the code does something else than a comment, a document or another part
of it says. TLC shows the first six when the formula in brackets is checked as an
invariant of the named configuration. Where the system has a property but for such
a case, the property names the case as its exception.

* "If the context is canceled, and the job is still part of the running ID set,
  we know that it has been canceled for that reason" (`worker.go:431`). The
  identifier may have been registered again by the next attempt: with two handlers
  and a stalled record, an old handler that was told to stop because it lost its
  record takes it for canceled and fails the record of the new attempt
  (`attempts[a].canceled /\ running[attempts[a].worker][a[1]] # 0 => jobs[a[1]].cancel` for all
  `a` in `PoolUntimely.cfg`). It is true of the attempt that is registered, which
  is what `CanceledForThatReason` says.
* `notifyEnqueue` is there "so that the update loop can wake up if it is idle"
  (`scheduler.go:504`). The new update loop may select on the channel that the old
  one is about to replace (`scheduler.go:533`); nobody wakes it up before the next
  restart (`LoopCanWake` in `SchedulerRestart.cfg` without `Overtaken`).
* The same of the schedule loop and `wakeup` (`scheduler.go:889`), when updates are
  turned off and on again: the first loop has not ended, the third generation's
  selects, and then the first resets the schedule. The timer that is set from then on
  sends to a channel on which nobody waits (the last conjunct of `ScheduleAwake` in
  `SchedulerRestart.cfg` without `Overtaken`; 9 states).
* "When finished with the lock you must call lock.Release" (`lock.go:29`).
  A blocking `cloneRepo` whose context is done while it waits for the limiter
  returns without (`server.go:2224`): the repository counts as being cloned
  until gitserver is restarted (`locks[r] # Abandoned` in `Clone.cfg`). The consumer of
  the queue does the same when gitserver shuts down (`server.go:664`).
* A failed creation of an index is retried "so that we do not prematurely begin to
  apply the next migration, which may assume the successful creation of the index"
  (`run.go:489`). If two migrators create an index and the first one's attempt fails,
  the second finds an invalid index of that name. With `IF NOT EXISTS` its command
  succeeds without doing anything; without, the error is silenced before the log is
  written. Either way the log says that the migration is applied, and the next
  ones are (`LogTrue` and `InOrder` in `Migrations.cfg` without `spoiled`).
* "An error is returned only if user intervention is deemed a necessity"
  (`run.go:74`). The row of an index is pending before its creation can be seen in
  the catalogs and after it has left them; a migrator that looks then returns
  the "dirty database" error while nothing has failed (`NoFalseAlarm` in
  `Migrations.cfg` without the exception for indexes).

Visible in the models:

* `MarkErrored` and `MarkFailed` "will only have an effect if the current state of the
  record is processing or completed" (the `Store` interface, `store.go:120` and `:125`).
  Their statements ask for `state = 'processing'`, and the comments of the methods
  say so too: a completed record is left alone, and the call returns false.
  `TerminalIsFinal` is about what the statements do; a store that did what the
  interface says would violate it.
* `syncRepoState` compares the disk with the row that it read with its page, and the
  table may have changed since (`server.go:832`): a wrong status is left alone if the
  row was right when it was read, also when nothing else is under way by the time the
  synchronisation comes to the repository (`SyncLooks`, the exception in `StatusTrue`).
* `cloneJobProducer` calls `Empty` and `Cond.Wait` under `CloneQueue.Mutex`, but
  `Push` signals under another mutex: a Push in between wakes nobody, and its job
  waits for the next one (`Stranded`, the exception of `LockReleased`).
* A caller that joins a fetch is told "another operation is already in progress"
  (`server.go:2616`) even if it waited for the fetch and the fetch succeeded:
  `err` is only set by the leader.
* Heartbeats should prevent that a record is "processed by a second worker
  concurrently" (`worker.go`). With retries (`MaxNumRetries = 3`,
  `RetryAfterSet = TRUE` in `PoolFaults.cfg`) `OneLiveHandler` is violated: an
  outdated heartbeat answer unregisters a later attempt.
* `MaxNumRetries` is documented as a number of retries (`workers.md`) and works
  as a number of attempts; 1 means none (`ErroredRow`).
* A record with `cancel` set need not end up canceled (`workers.md`): it may
  complete, or fail by one reset too many (`CompletedRow`, `MaxResetsRow`).
* `RetryAfter` is checked on the snapshot only (`Dequeueable`, `Recheck`).
* An update loop that is stopped after it took a notification leaves the
  repository in the queue and its successor asleep (`UpdateLoopGivesUp`; with
  `MaxGenerations = 2`, `EventuallyUpdated` is violated).
* `UpdateOnce` has no effect while the repository is being updated, although that
  update may have started before the change it is meant to fetch (`Enqueued`).
* The jitter is added after the comparison with `minDelay` and `maxDelay`
  (`Jittered`): intervals are up to 5% outside.

No caller in the repository sets `RetryAfter`, so the retries are about the
library and not about its present users.

## Proofs

`WorkerStore_proof` proves for all constants that satisfy `StoreAssumption`:
type correctness, `PoisonBound`, `TerminalIsFinal` and `CancelSticks`.
`PoisonBound` is not inductive: nothing in it says why a queued record has
attempts left. The inductive invariant is the conjunction of `StoreTypeOK`,
`AttemptsAccounted` (each past attempt is covered by a counted reset, failure
or requeue; a record that is processing or finished has one more) and
`BudgetInv` (resets stay within `MaxNumResets`, failures within the budget, and
strictly so while the record may still run). A record that has used all its
failures has no uncovered attempt, which is what makes the bound tight. Each
statement is shown to preserve it row by row. The two action properties follow
from the types and the shape of the written rows.

In `WorkerPool_proof`, every step of the pool is a step of the store or leaves its
variables alone: the pool is written so, and the lemma `PoolImplementsStore` only says
it, so that what is proved of the store can be used (`PoolPoisonBounded`). The bound on attempts is needed for
type correctness of the pool (`PoolTypeCorrect`), where attempts are numbered:
the invariant is the store's together with the pool's types. In
`HandlersWithinReach` the invariant adds that a registered attempt number on a
worker is that of its latest registration: a handler that is not canceled is
registered under its own attempt, however late the removals by name arrive.

Since the proofs cover `AttemptsAccounted` and `BudgetInv` for all constants,
no run repeats them.

`PermitsConserved` and `NoDanglingID` are proved together (`PoolInv`): an
identifier is removed by name after the permit has been returned, so the
invariant counts the attempts that have a permit (`Tokens`), says that the next
attempt of a record has never been used (`NextIsNew`), and that a registered
attempt is one whose goroutine still has its removal ahead.

`CancellationsJustified` (`CanceledForThatReason`) holds for any timing of heartbeats,
failing calls, crashes and number of handlers. The invariant (`ReasonInv`) adds what
the heartbeat goroutine carries with it: the records it was told to cancel have the
flag set, however long ago it was told, because the flag stays (`CancelSticks`, of which
the pool has no exception); and an identifier that it has to drop leaves the IDSet
in the same critical section in which its handler is told.

Two properties of the pool depend on its configuration, and so do their
theorems:

* `OneHandlerPerRecord` (`OneLiveHandler`) assumes `TimelyHeartbeats`, without which
  the resetter takes records from live workers by design, and
  `MaxNumRetries <= 1`. The only value set in the repository is 0
  (`internal/repos/sync_worker.go:66`; elsewhere it is the default, 0), and a failure
  is retried only while fewer than `MaxNumRetries` were counted, the first one
  included: the hypothesis covers every worker of the repository. It is needed. With
  3 retries TLC finds a behaviour of 27 steps: the heartbeat's answer names a record
  that was finished and retried on the same worker meanwhile, and the late, deferred
  `Remove` of the first attempt unregisters the second, whose heartbeat then
  stops. The invariant (`LiveInv`) says that the record of a handler that has not
  been told to stop was not dequeued since and cannot be.
* `MarksOwned` (`OwnMarks`) also
  assumes that no database call fails (`MaxFaults = 0`; crashes are allowed). A call
  that fails although it was committed gives the record away. The invariant
  (`HealthyInv`) relates every attempt that is busy to its row and to the IDSet, and
  what the heartbeat goroutine still has to apply to rows that may have changed since.

`MutableLimiter_proof` proves `LimiterInv`: types, `WithinLimit`, `HoldersListed`, and
that the callers in the channel are those that wait, once each. It holds the lemmas
about lists that the other proofs use: what `Append`, `Tail`, `RemoveAt`,
`RemoveFirst` and `Newest` do to the members of a list without repetitions.
The steps of the scheduler and of gitserver are shown to be steps of the limiter, so
that they inherit it. `AcquireFails` and `Release` use `RemoveFirst`: the list has an
element once, so that it is the same as the removal of list elements in the code.

`UpdateScheduler_proof`. `ScheduleInv` holds through any number of restarts and gives
`ScheduleAwake`, `LoopCanWake` and `IntervalsBounded`. That the latest loop waits on the
channel in the field is an argument by counting (`ChannelInv`): the number of the channel
is the number of loops that have ended with a reset; these are all older than
the latest loop, so that a loop whose channel has the number of all older loops
waits on the last one that there will be. `ScheduleInv` adds that loops which were not started are
off (a restart cannot overwrite a loop that was about to set the timer), that
every place in the queue is a repository's only one, and that due times do not exceed
intervals. The bound on intervals rests on arithmetic lemmas: the interval minus its
part, and plus its part, grow with the interval. `SchedulerAssumption` asks that
`minDelay` is at least the divisor of the jitter, else the range of the jitter is empty
and `Int63n` panics. `LoopIsNotified` (`NotifyLossless`) and `RepositoryUpdatedOnce`
(`OneUpdate`) are proved for one generation (`MaxGenerations = 1`), which is what they
say; across a restart they do not hold. `QueueInv` adds that no context which waits
in `Acquire` is canceled, so that the loop cannot give up with repositories in the
queue, and that the goroutines and the marks in the queue correspond one to one.

`RepoUpdate_proof`. `UpdateInv` says that the WaitGroup counts the contexts that are to
be returned; that whoever runs without one was refused after Stop had set its flag, and
is canceled; that the mutex belongs to whoever is inside; and that whoever shares the
Once of a fetch called before the fetch looked at the code host. From it follow
`Fresh`, `OneFetch`, `Stopped` and `HoldersListed`. `LimiterIsSemaphore` is the refinement of
`Semaphore`: each step of the limiter gives, takes back or cuts places, and the length
of a list without repetitions is the cardinality of the set of its members.

`RepoClone_proof`. `LockInv` says who has a lock, that the queue has each waiting task
once, and that a reader of progress lines which outlives its task has a lock that is
done. `DiskInv` says that what is renamed is complete and the place free since doClone
looked. `StatusInv` foresees, while one operation works alone, the status that it will
leave; of a synchronisation also that the row it has read is the one in the table, so
that leaving it alone is right. They give `CompleteOrAbsent`, `LockHasOwner`, `DestinationFree` and `StatusTrue`.

`MigrationRunner_proof`. The invariant says who has the lock and who has given it up
(`ControlInv`); that a row of a transaction is pending under the name of the runner that
has it under way, or nobody's, and what was applied in each case (`TransactionInv`); that a
runner that has the lock has found no trace of what it is going to apply; that nobody
drops an index that has become valid, from the moment it finds it invalid (`IndexInv`); and that what a runner leaves out is
in effect (`DoneInv`).
They give `AppliedOnce`, `InOrder`, `LogTrue` and `NoFalseAlarm`.

Assumptions on constants are those that the modules state by name
(`StoreAssumption`, `PoolAssumption`, `LimiterAssumption`, `SchedulerAssumption`,
`UpdateAssumption`, `CloneAssumption`, `RunnerAssumption`): sizes, distinct model values, and that there is at
least one repository. The inductive invariants have been checked with TLC on the
runs' instances before they were proved.

Only model-checked: liveness (`EventuallyFinished`, `StopReturns`, `CancelObeyed`,
`EventuallyUpdated`, `ScheduledUpdated`, `UpdateAnswered`, `StopEnds`, `AcquireReturns`,
`LockReleased`, `RunnerEnds`), which is out of the prover's reach, and what the
conditional theorems leave out: the pool with retries, and one with failing
calls for `OwnMarks`.

## Not modelled

* The repository has 387,000 lines of implementation. Most are
  generated code and mocks, tables of configuration, GraphQL and HTTP handlers, clients of code hosts, and
  parsers: data without shared state, out of a model checker's reach. The models
  cover what coordinates goroutines, processes and transactions, so the share
  of mapped lines is small and stays small.
* gitserver: what git does, migration of repositories between shards, the choices
  of the janitor. Its check of a directory and the removal that follows are not
  atomic, and nothing promises that a clone that was placed in between stays.
* Migrations: down, the flags that ignore a failed or pending migration, privileged
  modes, drift. The advisory lock is taken and released through a pool of
  connections (`store.go:329`); the model assumes that both reach the same session.
* Sync jobs: `EnqueueSingleSyncJob` decides on a snapshot that it took before it
  waits for a row lock; two callers can enqueue two jobs.
* Across a restart of the scheduler's loops: the goroutines of a stopped loop remove
  entries of the new queue, and `PrioritiseUncloned` may insert a repository that was
  deleted meanwhile.

## Plan

1. `WorkerStore`, `WorkerPool`, `MutableLimiter`, `UpdateScheduler`, `RepoClone`,
   `RepoUpdate` with `Semaphore`, `MigrationRunner`: modelled and checked.
2. Proved: every invariant and every action property that a run checks, and the
   refinement of `Semaphore`. Next: what holds of the pool with retries (`OneLiveHandler` does
   not), and of the queue across a restart.
3. `SyncJobs`: external services with their jobs, the busy check against the row
   lock. Property: at most one active job.
4. `OOBMigrations`, `Transactions` (savepoints), `RedisLock`, `DiskCache`,
   `ConfClient`.
