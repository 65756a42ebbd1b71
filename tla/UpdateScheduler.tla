-------------------------- MODULE UpdateScheduler --------------------------
(***************************************************************************)
(* The scheduler of git updates in repo-updater,                           *)
(* internal/repos/scheduler.go: a schedule of when each repository is due, *)
(* whose timer wakes the schedule loop, which moves due repositories to a  *)
(* priority queue and notifies the update loop, which takes a slot of its  *)
(* limiter per repository and starts a goroutine that asks gitserver for   *)
(* an update and sets the repository's next interval.                      *)
(*                                                                         *)
(* A change of the configuration cancels the context of both loops and     *)
(* starts new ones, without waiting for the old ones, which reset the      *)
(* schedule and the queue and replace their channels.  Each start is a     *)
(* generation with a limiter of its own.                                   *)
(*                                                                         *)
(* A step is a critical section of schedule.mu or updateQueue.mu.  Times   *)
(* are ticks: due is the time that is left, 0 if the repository is due.    *)
(* The two heaps are a function and a sequence; their heads are minima.    *)
(***************************************************************************)
EXTENDS MutableLimiter

CONSTANTS
  Repos,           \* repositories
  NoRepo,          \* no repository
  MaxGenerations,  \* bound on the starts of the loops
  MinDelay,        \* minDelay (45 seconds)
  MaxDelay,        \* maxDelay (8 hours)
  JitterDivisor,   \* the jitter is this part of an interval (20, i.e. 5%)
  Wanted,          \* intervals that a rule or a response asks for
  Synced,          \* the repositories in the diffs of the syncer
  Uncloned,        \* the repositories that queries of manageUnclonedRepos find
  Manual           \* the repositories that UpdateOnce is called for

ASSUME SchedulerAssumption ==
  /\ NoRepo \notin Repos
  /\ MaxGenerations \in Nat \ {0} /\ Limiters = 1 .. MaxGenerations
  /\ JitterDivisor \in Nat \ {0, 1}
  /\ MinDelay \in Nat /\ MaxDelay \in Nat
  /\ JitterDivisor <= MinDelay /\ MinDelay <= MaxDelay
  /\ Wanted \subseteq Int
  /\ Synced \subseteq Repos /\ Uncloned \subseteq Repos /\ Manual \subseteq Repos

VARIABLES
  auto,           \* conf: DisableAutoGitUpdates is not set
  have,           \* RunScheduler: the value it has converged to
  gen,            \* RunScheduler: the latest generation, 0 before the first
  schedule,       \* schedule.index: interval and due of each repository
  timer,          \* schedule.timer: ticks until it expires, or NoTimer
  firing,         \* the function of an expired timer is about to run
  wakeup,         \* schedule.wakeup
  queue,          \* updateQueue: its entries in the order of Seq
  notifyEnqueue,  \* updateQueue.notifyEnqueue
  scheduleLoop,   \* the schedule loop of each generation
  updateLoop,     \* the update loop of each generation
  update,         \* the update goroutine of each limiter call
  relay           \* watchSyncer: the second half of an upsert or remove

loopVars      == <<auto, have, gen, scheduleLoop, updateLoop>>
scheduleVars  == <<schedule, timer, firing, wakeup>>
queueVars     == <<queue, notifyEnqueue>>
schedulerVars == <<limiterVars, loopVars, scheduleVars, queueVars, update, relay>>
----------------------------------------------------------------------------
Generations == 1 .. MaxGenerations
Stopped(g)  == g < gen

\* Loops wait on a channel; elsewhere ch is 0.
Loops(states) == [Generations -> [pc : states, ch : Nat]]

\* A loop that has not started, or has returned without a reset; one that has
\* reset its data and returned; one that starts; and one that waits on ch.
LoopOff       == [pc |-> "off", ch |-> 0]
LoopEnded     == [pc |-> "ended", ch |-> 0]
LoopStart     == [pc |-> "top", ch |-> 0]
LoopWaits(ch) == [pc |-> "waiting", ch |-> ch]

(***************************************************************************)
(* Channels of capacity 1.  ch is the channel in the field, full are the   *)
(* channels, also replaced ones, that hold a value.  The value in a        *)
(* channel that is replaced counts for the loops that still wait on it.    *)
(***************************************************************************)
FirstChannel         == [ch |-> 0, full |-> {}]
notify(channel)      == [channel EXCEPT !.full = @ \cup {channel.ch}]
Receive(channel, ch) == [channel EXCEPT !.full = @ \ {ch}]
Replace(channel, loop) ==
  [ch |-> channel.ch + 1,
   full |-> {ch \in channel.full : \E g \in Generations : loop[g] = LoopWaits(ch)}]

(***************************************************************************)
(* The schedule.                                                           *)
(***************************************************************************)
NoTimer  == -1
NewEntry == [interval |-> MinDelay, due |-> MinDelay]

\* Mutant: the timer is set for the repository that is due last.
TimerForLast(s) ==
  IF DOMAIN s = {} THEN NoTimer ELSE Max({s[r].due : r \in DOMAIN s})

\* rescheduleTimer
TimerFor(s) ==
  IF DOMAIN s = {} THEN NoTimer ELSE Min({s[r].due : r \in DOMAIN s})

\* runSchedule holds schedule.mu.
Unlocked == \A g \in Generations : scheduleLoop[g].pc # "running"

\* The schedule becomes s; the timer is set again if it changed.
SetSchedule(s) ==
  /\ Unlocked
  /\ schedule' = s
  /\ timer' = IF s = schedule THEN timer ELSE TimerFor(s)
  /\ UNCHANGED <<firing, wakeup>>

\* schedule.remove: the timer is set again if r was at the head of the heap
\* (another one with the same due time may be there).
RemoveScheduled(r) ==
  LET heads == {q \in DOMAIN schedule :
                  \A p \in DOMAIN schedule : schedule[q].due <= schedule[p].due}
  IN  /\ Unlocked
      /\ schedule' = [q \in DOMAIN schedule \ {r} |-> schedule[q]]
      /\ \/ r \in heads /\ timer' = TimerFor(schedule')
         \/ heads # {r} /\ UNCHANGED timer
      /\ UNCHANGED <<firing, wakeup>>

WithNew(S) ==
  [r \in DOMAIN schedule \cup S |-> IF r \in DOMAIN schedule THEN schedule[r] ELSE NewEntry]

\* Mutant: the interval of a problematic repository is doubled without end.
ClampUnbounded(interval) == IF interval < MinDelay THEN MinDelay ELSE interval

Clamp(interval) ==
  IF interval > MaxDelay THEN MaxDelay
  ELSE IF interval < MinDelay THEN MinDelay ELSE interval

\* The intervals that updateInterval may choose: up to 5% on either side.
Jittered(interval) ==
  LET delta == interval \div JitterDivisor
  IN  {interval + n - delta : n \in 0 .. 2 * delta - 1}

(***************************************************************************)
(* The update queue.                                                       *)
(***************************************************************************)
Low  == 0
High == 1

Queued(r)  == \E i \in DOMAIN queue : queue[i].repo = r
Waiting(r) == \E i \in DOMAIN queue : queue[i].repo = r /\ ~queue[i].updating

\* updateQueue.index, for a repository that is in the queue.
Place(r) == CHOOSE i \in DOMAIN queue : queue[i].repo = r

\* enqueue: the queue afterwards.  A repository that is being updated, or
\* waits with this priority, stays; one with a lower priority moves up and
\* behind the others.
Enqueued(r, p) ==
  IF ~Queued(r) THEN Append(queue, [repo |-> r, priority |-> p, updating |-> FALSE])
  ELSE LET i == Place(r)
       IN  IF queue[i].updating \/ p <= queue[i].priority THEN queue
           ELSE Append(RemoveAt(queue, i), [queue[i] EXCEPT !.priority = p])

\* Mutant: the loop is only notified if the queue was empty.
EnqueueIfEmpty(r, p) ==
  /\ queue' = Enqueued(r, p)
  /\ notifyEnqueue' = IF queue # <<>> THEN notifyEnqueue ELSE notify(notifyEnqueue)

\* The loop is notified whenever the queue changes.
Enqueue(r, p) ==
  /\ queue' = Enqueued(r, p)
  /\ notifyEnqueue' = IF queue' = queue THEN notifyEnqueue ELSE notify(notifyEnqueue)

\* Mutant: remove does not look at Updating.
RemovedAlways(r, updating) == IF Queued(r) THEN RemoveAt(queue, Place(r)) ELSE queue

\* remove: the queue afterwards.
Removed(r, updating) ==
  IF Queued(r) /\ queue[Place(r)].updating = updating
  THEN RemoveAt(queue, Place(r)) ELSE queue

\* acquireNext: the entry at the head of the heap, if it is not updating.
NextIndexes ==
  {i \in DOMAIN queue :
     /\ ~queue[i].updating
     /\ \A k \in DOMAIN queue :
          ~queue[k].updating =>
            \/ queue[k].priority < queue[i].priority
            \/ queue[k].priority = queue[i].priority /\ i <= k}
----------------------------------------------------------------------------
SchedulerInit ==
  /\ LimiterInit
  /\ auto \in BOOLEAN /\ have = FALSE /\ gen = 0
  /\ schedule = << >> /\ timer = NoTimer /\ firing = FALSE
  /\ wakeup = FirstChannel
  /\ queue = << >> /\ notifyEnqueue = FirstChannel
  /\ scheduleLoop = [g \in Generations |-> LoopOff]
  /\ updateLoop = [g \in Generations |-> LoopOff]
  /\ update = [c \in Calls |-> [pc |-> "idle", repo |-> NoRepo, interval |-> 0]]
  /\ relay = [pc |-> "idle", repo |-> NoRepo]

(***************************************************************************)
(* RunScheduler.                                                           *)
(***************************************************************************)
ConfigChanges ==
  /\ 0 < gen /\ gen < MaxGenerations /\ have = auto
  /\ auto' = ~auto
  /\ UNCHANGED <<limiterVars, have, gen, scheduleLoop, updateLoop>>
  /\ UNCHANGED <<scheduleVars, queueVars, update, relay>>

\* The callback of conf.Watch: stop the previous loops, start new ones.
RunScheduler ==
  /\ gen < MaxGenerations
  /\ gen = 0 \/ have # auto
  /\ gen' = gen + 1
  /\ have' = auto
  /\ updateLoop' = [updateLoop EXCEPT ![gen + 1] = LoopStart]
  /\ scheduleLoop' = IF auto THEN [scheduleLoop EXCEPT ![gen + 1] = LoopStart]
                     ELSE scheduleLoop
  /\ CancelAll({c \in Calls : call[c].pc # "idle" /\ call[c].limiter = gen})
  /\ UNCHANGED <<limit, cancelFuncs, acquire, auto>>
  /\ UNCHANGED <<scheduleVars, queueVars, update, relay>>

(***************************************************************************)
(* The schedule loop.                                                      *)
(***************************************************************************)

\* The select reads the channel from the field ...
ScheduleLoopSelects(g) ==
  /\ scheduleLoop[g].pc = "top"
  /\ scheduleLoop' = [scheduleLoop EXCEPT ![g] = LoopWaits(wakeup.ch)]
  /\ UNCHANGED <<limiterVars, auto, have, gen, updateLoop>>
  /\ UNCHANGED <<scheduleVars, queueVars, update, relay>>

\* ... and waits on it.
ScheduleLoopWakes(g) ==
  /\ scheduleLoop[g].pc = "waiting"
  /\ scheduleLoop[g].ch \in wakeup.full
  /\ wakeup' = Receive(wakeup, scheduleLoop[g].ch)
  /\ scheduleLoop' = [scheduleLoop EXCEPT ![g] = [pc |-> "woken", ch |-> 0]]
  /\ UNCHANGED <<limiterVars, auto, have, gen, updateLoop>>
  /\ UNCHANGED <<schedule, timer, firing, queueVars, update, relay>>

\* runSchedule takes the lock.
RunScheduleLocks(g) ==
  /\ scheduleLoop[g].pc = "woken"
  /\ Unlocked
  /\ scheduleLoop' = [scheduleLoop EXCEPT ![g].pc = "running"]
  /\ UNCHANGED <<limiterVars, auto, have, gen, updateLoop>>
  /\ UNCHANGED <<scheduleVars, queueVars, update, relay>>

\* A due repository is enqueued, and due again later.
RunScheduleEnqueues(g, r) ==
  /\ scheduleLoop[g].pc = "running"
  /\ r \in DOMAIN schedule /\ schedule[r].due = 0
  /\ Enqueue(r, Low)
  /\ schedule' = [schedule EXCEPT ![r].due = schedule[r].interval]
  /\ UNCHANGED <<limiterVars, loopVars, timer, firing, wakeup, update, relay>>

\* Mutant: the timer is not set for the next repository.
RunScheduleEndsIdle(g) ==
  /\ scheduleLoop[g].pc = "running"
  /\ \A r \in DOMAIN schedule : schedule[r].due # 0
  /\ scheduleLoop' = [scheduleLoop EXCEPT ![g].pc = "top"]
  /\ UNCHANGED <<limiterVars, auto, have, gen, updateLoop>>
  /\ UNCHANGED <<scheduleVars, queueVars, update, relay>>

\* The deferred rescheduleTimer, and the unlock.
RunScheduleEnds(g) ==
  /\ scheduleLoop[g].pc = "running"
  /\ \A r \in DOMAIN schedule : schedule[r].due # 0
  /\ timer' = TimerFor(schedule)
  /\ scheduleLoop' = [scheduleLoop EXCEPT ![g].pc = "top"]
  /\ UNCHANGED <<limiterVars, auto, have, gen, updateLoop>>
  /\ UNCHANGED <<schedule, firing, wakeup, queueVars, update, relay>>

\* Mutant: the loop does not return after the reset.
ScheduleLoopGoesOn(g) ==
  /\ scheduleLoop[g].pc = "waiting" /\ Stopped(g)
  /\ Unlocked
  /\ schedule' = << >> /\ timer' = NoTimer
  /\ scheduleLoop' = [scheduleLoop EXCEPT ![g] = LoopStart]
  /\ wakeup' = Replace(wakeup, scheduleLoop')
  /\ UNCHANGED <<limiterVars, auto, have, gen, updateLoop>>
  /\ UNCHANGED <<firing, queueVars, update, relay>>

\* ctx.Done: schedule.reset.
ScheduleLoopStops(g) ==
  /\ scheduleLoop[g].pc = "waiting" /\ Stopped(g)
  /\ Unlocked
  /\ schedule' = << >> /\ timer' = NoTimer
  /\ scheduleLoop' = [scheduleLoop EXCEPT ![g] = LoopEnded]
  /\ wakeup' = Replace(wakeup, scheduleLoop')
  /\ UNCHANGED <<limiterVars, auto, have, gen, updateLoop>>
  /\ UNCHANGED <<firing, queueVars, update, relay>>

(***************************************************************************)
(* Time, and the timer, whose function runs in a goroutine of its own.     *)
(***************************************************************************)
Earlier(n) == IF n > 0 THEN n - 1 ELSE n

\* A tick is longer than runSchedule holds the lock.
Tick ==
  /\ Unlocked
  /\ schedule' = [r \in DOMAIN schedule |-> [schedule[r] EXCEPT !.due = Earlier(@)]]
  /\ timer' = Earlier(timer)
  /\ UNCHANGED <<limiterVars, loopVars, firing, wakeup, queueVars, update, relay>>

TimerExpires ==
  /\ timer = 0
  /\ timer' = NoTimer /\ firing' = TRUE
  /\ UNCHANGED <<limiterVars, loopVars, schedule, wakeup, queueVars, update, relay>>

TimerNotifies ==
  /\ firing
  /\ firing' = FALSE
  /\ wakeup' = notify(wakeup)
  /\ UNCHANGED <<limiterVars, loopVars, schedule, timer, queueVars, update, relay>>
----------------------------------------------------------------------------
(***************************************************************************)
(* The update loop.                                                        *)
(***************************************************************************)
UpdateLoopSelects(g) ==
  /\ updateLoop[g].pc = "top"
  /\ updateLoop' = [updateLoop EXCEPT ![g] = LoopWaits(notifyEnqueue.ch)]
  /\ UNCHANGED <<limiterVars, auto, have, gen, scheduleLoop>>
  /\ UNCHANGED <<scheduleVars, queueVars, update, relay>>

UpdateLoopWakes(g) ==
  /\ updateLoop[g].pc = "waiting"
  /\ updateLoop[g].ch \in notifyEnqueue.full
  /\ notifyEnqueue' = Receive(notifyEnqueue, updateLoop[g].ch)
  /\ updateLoop' = [updateLoop EXCEPT ![g] = [pc |-> "next", ch |-> 0]]
  /\ UNCHANGED <<limiterVars, auto, have, gen, scheduleLoop>>
  /\ UNCHANGED <<scheduleVars, queue, update, relay>>

\* ctx.Done: updateQueue.reset.
UpdateLoopStops(g) ==
  /\ updateLoop[g].pc = "waiting" /\ Stopped(g)
  /\ queue' = << >>
  /\ updateLoop' = [updateLoop EXCEPT ![g] = LoopEnded]
  /\ notifyEnqueue' = Replace(notifyEnqueue, updateLoop')
  /\ UNCHANGED <<limiterVars, auto, have, gen, scheduleLoop>>
  /\ UNCHANGED <<scheduleVars, update, relay>>

Free(c) == call[c].pc = "idle" /\ update[c].pc = "idle"

\* limiter.Acquire is called ...
UpdateLoopAcquires(g) ==
  /\ updateLoop[g].pc = "next"
  /\ \E c \in Calls : Free(c)
  /\ Acquire(CHOOSE c \in Calls : Free(c), g, Stopped(g))
  /\ updateLoop' = [updateLoop EXCEPT ![g].pc = "acquiring"]
  /\ UNCHANGED <<auto, have, gen, scheduleLoop>>
  /\ UNCHANGED <<scheduleVars, queueVars, update, relay>>

\* ... and responds ...
LimiterGrants(g) ==
  /\ Grant(g)
  /\ UNCHANGED <<loopVars, scheduleVars, queueVars, update, relay>>

\* Mutant: the loop that gives up resets the queue as well.
UpdateLoopGivesUpResetting(g) ==
  /\ updateLoop[g].pc = "acquiring"
  /\ \E c \in Calls : call[c].limiter = g /\ AcquireFails(c)
  /\ queue' = << >>
  /\ updateLoop' = [updateLoop EXCEPT ![g].pc = "off"]
  /\ notifyEnqueue' = Replace(notifyEnqueue, updateLoop')
  /\ UNCHANGED <<auto, have, gen, scheduleLoop>>
  /\ UNCHANGED <<scheduleVars, update, relay>>

\* ... or fails; then the loop returns without a reset.
UpdateLoopGivesUp(g) ==
  /\ updateLoop[g].pc = "acquiring"
  /\ \E c \in Calls : call[c].limiter = g /\ AcquireFails(c)
  /\ updateLoop' = [updateLoop EXCEPT ![g].pc = "off"]
  /\ UNCHANGED <<auto, have, gen, scheduleLoop>>
  /\ UNCHANGED <<scheduleVars, queueVars, update, relay>>

\* Mutant: the loop waits for a notification after every repository.
AcquireNextOnce(g, c) ==
  /\ updateLoop[g].pc = "acquiring"
  /\ call[c].pc = "held" /\ call[c].limiter = g /\ update[c].pc = "idle"
  /\ updateLoop' = [updateLoop EXCEPT ![g].pc = "top"]
  /\ IF NextIndexes = {}
     THEN Release(c) /\ UNCHANGED <<queue, update>>
     ELSE \E i \in NextIndexes :
          /\ queue' = [queue EXCEPT ![i].updating = TRUE]
          /\ update' = [update EXCEPT ![c].pc = "requesting", ![c].repo = queue[i].repo]
          /\ UNCHANGED limiterVars
  /\ UNCHANGED <<auto, have, gen, scheduleLoop, scheduleVars, notifyEnqueue, relay>>

\* acquireNext, and the goroutine that it is for.  Without a repository to
\* update, the slot is given back and the loop waits for a notification.
AcquireNext(g, c) ==
  /\ updateLoop[g].pc = "acquiring"
  /\ call[c].pc = "held" /\ call[c].limiter = g /\ update[c].pc = "idle"
  /\ IF NextIndexes = {}
     THEN /\ Release(c)
          /\ updateLoop' = [updateLoop EXCEPT ![g].pc = "top"]
          /\ UNCHANGED <<queue, update>>
     ELSE \E i \in NextIndexes :
          /\ queue' = [queue EXCEPT ![i].updating = TRUE]
          /\ update' = [update EXCEPT ![c].pc = "requesting", ![c].repo = queue[i].repo]
          /\ updateLoop' = [updateLoop EXCEPT ![g].pc = "next"]
          /\ UNCHANGED limiterVars
  /\ UNCHANGED <<auto, have, gen, scheduleLoop, scheduleVars, notifyEnqueue, relay>>

(***************************************************************************)
(* The goroutine of one update.                                            *)
(***************************************************************************)

\* requestRepoUpdate returns.  The next interval is that of a rule, half the
\* time without a change, or after an error twice the current one; it stays
\* if the response does not say, or the repository is not scheduled.
RequestReturns(c) ==
  /\ update[c].pc = "requesting"
  /\ Unlocked
  /\ LET r == update[c].repo
         doubled == IF r \in DOMAIN schedule THEN {2 * schedule[r].interval} ELSE {}
     IN  \/ \E v \in Wanted \cup doubled :
              update' = [update EXCEPT ![c].pc = "interval", ![c].interval = v]
         \/ update' = [update EXCEPT ![c].pc = "removing"]
  /\ UNCHANGED <<limiterVars, loopVars, scheduleVars, queueVars, relay>>

\* updateInterval
UpdateInterval(c) ==
  /\ update[c].pc = "interval"
  /\ Unlocked
  /\ LET r == update[c].repo
     IN  IF r \notin DOMAIN schedule THEN UNCHANGED <<schedule, timer>>
         ELSE \E v \in Jittered(Clamp(update[c].interval)) :
                /\ schedule' = [schedule EXCEPT ![r] = [interval |-> v, due |-> v]]
                /\ timer' = TimerFor(schedule')
  /\ update' = [update EXCEPT ![c].pc = "removing", ![c].interval = 0]
  /\ UNCHANGED <<limiterVars, loopVars, firing, wakeup, queueVars, relay>>

\* The deferred updateQueue.remove, and then the deferred cancel.
RemoveUpdated(c) ==
  /\ update[c].pc = "removing"
  /\ queue' = Removed(update[c].repo, TRUE)
  /\ update' = [update EXCEPT ![c].pc = "releasing", ![c].repo = NoRepo]
  /\ UNCHANGED <<limiterVars, loopVars, scheduleVars, notifyEnqueue, relay>>

ReleaseSlot(c) ==
  /\ update[c].pc = "releasing"
  /\ Release(c)
  /\ update' = [update EXCEPT ![c].pc = "idle"]
  /\ UNCHANGED <<loopVars, scheduleVars, queueVars, relay>>
----------------------------------------------------------------------------
(***************************************************************************)
(* The callers.                                                            *)
(***************************************************************************)

\* DisableAutoGitUpdates is, or was when the caller looked, not set: both
\* callers look once, before the queries and loops that follow.
AutoSeen == auto \/ gen > 1 \/ (gen = 1 /\ have # auto)

\* UpdateFromDiff for one repository of a diff.  upsert and remove work on
\* the schedule first and then, in a second step, on the queue.
UpdateFromDiff(r, part) ==
  /\ AutoSeen
  /\ relay.pc = "idle"
  /\ \/ part = "deleted" /\ relay' = [pc |-> "remove", repo |-> r]
        /\ RemoveScheduled(r)
     \/ part = "added" /\ relay' = [pc |-> "enqueue", repo |-> r] /\ SetSchedule(WithNew({r}))
     \/ part = "unmodified" /\ UNCHANGED relay /\ SetSchedule(WithNew({r}))
  /\ UNCHANGED <<limiterVars, loopVars, queueVars, update>>

RelayQueues ==
  /\ \/ relay.pc = "enqueue" /\ Enqueue(relay.repo, Low)
     \/ relay.pc = "remove" /\ queue' = Removed(relay.repo, FALSE) /\ UNCHANGED notifyEnqueue
  /\ relay' = [pc |-> "idle", repo |-> NoRepo]
  /\ UNCHANGED <<limiterVars, loopVars, scheduleVars, update>>

UpdateOnce(r) ==
  /\ Enqueue(r, High)
  /\ UNCHANGED <<limiterVars, loopVars, scheduleVars, update, relay>>

\* manageUnclonedRepos: EnsureScheduled, with the repositories that a query
\* found, ...
EnsureScheduled(S) ==
  /\ AutoSeen
  /\ SetSchedule(WithNew(S))
  /\ UNCHANGED <<limiterVars, loopVars, queueVars, update, relay>>

\* ... and PrioritiseUncloned, with repositories that were in the schedule
\* when it was listed.
PrioritiseUncloned(S) ==
  /\ AutoSeen
  /\ SetSchedule([r \in DOMAIN schedule \cup S |->
                    IF r \in S /\ WithNew(S)[r].due > MinDelay
                    THEN [schedule[r] EXCEPT !.due = MinDelay] ELSE WithNew(S)[r]])
  /\ UNCHANGED <<limiterVars, loopVars, queueVars, update, relay>>

\* SetLimit on a change of gitMaxConcurrentClones.
ConfiguredLimiter(g) ==
  /\ g <= gen
  /\ \E n \in Limits : SetLimit(g, n)
  /\ UNCHANGED <<loopVars, scheduleVars, queueVars, update, relay>>

ScheduleLoop(g) ==
  \/ ScheduleLoopSelects(g) \/ ScheduleLoopWakes(g) \/ ScheduleLoopStops(g)
  \/ RunScheduleLocks(g) \/ RunScheduleEnds(g) \/ \E r \in Repos : RunScheduleEnqueues(g, r)

UpdateLoop(g) ==
  \/ UpdateLoopSelects(g) \/ UpdateLoopWakes(g) \/ UpdateLoopStops(g)
  \/ UpdateLoopAcquires(g) \/ LimiterGrants(g) \/ UpdateLoopGivesUp(g)
  \/ \E c \in Calls : AcquireNext(g, c)

UpdateRoutine(c) ==
  RequestReturns(c) \/ UpdateInterval(c) \/ RemoveUpdated(c) \/ ReleaseSlot(c)

Caller ==
  \/ \E r \in Synced, part \in {"deleted", "added", "unmodified"} : UpdateFromDiff(r, part)
  \/ \E r \in Manual : UpdateOnce(r)
  \/ \E S \in SUBSET Uncloned \ {{}} : EnsureScheduled(S) \/ PrioritiseUncloned(S)

SchedulerNext ==
  \/ ConfigChanges \/ RunScheduler
  \/ \E g \in Generations : ScheduleLoop(g) \/ UpdateLoop(g) \/ ConfiguredLimiter(g)
  \/ \E c \in Calls : UpdateRoutine(c)
  \/ Tick \/ TimerExpires \/ TimerNotifies
  \/ Caller \/ RelayQueues

SchedulerSpec == SchedulerInit /\ [][SchedulerNext]_schedulerVars

(***************************************************************************)
(* Fairness.  Goroutines that can run do run, time passes, the callback of *)
(* a changed configuration is called, and gitserver answers (the request   *)
(* has a timeout).  A goroutine that waits for schedule.mu gets it however *)
(* often others take it (a sync.Mutex starves nobody): SF.  Nothing is     *)
(* assumed of callers and configurations.                                  *)
(***************************************************************************)
SchedulerFairness ==
  /\ WF_schedulerVars(RunScheduler)
  /\ WF_schedulerVars(Tick)
  /\ WF_schedulerVars(TimerExpires) /\ WF_schedulerVars(TimerNotifies)
  /\ WF_schedulerVars(RelayQueues)
  /\ \A g \in Generations :
       WF_schedulerVars(ScheduleLoop(g)) /\ WF_schedulerVars(UpdateLoop(g))
  /\ \A c \in Calls : SF_schedulerVars(UpdateRoutine(c))

FairSchedulerSpec == SchedulerSpec /\ SchedulerFairness
----------------------------------------------------------------------------
Channel == [ch : Nat, full : SUBSET Nat]

\* The schedule, the queue and the loops are well formed.
SchedulerTypeOK ==
  /\ LimiterTypeOK
  /\ auto \in BOOLEAN /\ have \in BOOLEAN /\ gen \in 0 .. MaxGenerations
  /\ DOMAIN schedule \subseteq Repos
  /\ \A r \in DOMAIN schedule : schedule[r] \in [interval : Nat, due : Nat]
  /\ timer \in Nat \cup {NoTimer} /\ firing \in BOOLEAN
  /\ wakeup \in Channel /\ notifyEnqueue \in Channel
  /\ queue \in Seq([repo : Repos, priority : {Low, High}, updating : BOOLEAN])
  /\ scheduleLoop \in Loops({"off", "ended", "top", "waiting", "woken", "running"})
  /\ updateLoop \in Loops({"off", "ended", "top", "waiting", "next", "acquiring"})
  /\ update \in
       [Calls -> [pc : {"idle", "requesting", "interval", "removing", "releasing"},
                  repo : Repos \cup {NoRepo}, interval : Int]]
  /\ relay \in [pc : {"idle", "enqueue", "remove"}, repo : Repos \cup {NoRepo}]

(***************************************************************************)
(* The channel in the field is replaced by each reset.  The loop of g read *)
(* it before all older ones had reset it, and so waits on another one than *)
(* is notified later.                                                      *)
(***************************************************************************)
Overtaken(loop, g) ==
  loop[g].ch < Cardinality({h \in Generations : h < g /\ loop[h].pc # "off"})

\* The latest loop, if it waits, waits on the channel that is notified or has
\* been notified, unless it was overtaken by the reset of an older one.
CanWake(loop, channel) ==
  gen > 0 /\ loop[gen].pc = "waiting" =>
    loop[gen].ch \in {channel.ch} \cup channel.full \/ Overtaken(loop, gen)

(***************************************************************************)
(* The schedule does not fall asleep: as long as there are repositories in *)
(* it, the timer expires no later than any of them is due, or a wakeup is  *)
(* on its way, or a loop is about to set the timer, whatever callers,      *)
(* finished updates and resets did in between; and the latest loop will    *)
(* get the wakeup.  The exception is a loop that waited before the reset   *)
(* of an older one replaced the channel: it sleeps for good.  (With the    *)
(* types.)                                                                 *)
(***************************************************************************)
ScheduleAwake ==
  /\ SchedulerTypeOK
  /\ DOMAIN schedule # {} =>
       \/ timer # NoTimer /\ \A r \in DOMAIN schedule : timer <= schedule[r].due
       \/ firing
       \/ wakeup.ch \in wakeup.full
       \/ \E g \in Generations : scheduleLoop[g].pc \in {"woken", "running"}
  /\ CanWake(scheduleLoop, wakeup)

(***************************************************************************)
(* "lossless non-blocking sends" (scheduler.go, notifyChanBuffer): if a    *)
(* repository waits in the queue, the update loop has been notified or is  *)
(* about to look.  (Of one generation of loops.)                           *)
(***************************************************************************)
NotifyLossless ==
  (\E r \in Repos : Waiting(r)) =>
    \/ notifyEnqueue.ch \in notifyEnqueue.full
    \/ \E g \in Generations : updateLoop[g].pc \in {"next", "acquiring"}

(***************************************************************************)
(* notifyEnqueue is there "so that the update loop can wake up if it is    *)
(* idle": the latest update loop waits on the channel that enqueue         *)
(* notifies, or has been notified.  The same exception: it waited before   *)
(* an older loop, which is not waited for, reset the queue; an older loop  *)
(* that gives up in Acquire replaces nothing.                              *)
(***************************************************************************)
LoopCanWake == CanWake(updateLoop, notifyEnqueue)

\* The goroutines that update r, up to their removal of r from the queue.
Updates(r) == {c \in Calls : update[c].pc \in {"requesting", "interval", "removing"}
                             /\ update[c].repo = r}

(***************************************************************************)
(* A repository has at most one place in the queue, and is updated by at   *)
(* most one goroutine, exactly while that place is marked as updating.     *)
(* (Of one generation of loops.)                                           *)
(***************************************************************************)
OneUpdate ==
  /\ \A i, k \in DOMAIN queue : queue[i].repo = queue[k].repo => i = k
  /\ \A r \in Repos :
       Cardinality(Updates(r)) =
         Cardinality({i \in DOMAIN queue : queue[i].repo = r /\ queue[i].updating})

(***************************************************************************)
(* However often intervals are doubled and jittered, they stay within the  *)
(* jitter of minDelay and maxDelay, and no repository waits longer.        *)
(***************************************************************************)
IntervalsBounded ==
  \A r \in DOMAIN schedule :
    /\ schedule[r].interval >= MinDelay - MinDelay \div JitterDivisor
    /\ schedule[r].interval < MaxDelay + MaxDelay \div JitterDivisor
    /\ schedule[r].due <= schedule[r].interval

\* Another repository waits with a high priority.
HighOther(r) ==
  \E i \in DOMAIN queue : queue[i].repo # r /\ queue[i].priority = High /\ ~queue[i].updating

(***************************************************************************)
(* A repository that waits in the queue is eventually updated (or removed  *)
(* by a diff), unless others with a high priority keep coming.             *)
(***************************************************************************)
EventuallyUpdated ==
  \A r \in Repos : <>[]~HighOther(r) => (Waiting(r) ~> ~Waiting(r))

(***************************************************************************)
(* A scheduled repository is enqueued again and again while the schedule   *)
(* loop runs.                                                              *)
(***************************************************************************)
ScheduledUpdated ==
  \A r \in Repos :
    (r \in DOMAIN schedule /\ have) ~> (Queued(r) \/ r \notin DOMAIN schedule \/ ~have)
=============================================================================
