----------------------------- MODULE WorkerPool -----------------------------
(***************************************************************************)
(* The workers of internal/workerutil/worker.go on top of the job store:   *)
(* per worker a dequeue loop, a heartbeat goroutine, up to NumHandlers     *)
(* handler goroutines and the IDSet they share, next to the resetter       *)
(* (dbworker/resetter.go), the producers and the cancellation API.         *)
(*                                                                         *)
(* The n-th time record j is moved to processing starts the attempt        *)
(* <<j, n>>.  A worker process that crashes does not come back: a          *)
(* restarted one is another member of Hosts.                               *)
(***************************************************************************)
EXTENDS WorkerStore

CONSTANTS
  NumHandlers,       \* WorkerOptions.NumHandlers
  Reliable,          \* the workers that are neither stopped nor killed
  TimelyHeartbeats,  \* heartbeats always arrive within StalledMaxAge
  HandlersReturn,    \* handlers return even if their context is not canceled
  MaxFaults          \* bound on the failed or unanswered database calls

ASSUME PoolAssumption ==
  /\ NumHandlers \in Nat \ {0}
  /\ Reliable \subseteq Hosts
  /\ TimelyHeartbeats \in BOOLEAN
  /\ HandlersReturn \in BOOLEAN
  /\ MaxFaults \in Nat

VARIABLES
  loop,      \* where the dequeue loop of each worker is
  permits,   \* tokens in each worker's handlerSemaphore
  running,   \* each worker's runningIDSet: the attempt number, or 0
  attempts,  \* the handler goroutine of each attempt
  heart,     \* the heartbeat goroutine of each worker
  stopping,  \* dequeueCtx of each worker is canceled
  faults     \* failed or unanswered database calls so far

workerVars == <<loop, permits, running, attempts, heart, stopping>>
poolVars   == <<storeVars, workerVars, faults>>
----------------------------------------------------------------------------
\* PoisonBound: no record is dequeued more often (without Requeue).
MaxAttempts == MaxNumResets + Budget
Attempts    == Jobs \X (1 .. MaxAttempts)

\* The finalizing call a handler goroutine is about to make.  "canceled" is
\* the MarkFailed that isJobCanceled asks for.
Verdicts == {"complete", "errored", "failed", "canceled"}

\* Attempts whose goroutine is counted by the worker's WaitGroup.
InWaitGroup == {"handling", "marked"} \cup Verdicts

\* Attempts that hold a token of the semaphore.
HoldsPermit == InWaitGroup \cup {"claimed"}

AttemptStates == HoldsPermit \cup {"none", "released", "gone"}

NoAttempt == [pc |-> "none", worker |-> Unset, canceled |-> FALSE]
Gone      == [pc |-> "gone", worker |-> Unset, canceled |-> FALSE]

AttemptsOf(w, S) == {a \in Attempts : attempts[a].worker = w /\ attempts[a].pc \in S}

HeartIdle == [pc |-> "idle", ids |-> {}, lost |-> {}, cancel |-> {}]

\* runningIDSet.Slice and runningIDSet.Has.
Slice(w)  == {j \in Jobs : running[w][j] # 0}
Has(w, j) == running[w][j] # 0

\* Mutant: the context is not canceled.
CancelFuncIgnored(w, j, atts) == atts

\* The call of a registered cancel function.  A context that is not used by
\* Handle any more is not observed.
CancelFunc(w, j, atts) ==
  LET a == <<j, running[w][j]>>
  IN  IF a \in Attempts /\ atts[a].pc = "handling"
      THEN [atts EXCEPT ![a].canceled = TRUE] ELSE atts

\* runningIDSet.Remove: unregister j on w; the caller runs CancelFunc.
RemoveID(w, j) == running' = [running EXCEPT ![w][j] = 0]

\* No worker refreshes the heartbeat of j.
Unattended(j) ==
  /\ \A w \in Hosts : running[w][j] = 0
  /\ \A a \in Attempts : a[1] = j => attempts[a].pc # "claimed"

\* storeShim passes empty HeartbeatOptions and MarkFinalOptions to the store.
ShimHostname == Unset

Fault == faults < MaxFaults /\ faults' = faults + 1
----------------------------------------------------------------------------
PoolInit ==
  /\ StoreInit
  /\ loop = [w \in Hosts |-> "idle"]
  /\ permits = [w \in Hosts |-> NumHandlers]
  /\ running = [w \in Hosts |-> [j \in Jobs |-> 0]]
  /\ attempts = [a \in Attempts |-> NoAttempt]
  /\ heart = [w \in Hosts |-> HeartIdle]
  /\ stopping = [w \in Hosts |-> FALSE]
  /\ faults = 0

(***************************************************************************)
(* The dequeue loop: Start and dequeueAndHandle.                           *)
(***************************************************************************)

\* Mutant: the loop does not wait for a permit.
PollBeginsUnlimited(w, C) ==
  /\ loop[w] = "idle" /\ ~stopping[w]
  /\ C # {}
  /\ DequeueSelect(w, C)
  /\ permits' = [permits EXCEPT ![w] = @ - 1]
  /\ loop' = [loop EXCEPT ![w] = "selecting"]
  /\ UNCHANGED <<running, attempts, heart, stopping, faults>>

\* A permit is taken and the Dequeue statement reads its candidates.  A poll
\* that finds no candidate gives the permit back and changes nothing.
PollBegins(w, C) ==
  /\ loop[w] = "idle" /\ ~stopping[w]
  /\ permits[w] > 0
  /\ C # {}
  /\ DequeueSelect(w, C)
  /\ permits' = [permits EXCEPT ![w] = @ - 1]
  /\ loop' = [loop EXCEPT ![w] = "selecting"]
  /\ UNCHANGED <<running, attempts, heart, stopping, faults>>

\* Dequeue returns record j.
PollClaims(w, j) ==
  /\ loop[w] = "selecting"
  /\ DequeueClaim(w, j)
  /\ loop' = [loop EXCEPT ![w] = "adding"]
  /\ attempts' = [attempts EXCEPT ![<<j, dequeues[j] + 1>>] =
                    [pc |-> "claimed", worker |-> w, canceled |-> FALSE]]
  /\ UNCHANGED <<permits, running, heart, stopping, faults>>

\* Mutant: the permit leaks if nothing is dequeued.
PollEmptyLeaks(w) ==
  /\ loop[w] = "selecting"
  /\ \A j \in candidates[w].ids : ~Recheck(jobs[j])
  /\ DequeueNone(w)
  /\ loop' = [loop EXCEPT ![w] = "idle"]
  /\ UNCHANGED <<permits, running, attempts, heart, stopping, faults>>

\* Dequeue returns nothing: the deferred function gives the permit back.
PollEmpty(w) ==
  /\ loop[w] = "selecting"
  /\ \A j \in candidates[w].ids : ~Recheck(jobs[j])
  /\ DequeueNone(w)
  /\ permits' = [permits EXCEPT ![w] = @ + 1]
  /\ loop' = [loop EXCEPT ![w] = "idle"]
  /\ UNCHANGED <<running, attempts, heart, stopping, faults>>

\* Mutant: the loop does not notice that dequeueCtx is canceled.
PollFailsRetries(w) ==
  /\ loop[w] = "selecting"
  /\ DequeueNone(w)
  /\ IF stopping[w] THEN UNCHANGED faults ELSE Fault
  /\ UNCHANGED <<loop, permits, running, attempts, heart, stopping>>

\* Dequeue fails, because of a database error, because all candidates are
\* row-locked, or because dequeueCtx is canceled.  The statement may have
\* been committed all the same: record j is then processing on no worker.
PollFails(w) ==
  /\ loop[w] = "selecting"
  /\ \/ DequeueNone(w) /\ UNCHANGED attempts
     \/ \E j \in Jobs :
          /\ DequeueClaim(w, j)
          /\ attempts' = [attempts EXCEPT ![<<j, dequeues[j] + 1>>] = Gone]
  /\ IF stopping[w] THEN UNCHANGED faults ELSE Fault
  /\ permits' = [permits EXCEPT ![w] = @ + 1]
  /\ loop' = [loop EXCEPT ![w] = "idle"]
  /\ UNCHANGED <<running, heart, stopping>>

\* Mutant: the permit leaks on ErrJobAlreadyExists.
RegisterLeaks(w) ==
  /\ loop[w] = "adding"
  /\ \E a \in AttemptsOf(w, {"claimed"}) :
       IF Has(w, a[1])
       THEN attempts' = [attempts EXCEPT ![a] = Gone] /\ UNCHANGED running
       ELSE /\ running' = [running EXCEPT ![w][a[1]] = a[2]]
            /\ attempts' = [attempts EXCEPT ![a].pc = "handling"]
  /\ loop' = [loop EXCEPT ![w] = "idle"]
  /\ UNCHANGED <<storeVars, permits, heart, stopping, faults>>

\* runningIDSet.Add.  The handler goroutine starts, or, if the identifier is
\* still registered, ErrJobAlreadyExists gives the permit back.
Register(w) ==
  /\ loop[w] = "adding"
  /\ \E a \in AttemptsOf(w, {"claimed"}) :
       IF Has(w, a[1])
       THEN /\ attempts' = [attempts EXCEPT ![a] = Gone]
            /\ permits' = [permits EXCEPT ![w] = @ + 1]
            /\ UNCHANGED running
       ELSE /\ running' = [running EXCEPT ![w][a[1]] = a[2]]
            /\ attempts' = [attempts EXCEPT ![a].pc = "handling"]
            /\ UNCHANGED permits
  /\ loop' = [loop EXCEPT ![w] = "idle"]
  /\ UNCHANGED <<storeVars, heart, stopping, faults>>

\* Stop cancels dequeueCtx, the loop breaks and waits for the WaitGroup.  (So
\* it does after NumTotalJobs records or MaxActiveTime.)
Stop(w) ==
  /\ w \notin Reliable
  /\ ~stopping[w] /\ loop[w] # "crashed"
  /\ stopping' = [stopping EXCEPT ![w] = TRUE]
  /\ UNCHANGED <<storeVars, loop, permits, running, attempts, heart, faults>>

LoopBreaks(w) ==
  /\ loop[w] = "idle" /\ stopping[w]
  /\ loop' = [loop EXCEPT ![w] = "draining"]
  /\ UNCHANGED <<storeVars, permits, running, attempts, heart, stopping, faults>>

Finish(w) ==
  /\ loop[w] = "draining"
  /\ AttemptsOf(w, InWaitGroup) = {}
  /\ loop' = [loop EXCEPT ![w] = "finished"]
  /\ UNCHANGED <<storeVars, permits, running, attempts, heart, stopping, faults>>

\* The process dies: its goroutines and its IDSet are gone, rows stay.
Crash(w) ==
  /\ w \notin Reliable
  /\ loop[w] \notin {"crashed", "finished"}
  /\ loop' = [loop EXCEPT ![w] = "crashed"]
  /\ permits' = [permits EXCEPT ![w] = 0]
  /\ running' = [running EXCEPT ![w] = [j \in Jobs |-> 0]]
  /\ attempts' = [a \in Attempts |-> IF attempts[a].worker = w THEN Gone
                                     ELSE attempts[a]]
  /\ heart' = [heart EXCEPT ![w] = HeartIdle]
  /\ stopping' = [stopping EXCEPT ![w] = FALSE]
  /\ IF candidates[w].open THEN DequeueNone(w) ELSE UNCHANGED storeVars
  /\ UNCHANGED faults
----------------------------------------------------------------------------
(***************************************************************************)
(* A handler goroutine: handle and the deferred function after it.         *)
(***************************************************************************)

\* isJobCanceled for an error that is the context's error.
isJobCanceled(a) == Has(attempts[a].worker, a[1])

\* What handle does with the result of Handle.
Verdict(a, result) ==
  CASE result = "ok"           -> "complete"
    [] result = "nonretryable" -> "failed"
    [] result = "error"        -> "errored"
    [] result = "ctx"          -> IF isJobCanceled(a) THEN "canceled" ELSE "errored"

\* Handle returns; its context's error only if the context is canceled.
HandlerReturns(a, result) ==
  /\ attempts[a].pc = "handling"
  /\ result = "ctx" => attempts[a].canceled
  /\ attempts' = [attempts EXCEPT ![a].pc = Verdict(a, result),
                                  ![a].canceled = FALSE]
  /\ UNCHANGED <<storeVars, loop, permits, running, heart, stopping, faults>>

\* The finalizing call.
HandlerMarks(a) ==
  /\ \/ attempts[a].pc = "complete" /\ MarkComplete(a[1], ShimHostname)
     \/ attempts[a].pc = "errored" /\ MarkErrored(a[1], ShimHostname)
     \/ attempts[a].pc \in {"failed", "canceled"} /\ MarkFailed(a[1], ShimHostname)
  /\ attempts' = [attempts EXCEPT ![a].pc = "marked"]
  /\ UNCHANGED <<loop, permits, running, heart, stopping, faults>>

\* The finalizing call fails; handle only logs the error.
HandlerMarkFails(a) ==
  /\ attempts[a].pc \in Verdicts
  /\ Fault
  /\ attempts' = [attempts EXCEPT ![a].pc = "marked"]
  /\ UNCHANGED <<storeVars, loop, permits, running, heart, stopping>>

\* The permit is given back and wg.Done is called ...
HandlerReleases(a) ==
  /\ attempts[a].pc = "marked"
  /\ permits' = [permits EXCEPT ![attempts[a].worker] = @ + 1]
  /\ attempts' = [attempts EXCEPT ![a].pc = "released"]
  /\ UNCHANGED <<storeVars, loop, running, heart, stopping, faults>>

\* Mutant: the deferred Remove is missing.
HandlerUnregistersNot(a) ==
  /\ attempts[a].pc = "released"
  /\ attempts' = [attempts EXCEPT ![a] = Gone]
  /\ UNCHANGED <<storeVars, loop, permits, running, heart, stopping, faults>>

\* ... before the deferred runningIDSet.Remove, which removes whatever is
\* registered for the record by then.
HandlerUnregisters(a) ==
  /\ attempts[a].pc = "released"
  /\ LET w == attempts[a].worker
     IN  /\ RemoveID(w, a[1])
         /\ attempts' = [CancelFunc(w, a[1], attempts) EXCEPT ![a] = Gone]
  /\ UNCHANGED <<storeVars, loop, permits, heart, stopping, faults>>
----------------------------------------------------------------------------
(***************************************************************************)
(* The heartbeat goroutine.  It ends once the worker is finished; a timer  *)
(* that fires at the same time may win the select.  A heartbeat of no      *)
(* identifiers changes nothing.                                            *)
(***************************************************************************)
BeatBegins(w) ==
  /\ heart[w].pc = "idle"
  /\ Slice(w) # {}
  /\ heart' = [heart EXCEPT ![w].pc = "sliced", ![w].ids = Slice(w)]
  /\ UNCHANGED <<storeVars, loop, permits, running, attempts, stopping, faults>>

\* Mutant: cancellations are forgotten unless a record was lost, too.
HeartAfterLost(lost, cancel) ==
  IF lost = {} THEN HeartIdle
  ELSE [pc |-> "answered", ids |-> {}, lost |-> lost, cancel |-> cancel]

\* The goroutine with lost and cancel still to be worked off.
HeartAfter(lost, cancel) ==
  IF lost = {} /\ cancel = {} THEN HeartIdle
  ELSE [pc |-> "answered", ids |-> {}, lost |-> lost, cancel |-> cancel]

\* The Heartbeat statement.
BeatAnswered(w) ==
  /\ heart[w].pc = "sliced"
  /\ LET ids == heart[w].ids
     IN  /\ Heartbeat(ids, ShimHostname)
         /\ heart' = [heart EXCEPT ![w] = HeartAfter(ids \ KnownIDs(ids, ShimHostname),
                                                     CancelIDs(ids, ShimHostname))]
  /\ UNCHANGED <<loop, permits, running, attempts, stopping, faults>>

\* The call fails, with or without effect, and the goroutine bails out.
BeatFails(w) ==
  /\ heart[w].pc = "sliced"
  /\ Fault
  /\ Heartbeat(heart[w].ids, ShimHostname) \/ UNCHANGED storeVars
  /\ heart' = [heart EXCEPT ![w] = HeartIdle]
  /\ UNCHANGED <<loop, permits, running, attempts, stopping>>

\* Mutant: a lost record is removed, but its handler is not canceled.
BeatDropsQuietly(w, j) ==
  /\ heart[w].pc = "answered"
  /\ j \in heart[w].lost
  /\ RemoveID(w, j)
  /\ heart' = [heart EXCEPT ![w] = HeartAfter(heart[w].lost \ {j}, heart[w].cancel)]
  /\ UNCHANGED <<storeVars, loop, permits, attempts, stopping, faults>>

\* Mutant: a lost record is canceled, but stays registered.
BeatDropsKeeps(w, j) ==
  /\ heart[w].pc = "answered"
  /\ j \in heart[w].lost
  /\ attempts' = CancelFunc(w, j, attempts)
  /\ heart' = [heart EXCEPT ![w] = HeartAfter(heart[w].lost \ {j}, heart[w].cancel)]
  /\ UNCHANGED <<storeVars, loop, permits, running, stopping, faults>>

\* A record that is not known any more is removed from the set.
BeatDrops(w, j) ==
  /\ heart[w].pc = "answered"
  /\ j \in heart[w].lost
  /\ RemoveID(w, j)
  /\ attempts' = CancelFunc(w, j, attempts)
  /\ heart' = [heart EXCEPT ![w] = HeartAfter(heart[w].lost \ {j}, heart[w].cancel)]
  /\ UNCHANGED <<storeVars, loop, permits, stopping, faults>>

\* A record that is to be canceled has its context canceled.
BeatCancels(w, j) ==
  /\ heart[w].pc = "answered"
  /\ heart[w].lost = {}
  /\ j \in heart[w].cancel
  /\ attempts' = CancelFunc(w, j, attempts)
  /\ heart' = [heart EXCEPT ![w] = HeartAfter({}, heart[w].cancel \ {j})]
  /\ UNCHANGED <<storeVars, loop, permits, running, stopping, faults>>
----------------------------------------------------------------------------
(***************************************************************************)
(* The rest of the system.  Every replica runs its own resetter, so that   *)
(* the two reset statements come in any order.                             *)
(***************************************************************************)
Resetter(S) == ResetStalled(S) \/ ResetStalledMaxResets(S)

\* Time passes.  With TimelyHeartbeats only a record that no worker
\* refreshes becomes stale.
PoolTime(j) ==
  \/ (TimelyHeartbeats => Unattended(j)) /\ Stall(j)
  \/ CoolDown(j)

Environment ==
  /\ \/ \E j \in Jobs : Enqueue(j) \/ PoolTime(j)
     \/ \E S \in SUBSET Jobs : Resetter(S) \/ CancelSyncJob(S) \/ CleanSyncJobs(S)
  /\ UNCHANGED <<workerVars, faults>>

WorkerNext(w) ==
  \/ \E C \in SUBSET Jobs : PollBegins(w, C)
  \/ \E j \in Jobs : PollClaims(w, j)
  \/ PollEmpty(w) \/ PollFails(w) \/ Register(w)
  \/ Stop(w) \/ LoopBreaks(w) \/ Finish(w) \/ Crash(w)
  \/ BeatBegins(w) \/ BeatAnswered(w) \/ BeatFails(w)
  \/ \E j \in Jobs : BeatDrops(w, j) \/ BeatCancels(w, j)

HandlerNext(a) ==
  \/ \E result \in {"ok", "error", "nonretryable", "ctx"} : HandlerReturns(a, result)
  \/ HandlerMarks(a) \/ HandlerMarkFails(a)
  \/ HandlerReleases(a) \/ HandlerUnregisters(a)

PoolNext ==
  \/ \E w \in Hosts : WorkerNext(w)
  \/ \E a \in Attempts : HandlerNext(a)
  \/ Environment

PoolSpec == PoolInit /\ [][PoolNext]_poolVars

(***************************************************************************)
(* Fairness.  Goroutines that can run do run, the resetter polls, time     *)
(* passes, and the dequeue loop polls.  A handler returns once its context *)
(* is canceled; that it returns without being told to is assumed only if   *)
(* HandlersReturn.  Nothing is assumed of producers, cancellations, the    *)
(* cleaner, faults, Stop and Crash.                                        *)
(***************************************************************************)
Fairness ==
  /\ \A w \in Hosts :
       /\ WF_poolVars(\E C \in SUBSET Jobs : PollBegins(w, C))
       /\ WF_poolVars((\E j \in Jobs : PollClaims(w, j)) \/ PollEmpty(w) \/ PollFails(w))
       /\ WF_poolVars(Register(w))
       /\ WF_poolVars(LoopBreaks(w)) /\ WF_poolVars(Finish(w))
       /\ WF_poolVars(BeatBegins(w)) /\ WF_poolVars(BeatAnswered(w) \/ BeatFails(w))
       /\ WF_poolVars(\E j \in Jobs : BeatDrops(w, j) \/ BeatCancels(w, j))
  /\ \A a \in Attempts :
       /\ WF_poolVars(/\ HandlersReturn \/ attempts[a].canceled
                      /\ \E result \in {"ok", "error", "nonretryable", "ctx"} :
                           HandlerReturns(a, result))
       /\ WF_poolVars(HandlerMarks(a) \/ HandlerMarkFails(a))
       /\ WF_poolVars(HandlerReleases(a)) /\ WF_poolVars(HandlerUnregisters(a))
  /\ \A j \in Jobs :
       /\ WF_poolVars(/\ Unattended(j) /\ Stall(j) /\ UNCHANGED <<workerVars, faults>>)
       /\ WF_poolVars(CoolDown(j) /\ UNCHANGED <<workerVars, faults>>)
       /\ WF_poolVars(/\ \E S \in SUBSET Jobs : j \in S /\ Resetter(S)
                      /\ UNCHANGED <<workerVars, faults>>)

FairPoolSpec == PoolSpec /\ Fairness
----------------------------------------------------------------------------
LoopStates == {"idle", "selecting", "adding", "draining", "finished", "crashed"}

Attempt == [pc : AttemptStates, worker : Hosts \cup {Unset}, canceled : BOOLEAN]

Heart == [pc : {"idle", "sliced", "answered"}, ids : SUBSET Jobs,
          lost : SUBSET Jobs, cancel : SUBSET Jobs]

WorkerTypeOK ==
  /\ loop \in [Hosts -> LoopStates]
  /\ permits \in [Hosts -> Nat]
  /\ running \in [Hosts -> [Jobs -> 0 .. MaxAttempts]]
  /\ attempts \in [Attempts -> Attempt]
  /\ heart \in [Hosts -> Heart]
  /\ stopping \in [Hosts -> BOOLEAN]
  /\ faults \in Nat

\* The table and the state of the workers are well formed.
PoolTypeOK == StoreTypeOK /\ WorkerTypeOK

(***************************************************************************)
(* The handler semaphore neither leaks nor overflows: on a live worker     *)
(* every token is in the channel, held by the dequeue in flight or held by *)
(* an attempt, on all paths through dequeueAndHandle (nothing dequeued,    *)
(* failed call, ErrJobAlreadyExists) and its goroutine.  Hence at most     *)
(* NumHandlers handlers run, and a worker that has work to do never waits  *)
(* for a token nobody will return.                                         *)
(***************************************************************************)
PermitsConserved ==
  \A w \in Hosts :
    loop[w] # "crashed" =>
      permits[w] + Cardinality(AttemptsOf(w, HoldsPermit))
        + (IF loop[w] = "selecting" THEN 1 ELSE 0) = NumHandlers

(***************************************************************************)
(* A handler never runs out of reach: while Handle runs, either the record *)
(* is registered in the IDSet under this very attempt, so that heartbeats  *)
(* refresh it and a cancellation reaches it, or its context is canceled    *)
(* already.  This holds although the heartbeat goroutine and a late        *)
(* goroutine of an earlier attempt remove identifiers by name.             *)
(***************************************************************************)
NoOrphanHandler ==
  \A a \in Attempts :
    attempts[a].pc = "handling" =>
      attempts[a].canceled \/ running[attempts[a].worker][a[1]] = a[2]

(***************************************************************************)
(* The IDSet does not leak: an identifier is registered only for an        *)
(* attempt of this worker that has not ended, whose deferred Remove is     *)
(* still to come.                                                          *)
(***************************************************************************)
NoDanglingID ==
  \A w \in Hosts, j \in Jobs :
    running[w][j] # 0 =>
      \E a \in AttemptsOf(w, InWaitGroup \cup {"released"}) : a = <<j, running[w][j]>>

\* The attempts of record j that run, and have not been told to stop.
LiveHandlers(j) ==
  {a \in Attempts : a[1] = j /\ attempts[a].pc = "handling" /\ ~attempts[a].canceled}

(***************************************************************************)
(* Heartbeats keep a record claimed "so that it will not be processed by a *)
(* second worker concurrently" (worker.go, Start): two handlers of the     *)
(* same record run at the same time only if all but one have been told to  *)
(* stop.                                                                   *)
(***************************************************************************)
OneLiveHandler == \A j \in Jobs : Cardinality(LiveHandlers(j)) <= 1

(***************************************************************************)
(* A handler that was told to stop while it is registered has a record     *)
(* whose cancellation was asked for, however late an answer of the store   *)
(* or the removal of an identifier came: "If the context is canceled, and  *)
(* the job is still part of the running ID set, we know that it has been   *)
(* canceled for that reason" (worker.go, isJobCanceled).  The IDSet does   *)
(* not tell attempts apart, and isJobCanceled is wrong for a handler whose *)
(* record has been registered again on the same worker, by a later         *)
(* attempt; it is right for the attempt that is registered.                *)
(***************************************************************************)
CanceledForThatReason ==
  \A a \in Attempts :
    attempts[a].canceled /\ running[attempts[a].worker][a[1]] = a[2]
      => jobs[a[1]].cancel

(***************************************************************************)
(* No attempt finishes the record on behalf of another one: a Mark call    *)
(* changes the row only if its attempt is the latest that was dequeued.    *)
(* (The shim passes no WorkerHostname to the store.)                       *)
(***************************************************************************)
OwnMarks ==
  [][\A a \in Attempts :
       attempts[a].pc \in Verdicts /\ attempts'[a].pc = "marked"
         /\ jobs'[a[1]] # jobs[a[1]] => a[2] = dequeues[a[1]]]_poolVars

Finished(j) == jobs[j].state \in Terminal \cup {"deleted"}

(***************************************************************************)
(* Every record is eventually finished, whatever crashes, lost answers and *)
(* cancellations happen, as long as one worker keeps running and database  *)
(* calls do not fail forever.                                              *)
(***************************************************************************)
EventuallyFinished ==
  \A j \in Jobs : (jobs[j].state = "queued") ~> Finished(j)

(***************************************************************************)
(* A cancellation of a running record takes effect, even if its handler    *)
(* would run forever.                                                      *)
(***************************************************************************)
CancelObeyed ==
  \A j \in Jobs : (jobs[j].state = "processing" /\ jobs[j].cancel) ~> Finished(j)

\* Stop terminates: it waits for the handlers of the worker, and they return.
StopReturns ==
  \A w \in Hosts : stopping[w] ~> loop[w] \in {"finished", "crashed"}
=============================================================================
