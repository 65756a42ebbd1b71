-------------------------- MODULE WorkerPool_proof --------------------------
(***************************************************************************)
(* Proofs about the worker pool, for every number of workers, records and  *)
(* handlers, with and without timely heartbeats, retries and faults.       *)
(***************************************************************************)
EXTENDS WorkerPool, WorkerStore_proof, FiniteSetTheorems, TLAPS

(***************************************************************************)
(* Every step of the pool is a statement of the store, or leaves the table *)
(* and the statements in flight alone.                                     *)
(***************************************************************************)
LEMMA PoolStepIsStoreStep ==
  ASSUME PoolNext
  PROVE  [StoreNext]_storeVars
<1>1. ASSUME NEW w \in Hosts, WorkerNext(w)
      PROVE  [StoreNext]_storeVars
  <2>1. ASSUME NEW C \in SUBSET Jobs, PollBegins(w, C)
        PROVE  StoreNext
    BY <2>1 DEF PollBegins, StoreNext
  <2>2. ASSUME NEW j \in Jobs, PollClaims(w, j)
        PROVE  StoreNext
    BY <2>2 DEF PollClaims, StoreNext
  <2>3. CASE PollEmpty(w) \/ PollFails(w)
    BY <2>3 DEF PollEmpty, PollFails, StoreNext
  <2>4. CASE Register(w) \/ Stop(w) \/ LoopBreaks(w) \/ Finish(w)
    BY <2>4 DEF Register, Stop, LoopBreaks, Finish
  <2>5. CASE Crash(w)
    BY <2>5 DEF Crash, StoreNext
  <2>6. CASE BeatBegins(w)
    BY <2>6 DEF BeatBegins
  <2>7. CASE BeatAnswered(w) \/ BeatFails(w)
    <3>1. ASSUME NEW ids, ids \in SUBSET Jobs, Heartbeat(ids, ShimHostname)
          PROVE  StoreNext
      BY <3>1 DEF StoreNext, ShimHostname
    <3>2. ASSUME NEW ids, Heartbeat(ids, ShimHostname)
          PROVE  Heartbeat(ids \cap Jobs, ShimHostname)
      BY <3>2 DEF Heartbeat, KnownIDs, UpdateRows
    <3>3. QED
      BY <2>7, <3>1, <3>2 DEF BeatAnswered, BeatFails
  <2>8. ASSUME NEW j \in Jobs, BeatDrops(w, j) \/ BeatCancels(w, j)
        PROVE  UNCHANGED storeVars
    BY <2>8 DEF BeatDrops, BeatCancels
  <2>9. QED
    BY <1>1, <2>1, <2>2, <2>3, <2>4, <2>5, <2>6, <2>7, <2>8 DEF WorkerNext
<1>2. ASSUME NEW a \in Attempts, HandlerNext(a)
      PROVE  [StoreNext]_storeVars
  <2>1. CASE HandlerMarks(a)
    BY <2>1 DEF HandlerMarks, Attempts, StoreNext, ShimHostname
  <2>2. CASE \/ \E result \in {"ok", "error", "nonretryable", "ctx"} : HandlerReturns(a, result)
             \/ HandlerMarkFails(a) \/ HandlerReleases(a) \/ HandlerUnregisters(a)
    BY <2>2 DEF HandlerReturns, HandlerMarkFails, HandlerReleases, HandlerUnregisters
  <2>3. QED
    BY <1>2, <2>1, <2>2 DEF HandlerNext
<1>3. CASE Environment
  BY <1>3 DEF Environment, PoolTime, Resetter, StoreTime, StoreNext
<1>4. QED
  BY <1>1, <1>2, <1>3 DEF PoolNext

(***************************************************************************)
(* What holds of the store holds of it in the pool.                        *)
(***************************************************************************)
LEMMA PoolImplementsStore == PoolSpec => StoreSpec
<1>1. PoolInit => StoreInit
  BY DEF PoolInit
<1>2. [PoolNext]_poolVars => [StoreNext]_storeVars
  BY PoolStepIsStoreStep DEF poolVars, storeVars
<1>3. QED
  BY <1>1, <1>2, PTL DEF PoolSpec, StoreSpec

(***************************************************************************)
(* So a poison message cannot occupy the workers of the running system     *)
(* forever, and finished records stay finished.                            *)
(***************************************************************************)
COROLLARY PoolPoisonBounded == PoolSpec => []PoisonBound /\ TerminalIsFinal
BY PoolImplementsStore, PoisonBounded, TerminalStaysFinal, PTL
----------------------------------------------------------------------------
USE PoolAssumption

(***************************************************************************)
(* The values that the actions write are of the right kind.                *)
(***************************************************************************)
LEMMA AttemptsTyped ==
  ASSUME WorkerTypeOK
  PROVE  /\ NoAttempt \in Attempt /\ Gone \in Attempt
         /\ \A w \in Hosts : [pc |-> "claimed", worker |-> w, canceled |-> FALSE] \in Attempt
         /\ \A a \in Attempts : attempts[a] \in Attempt
         /\ \A r \in Attempt, pc \in AttemptStates : [r EXCEPT !.pc = pc] \in Attempt
         /\ \A w, j : CancelFunc(w, j, attempts) \in [Attempts -> Attempt]
<1>1. NoAttempt \in Attempt /\ Gone \in Attempt
  BY DEF NoAttempt, Gone, Attempt, AttemptStates
<1>2. ASSUME NEW w \in Hosts
      PROVE  [pc |-> "claimed", worker |-> w, canceled |-> FALSE] \in Attempt
  BY DEF Attempt, AttemptStates, HoldsPermit
<1>3. \A a \in Attempts : attempts[a] \in Attempt
  BY DEF WorkerTypeOK
<1>4. \A r \in Attempt, pc \in AttemptStates : [r EXCEPT !.pc = pc] \in Attempt
  BY DEF Attempt
<1>5. ASSUME NEW w, NEW j PROVE CancelFunc(w, j, attempts) \in [Attempts -> Attempt]
  <2>1. \A r \in Attempt : [r EXCEPT !.canceled = TRUE] \in Attempt
    BY DEF Attempt
  <2>2. QED
    BY <1>3, <2>1 DEF CancelFunc, WorkerTypeOK
<1>6. QED
  BY <1>1, <1>2, <1>3, <1>4, <1>5

(***************************************************************************)
(* A registration in an IDSet, or its removal, keeps the IDSets well       *)
(* formed.                                                                 *)
(***************************************************************************)
LEMMA RunningTyped ==
  ASSUME running \in [Hosts -> [Jobs -> 0 .. MaxAttempts]]
  PROVE  /\ 0 \in 0 .. MaxAttempts
         /\ \A w, j : \A n \in 0 .. MaxAttempts :
              [running EXCEPT ![w][j] = n] \in [Hosts -> [Jobs -> 0 .. MaxAttempts]]
<1>1. 0 \in 0 .. MaxAttempts
  BY StoreAssumption DEF MaxAttempts, Budget
<1>2. ASSUME NEW w, NEW j, NEW n \in 0 .. MaxAttempts
      PROVE  [running EXCEPT ![w][j] = n] \in [Hosts -> [Jobs -> 0 .. MaxAttempts]]
  <2>1. w \in Hosts => [running[w] EXCEPT ![j] = n] \in [Jobs -> 0 .. MaxAttempts]
    OBVIOUS
  <2>2. QED
    BY <2>1
<1>3. QED
  BY <1>1, <1>2

(***************************************************************************)
(* Every action of a worker keeps the state of the workers well formed.    *)
(***************************************************************************)
LEMMA WorkerTypeStep ==
  ASSUME WorkerTypeOK, PoolNext
  PROVE  WorkerTypeOK'
<1> USE DEF WorkerTypeOK
<1>0. /\ NoAttempt \in Attempt /\ Gone \in Attempt
      /\ \A w \in Hosts : [pc |-> "claimed", worker |-> w, canceled |-> FALSE] \in Attempt
      /\ \A a \in Attempts : attempts[a] \in Attempt
      /\ \A r \in Attempt, pc \in AttemptStates : [r EXCEPT !.pc = pc] \in Attempt
      /\ \A w, j : CancelFunc(w, j, attempts) \in [Attempts -> Attempt]
  BY AttemptsTyped
<1>h. /\ HeartIdle \in Heart
      /\ \A lost, cancel \in SUBSET Jobs : HeartAfter(lost, cancel) \in Heart
      /\ \A h \in Hosts : heart[h] \in Heart
  BY DEF HeartIdle, Heart, HeartAfter
<1>p. {"handling", "marked", "released", "complete", "errored", "failed", "canceled"}
        \subseteq AttemptStates
  BY DEF AttemptStates, HoldsPermit, InWaitGroup, Verdicts
<1>1. ASSUME NEW w \in Hosts, NEW C \in SUBSET Jobs, PollBegins(w, C)
      PROVE  WorkerTypeOK'
  BY <1>1 DEF PollBegins, LoopStates
<1>2. ASSUME NEW w \in Hosts, NEW j \in Jobs, PollClaims(w, j)
      PROVE  WorkerTypeOK'
  <2>1. attempts' \in [Attempts -> Attempt]
    BY <1>0, <1>2 DEF PollClaims
  <2>2. QED
    BY <1>2, <2>1 DEF PollClaims, LoopStates
<1>3. ASSUME NEW w \in Hosts, PollEmpty(w)
      PROVE  WorkerTypeOK'
  BY <1>3 DEF PollEmpty, LoopStates
<1>4. ASSUME NEW w \in Hosts, PollFails(w)
      PROVE  WorkerTypeOK'
  <2>1. attempts' \in [Attempts -> Attempt]
    BY <1>0, <1>4 DEF PollFails
  <2>2. faults' \in Nat
    BY <1>4 DEF PollFails, Fault
  <2>3. QED
    BY <1>4, <2>1, <2>2 DEF PollFails, LoopStates
<1>5. ASSUME NEW w \in Hosts, Register(w)
      PROVE  WorkerTypeOK'
  <2> PICK a \in AttemptsOf(w, {"claimed"}) :
         IF Has(w, a[1])
         THEN /\ attempts' = [attempts EXCEPT ![a] = Gone]
              /\ permits' = [permits EXCEPT ![w] = @ + 1]
              /\ UNCHANGED running
         ELSE /\ running' = [running EXCEPT ![w][a[1]] = a[2]]
              /\ attempts' = [attempts EXCEPT ![a].pc = "handling"]
              /\ UNCHANGED permits
    BY <1>5 DEF Register
  <2>1. a \in Attempts /\ a[1] \in Jobs /\ a[2] \in 0 .. MaxAttempts
    BY DEF AttemptsOf, Attempts
  <2>2. [attempts[a] EXCEPT !.pc = "handling"] \in Attempt
    BY <1>0, <1>p, <2>1
  <2>3. attempts' \in [Attempts -> Attempt]
    BY <1>0, <2>1, <2>2
  <2>4. running' \in [Hosts -> [Jobs -> 0 .. MaxAttempts]]
    <3>1. CASE Has(w, a[1])
      BY <3>1
    <3>2. CASE ~Has(w, a[1])
      <4>1. running' = [running EXCEPT ![w][a[1]] = a[2]]
        BY <3>2, Zenon
      <4>2. QED
        BY <2>1, <4>1, RunningTyped, Zenon
    <3>3. QED
      BY <3>1, <3>2
  <2>5. permits' \in [Hosts -> Nat]
    OBVIOUS
  <2>6. QED
    BY <1>5, <2>3, <2>4, <2>5 DEF Register, LoopStates
<1>6. ASSUME NEW w \in Hosts, Stop(w) \/ LoopBreaks(w) \/ Finish(w)
      PROVE  WorkerTypeOK'
  BY <1>6 DEF Stop, LoopBreaks, Finish, LoopStates
<1>7. ASSUME NEW w \in Hosts, Crash(w)
      PROVE  WorkerTypeOK'
  <2>1. attempts' \in [Attempts -> Attempt]
    BY <1>0, <1>7 DEF Crash
  <2>2. running' \in [Hosts -> [Jobs -> 0 .. MaxAttempts]]
    BY <1>7, RunningTyped DEF Crash
  <2>3. heart' \in [Hosts -> Heart]
    BY <1>7, <1>h DEF Crash
  <2>4. QED
    BY <1>7, <2>1, <2>2, <2>3 DEF Crash, LoopStates
<1>8. ASSUME NEW a \in Attempts, NEW result \in {"ok", "error", "nonretryable", "ctx"},
             HandlerReturns(a, result)
      PROVE  WorkerTypeOK'
  <2>1. Verdict(a, result) \in AttemptStates
    BY <1>p DEF Verdict
  <2>2. [attempts[a] EXCEPT !.pc = Verdict(a, result), !.canceled = FALSE] \in Attempt
    BY <1>0, <2>1 DEF Attempt
  <2>3. attempts' = [attempts EXCEPT ![a] =
                       [attempts[a] EXCEPT !.pc = Verdict(a, result), !.canceled = FALSE]]
    BY <1>8 DEF HandlerReturns
  <2>4. QED
    BY <1>8, <2>2, <2>3 DEF HandlerReturns
<1>9. ASSUME NEW a \in Attempts,
             \/ HandlerMarks(a) \/ HandlerMarkFails(a) \/ HandlerReleases(a)
      PROVE  WorkerTypeOK'
  <2>1. /\ [attempts[a] EXCEPT !.pc = "marked"] \in Attempt
        /\ [attempts[a] EXCEPT !.pc = "released"] \in Attempt
    BY <1>0, <1>p
  <2>2. attempts' \in [Attempts -> Attempt]
    BY <1>9, <2>1 DEF HandlerMarks, HandlerMarkFails, HandlerReleases
  <2>3. faults' \in Nat /\ permits' \in [Hosts -> Nat]
    BY <1>9 DEF HandlerMarks, HandlerMarkFails, HandlerReleases, Fault
  <2>4. QED
    BY <1>9, <2>2, <2>3 DEF HandlerMarks, HandlerMarkFails, HandlerReleases
<1>10. ASSUME NEW a \in Attempts, HandlerUnregisters(a)
       PROVE  WorkerTypeOK'
  <2>1. attempts' \in [Attempts -> Attempt]
    BY <1>0, <1>10 DEF HandlerUnregisters
  <2>2. running' \in [Hosts -> [Jobs -> 0 .. MaxAttempts]]
    BY <1>10, RunningTyped DEF HandlerUnregisters, RemoveID
  <2>3. QED
    BY <1>10, <2>1, <2>2 DEF HandlerUnregisters
<1>11. ASSUME NEW w \in Hosts, BeatBegins(w)
       PROVE  WorkerTypeOK'
  <2>1. [heart[w] EXCEPT !.pc = "sliced", !.ids = Slice(w)] \in Heart
    BY <1>h DEF Heart, Slice
  <2>2. heart' = [heart EXCEPT ![w] = [heart[w] EXCEPT !.pc = "sliced", !.ids = Slice(w)]]
    BY <1>11 DEF BeatBegins
  <2>3. QED
    BY <1>11, <2>1, <2>2 DEF BeatBegins
<1>12. ASSUME NEW w \in Hosts, BeatAnswered(w) \/ BeatFails(w)
       PROVE  WorkerTypeOK'
  <2>1. heart[w].ids \in SUBSET Jobs
    BY <1>h DEF Heart
  <2>2. HeartAfter(heart[w].ids \ KnownIDs(heart[w].ids, ShimHostname),
                   CancelIDs(heart[w].ids, ShimHostname)) \in Heart
    BY <1>h, <2>1 DEF CancelIDs, KnownIDs
  <2>3. heart' \in [Hosts -> Heart]
    BY <1>12, <1>h, <2>2 DEF BeatAnswered, BeatFails
  <2>4. faults' \in Nat
    BY <1>12 DEF BeatAnswered, BeatFails, Fault
  <2>5. QED
    BY <1>12, <2>3, <2>4 DEF BeatAnswered, BeatFails
<1>13. ASSUME NEW w \in Hosts, NEW j \in Jobs, BeatDrops(w, j) \/ BeatCancels(w, j)
       PROVE  WorkerTypeOK'
  <2>1. heart[w].lost \in SUBSET Jobs /\ heart[w].cancel \in SUBSET Jobs
    BY <1>h DEF Heart
  <2>2. /\ HeartAfter(heart[w].lost \ {j}, heart[w].cancel) \in Heart
        /\ HeartAfter({}, heart[w].cancel \ {j}) \in Heart
    BY <1>h, <2>1
  <2>3. heart' \in [Hosts -> Heart]
    BY <1>13, <2>2 DEF BeatDrops, BeatCancels
  <2>4. attempts' \in [Attempts -> Attempt]
    BY <1>0, <1>13 DEF BeatDrops, BeatCancels
  <2>5. running' \in [Hosts -> [Jobs -> 0 .. MaxAttempts]]
    <3>1. CASE BeatDrops(w, j)
      BY <3>1, RunningTyped, Zenon DEF BeatDrops, RemoveID
    <3>2. CASE BeatCancels(w, j)
      BY <3>2 DEF BeatCancels
    <3>3. QED
      BY <1>13, <3>1, <3>2
  <2>6. QED
    BY <1>13, <2>3, <2>4, <2>5 DEF BeatDrops, BeatCancels
<1>14. CASE Environment
  BY <1>14 DEF Environment, workerVars
<1>15. QED
  BY <1>1, <1>2, <1>3, <1>4, <1>5, <1>6, <1>7, <1>8, <1>9, <1>10, <1>11, <1>12,
     <1>13, <1>14 DEF PoolNext, WorkerNext, HandlerNext

(***************************************************************************)
(* The table and the state of the workers stay well formed; in particular  *)
(* no handlerSemaphore is ever overdrawn.                                  *)
(***************************************************************************)
THEOREM PoolTypeCorrect == PoolSpec => []PoolTypeOK
<1>1. PoolInit => WorkerTypeOK
  <2> SUFFICES ASSUME PoolInit PROVE WorkerTypeOK
    OBVIOUS
  <2>1. NoAttempt \in Attempt /\ HeartIdle \in Heart
    BY DEF NoAttempt, Attempt, AttemptStates, HeartIdle, Heart
  <2>2. 0 \in 0 .. MaxAttempts
    BY StoreAssumption DEF MaxAttempts, Budget
  <2>3. QED
    BY <2>1, <2>2 DEF PoolInit, WorkerTypeOK, LoopStates
<1>2. WorkerTypeOK /\ [PoolNext]_poolVars => WorkerTypeOK'
  <2> SUFFICES ASSUME WorkerTypeOK, [PoolNext]_poolVars PROVE WorkerTypeOK'
    OBVIOUS
  <2>1. CASE UNCHANGED poolVars
    BY <2>1 DEF poolVars, workerVars, WorkerTypeOK
  <2>2. QED
    BY <2>1, WorkerTypeStep
<1>3. PoolSpec => []StoreTypeOK
  BY PoolImplementsStore, StoreTypeCorrect, PTL
<1>4. QED
  BY <1>1, <1>2, <1>3, PTL DEF PoolSpec, PoolTypeOK
----------------------------------------------------------------------------
\* An attempt that is under way belongs to a worker.
Owned ==
  \A a \in Attempts :
    attempts[a].pc \notin {"none", "gone"} => attempts[a].worker \in Hosts

IDInv == WorkerTypeOK /\ Owned /\ NoOrphanHandler

(***************************************************************************)
(* A cancel function changes at most the canceled flag of one attempt,     *)
(* and only sets it.                                                       *)
(***************************************************************************)
LEMMA CancelFuncEffect ==
  ASSUME WorkerTypeOK, NEW w, NEW j, NEW b \in Attempts
  PROVE  /\ CancelFunc(w, j, attempts)[b].pc = attempts[b].pc
         /\ CancelFunc(w, j, attempts)[b].worker = attempts[b].worker
         /\ attempts[b].canceled => CancelFunc(w, j, attempts)[b].canceled
         /\ attempts[b].pc = "handling" /\ b = <<j, running[w][j]>>
              => CancelFunc(w, j, attempts)[b].canceled
<1> DEFINE a == <<j, running[w][j]>>
<1>t. attempts \in [Attempts -> Attempt] /\ attempts[b] \in Attempt
  BY DEF WorkerTypeOK
<1>1. CASE ~(a \in Attempts /\ attempts[a].pc = "handling")
  <2>1. CancelFunc(w, j, attempts) = attempts
    BY <1>1 DEF CancelFunc
  <2>2. QED
    BY <1>1, <2>1
<1>2. CASE a \in Attempts /\ attempts[a].pc = "handling"
  <2>1. CancelFunc(w, j, attempts) = [attempts EXCEPT ![a].canceled = TRUE]
    BY <1>2 DEF CancelFunc
  <2>2. CASE b = a
    <3>1. CancelFunc(w, j, attempts)[b] = [attempts[b] EXCEPT !.canceled = TRUE]
      BY <1>t, <1>2, <2>1, <2>2
    <3>2. QED
      BY <1>t, <3>1 DEF Attempt
  <2>3. CASE b # a
    <3>1. CancelFunc(w, j, attempts)[b] = attempts[b]
      BY <1>t, <2>1, <2>3
    <3>2. QED
      BY <2>3, <3>1
  <2>4. QED
    BY <2>2, <2>3
<1>3. QED
  BY <1>1, <1>2

(***************************************************************************)
(* runningIDSet.Remove, whoever calls it, leaves no handler out of reach:  *)
(* the attempt that loses its registration is the one that is canceled.    *)
(***************************************************************************)
LEMMA RemoveLeavesNoOrphan ==
  ASSUME IDInv, NEW w \in Hosts, NEW j \in Jobs, RemoveID(w, j),
         NEW b \in Attempts, attempts[b].pc = "handling"
  PROVE  \/ CancelFunc(w, j, attempts)[b].canceled
         \/ running'[CancelFunc(w, j, attempts)[b].worker][b[1]] = b[2]
<1>t. /\ running \in [Hosts -> [Jobs -> 0 .. MaxAttempts]]
      /\ attempts[b].worker \in Hosts
      /\ b[1] \in Jobs /\ b = <<b[1], b[2]>>
  BY DEF IDInv, WorkerTypeOK, Owned, Attempts
<1>1. CASE attempts[b].canceled
  BY <1>1, CancelFuncEffect DEF IDInv
<1>2. CASE running[attempts[b].worker][b[1]] = b[2]
  <2>1. CASE attempts[b].worker = w /\ b[1] = j
    <3>1. b = <<j, running[w][j]>>
      BY <1>t, <1>2, <2>1
    <3>2. QED
      BY <3>1, CancelFuncEffect DEF IDInv
  <2>2. CASE ~(attempts[b].worker = w /\ b[1] = j)
    <3>1. running'[attempts[b].worker][b[1]] = running[attempts[b].worker][b[1]]
      BY <1>t, <2>2 DEF RemoveID
    <3>2. QED
      BY <1>2, <3>1, CancelFuncEffect DEF IDInv
  <2>3. QED
    BY <2>1, <2>2
<1>3. QED
  BY <1>1, <1>2 DEF IDInv, NoOrphanHandler

(***************************************************************************)
(* Every action keeps every running handler within reach.                  *)
(***************************************************************************)
LEMMA NoOrphanStep ==
  ASSUME IDInv, PoolNext
  PROVE  Owned' /\ NoOrphanHandler'
<1> SUFFICES ASSUME NEW b \in Attempts
             PROVE  /\ attempts'[b].pc \notin {"none", "gone"} => attempts'[b].worker \in Hosts
                    /\ attempts'[b].pc = "handling" =>
                         \/ attempts'[b].canceled
                         \/ running'[attempts'[b].worker][b[1]] = b[2]
  BY DEF Owned, NoOrphanHandler
<1> DEFINE Good == /\ attempts'[b].pc \notin {"none", "gone"} => attempts'[b].worker \in Hosts
                   /\ attempts'[b].pc = "handling" =>
                        \/ attempts'[b].canceled
                        \/ running'[attempts'[b].worker][b[1]] = b[2]
<1>t. /\ attempts \in [Attempts -> Attempt] /\ attempts[b] \in Attempt
      /\ running \in [Hosts -> [Jobs -> 0 .. MaxAttempts]]
      /\ b[1] \in Jobs /\ b[2] \in 1 .. MaxAttempts /\ b = <<b[1], b[2]>>
  BY DEF IDInv, WorkerTypeOK, Attempts
<1>0. /\ attempts[b].pc \notin {"none", "gone"} => attempts[b].worker \in Hosts
      /\ attempts[b].pc = "handling" =>
           attempts[b].canceled \/ running[attempts[b].worker][b[1]] = b[2]
  BY DEF IDInv, Owned, NoOrphanHandler
<1>same. ASSUME attempts'[b] = attempts[b], UNCHANGED running PROVE Good
  BY <1>0, <1>same
<1>1. ASSUME NEW w \in Hosts, NEW C \in SUBSET Jobs, PollBegins(w, C)
      PROVE  Good
  BY <1>1, <1>same DEF PollBegins
<1>2. ASSUME NEW w \in Hosts, NEW j \in Jobs, PollClaims(w, j)
      PROVE  Good
  <2>1. \/ attempts'[b] = attempts[b]
        \/ attempts'[b] = [pc |-> "claimed", worker |-> w, canceled |-> FALSE]
    BY <1>t, <1>2 DEF PollClaims
  <2>2. UNCHANGED running
    BY <1>2 DEF PollClaims
  <2>3. QED
    BY <1>same, <2>1, <2>2
<1>3. ASSUME NEW w \in Hosts, PollEmpty(w) \/ PollFails(w)
      PROVE  Good
  <2>1. attempts'[b] = attempts[b] \/ attempts'[b] = Gone
    BY <1>t, <1>3 DEF PollEmpty, PollFails
  <2>2. UNCHANGED running
    BY <1>3 DEF PollEmpty, PollFails
  <2>3. QED
    BY <1>same, <2>1, <2>2 DEF Gone
<1>4. ASSUME NEW w \in Hosts, Register(w)
      PROVE  Good
  <2> PICK a \in AttemptsOf(w, {"claimed"}) :
         IF Has(w, a[1])
         THEN /\ attempts' = [attempts EXCEPT ![a] = Gone]
              /\ permits' = [permits EXCEPT ![w] = @ + 1]
              /\ UNCHANGED running
         ELSE /\ running' = [running EXCEPT ![w][a[1]] = a[2]]
              /\ attempts' = [attempts EXCEPT ![a].pc = "handling"]
              /\ UNCHANGED permits
    BY <1>4 DEF Register
  <2>0. /\ a \in Attempts /\ attempts[a].worker = w /\ attempts[a] \in Attempt
        /\ a[1] \in Jobs /\ a = <<a[1], a[2]>>
    BY DEF AttemptsOf, Attempts, IDInv, WorkerTypeOK
  <2>1. CASE Has(w, a[1])
    <3>1. /\ attempts'[b] = attempts[b] \/ attempts'[b] = Gone
          /\ UNCHANGED running
      BY <1>t, <2>0, <2>1
    <3>2. QED
      BY <1>same, <3>1 DEF Gone
  <2>2. CASE ~Has(w, a[1])
    <3>0. /\ running' = [running EXCEPT ![w][a[1]] = a[2]]
          /\ attempts' = [attempts EXCEPT ![a].pc = "handling"]
          /\ running[w][a[1]] = 0
      BY <2>2 DEF Has
    <3>1. CASE b = a
      <4>1. attempts'[b] = [attempts[b] EXCEPT !.pc = "handling"]
        BY <1>t, <3>0, <3>1
      <4>2. attempts'[b].worker = w
        BY <1>t, <2>0, <3>1, <4>1 DEF Attempt
      <4>3. running'[w][b[1]] = b[2]
        BY <1>t, <3>0, <3>1
      <4>4. QED
        BY <4>2, <4>3
    <3>2. CASE b # a
      <4>1. attempts'[b] = attempts[b]
        BY <1>t, <3>0, <3>2
      <4>2. ASSUME attempts[b].pc = "handling", ~attempts[b].canceled
            PROVE  running'[attempts[b].worker][b[1]] = b[2]
        <5>1. running[attempts[b].worker][b[1]] = b[2] /\ attempts[b].worker \in Hosts
          BY <1>0, <4>2
        <5>2. ~(attempts[b].worker = w /\ b[1] = a[1])
          BY <1>t, <3>0, <5>1
        <5>3. QED
          BY <1>t, <3>0, <5>1, <5>2
      <4>3. QED
        BY <1>0, <4>1, <4>2
    <3>3. QED
      BY <3>1, <3>2
  <2>3. QED
    BY <2>1, <2>2
<1>5. ASSUME NEW w \in Hosts, Stop(w) \/ LoopBreaks(w) \/ Finish(w)
      PROVE  Good
  BY <1>5, <1>same DEF Stop, LoopBreaks, Finish
<1>6. ASSUME NEW w \in Hosts, Crash(w)
      PROVE  Good
  <2>1. CASE attempts[b].worker = w
    <3>1. attempts'[b] = Gone
      BY <1>6, <2>1 DEF Crash
    <3>2. QED
      BY <3>1 DEF Gone
  <2>2. CASE attempts[b].worker # w
    <3>1. attempts'[b] = attempts[b]
      BY <1>6, <2>2 DEF Crash
    <3>2. attempts[b].worker \in Hosts
            => running'[attempts[b].worker] = running[attempts[b].worker]
      BY <1>t, <1>6, <2>2 DEF Crash
    <3>3. QED
      BY <1>0, <3>1, <3>2
  <2>3. QED
    BY <2>1, <2>2
<1>7. ASSUME NEW a \in Attempts, NEW result \in {"ok", "error", "nonretryable", "ctx"},
             HandlerReturns(a, result)
      PROVE  Good
  <2>1. CASE b = a
    <3>1. attempts'[b] = [attempts[b] EXCEPT !.pc = Verdict(a, result), !.canceled = FALSE]
      BY <1>t, <1>7, <2>1 DEF HandlerReturns
    <3>2. attempts'[b].pc # "handling"
      BY <1>t, <3>1 DEF Verdict, Attempt
    <3>3. attempts'[b].worker \in Hosts
      BY <1>t, <1>0, <1>7, <2>1, <3>1 DEF Attempt, HandlerReturns
    <3>4. QED
      BY <3>2, <3>3
  <2>2. CASE b # a
    BY <1>t, <1>7, <1>same, <2>2 DEF HandlerReturns
  <2>3. QED
    BY <2>1, <2>2
<1>8. ASSUME NEW a \in Attempts,
             \/ HandlerMarks(a) \/ HandlerMarkFails(a) \/ HandlerReleases(a)
      PROVE  Good
  <2>0. UNCHANGED running
    BY <1>8 DEF HandlerMarks, HandlerMarkFails, HandlerReleases
  <2>1. CASE b = a
    <3>1. PICK pc \in {"marked", "released"} :
                 attempts'[b] = [attempts[b] EXCEPT !.pc = pc]
      BY <1>t, <1>8, <2>1 DEF HandlerMarks, HandlerMarkFails, HandlerReleases
    <3>2. attempts[b].pc \notin {"none", "gone"}
      BY <1>8, <2>1 DEF HandlerMarks, HandlerMarkFails, HandlerReleases, Verdicts
    <3>3. QED
      BY <1>t, <1>0, <3>1, <3>2 DEF Attempt
  <2>2. CASE b # a
    <3>1. attempts'[b] = attempts[b]
      BY <1>t, <1>8, <2>2 DEF HandlerMarks, HandlerMarkFails, HandlerReleases
    <3>2. QED
      BY <1>same, <2>0, <3>1
  <2>3. QED
    BY <2>1, <2>2
<1>9. ASSUME NEW a \in Attempts, HandlerUnregisters(a)
      PROVE  Good
  <2> DEFINE w == attempts[a].worker
  <2>0. w \in Hosts /\ a[1] \in Jobs /\ RemoveID(w, a[1])
        /\ attempts' = [CancelFunc(w, a[1], attempts) EXCEPT ![a] = Gone]
    BY <1>9 DEF HandlerUnregisters, IDInv, Owned, Attempts
  <2>t. CancelFunc(w, a[1], attempts) \in [Attempts -> Attempt]
    BY AttemptsTyped DEF IDInv
  <2>1. CASE b = a
    <3>1. attempts'[b] = Gone
      BY <2>0, <2>t, <2>1
    <3>2. QED
      BY <3>1 DEF Gone
  <2>2. CASE b # a
    <3>1. attempts'[b] = CancelFunc(w, a[1], attempts)[b]
      BY <2>0, <2>t, <2>2
    <3>2. /\ attempts'[b].pc = attempts[b].pc
          /\ attempts'[b].worker = attempts[b].worker
      BY <3>1, CancelFuncEffect DEF IDInv
    <3>3. QED
      BY <1>0, <2>0, <3>1, <3>2, RemoveLeavesNoOrphan
  <2>3. QED
    BY <2>1, <2>2
<1>10. ASSUME NEW w \in Hosts, BeatBegins(w) \/ BeatAnswered(w) \/ BeatFails(w)
       PROVE  Good
  BY <1>10, <1>same DEF BeatBegins, BeatAnswered, BeatFails
<1>11. ASSUME NEW w \in Hosts, NEW j \in Jobs, BeatDrops(w, j)
       PROVE  Good
  <2>0. RemoveID(w, j) /\ attempts' = CancelFunc(w, j, attempts)
    BY <1>11 DEF BeatDrops
  <2>1. /\ attempts'[b].pc = attempts[b].pc
        /\ attempts'[b].worker = attempts[b].worker
    BY <2>0, CancelFuncEffect DEF IDInv
  <2>2. QED
    BY <1>0, <2>0, <2>1, RemoveLeavesNoOrphan
<1>12. ASSUME NEW w \in Hosts, NEW j \in Jobs, BeatCancels(w, j)
       PROVE  Good
  <2>0. UNCHANGED running /\ attempts' = CancelFunc(w, j, attempts)
    BY <1>12 DEF BeatCancels
  <2>1. /\ attempts'[b].pc = attempts[b].pc
        /\ attempts'[b].worker = attempts[b].worker
        /\ attempts[b].canceled => attempts'[b].canceled
    BY <2>0, CancelFuncEffect DEF IDInv
  <2>2. QED
    BY <1>0, <2>0, <2>1
<1>13. CASE Environment
  BY <1>13, <1>same DEF Environment, workerVars
<1>14. QED
  BY <1>1, <1>2, <1>3, <1>4, <1>5, <1>6, <1>7, <1>8, <1>9, <1>10, <1>11, <1>12,
     <1>13 DEF PoolNext, WorkerNext, HandlerNext

(***************************************************************************)
(* A handler never runs out of reach, whatever the timing of heartbeats,   *)
(* resets, retries, crashes and database errors.                           *)
(***************************************************************************)
THEOREM HandlersWithinReach == PoolSpec => []NoOrphanHandler
<1>1. PoolInit => Owned /\ NoOrphanHandler
  BY DEF PoolInit, Owned, NoOrphanHandler, NoAttempt
<1>2. IDInv /\ [PoolNext]_poolVars => (Owned /\ NoOrphanHandler)'
  <2> SUFFICES ASSUME IDInv, [PoolNext]_poolVars PROVE (Owned /\ NoOrphanHandler)'
    OBVIOUS
  <2>1. CASE UNCHANGED poolVars
    BY <2>1 DEF poolVars, workerVars, IDInv, Owned, NoOrphanHandler
  <2>2. QED
    BY <2>1, NoOrphanStep
<1>3. PoolTypeOK => WorkerTypeOK
  BY DEF PoolTypeOK
<1>4. QED
  BY <1>1, <1>2, <1>3, PoolTypeCorrect, PTL DEF PoolSpec, IDInv
----------------------------------------------------------------------------
(***************************************************************************)
(* The semaphore and the IDSet.                                            *)
(***************************************************************************)
\* The pool does not requeue records.
NotRequeued == \A j \in Jobs : requeues[j] = 0

\* The next attempt of a record has not been used before.
Used(a)   == attempts[a].pc # "none" \/ attempts[a].worker \in Hosts
NextIsNew == \A a \in Attempts : Used(a) => a[2] <= dequeues[a[1]]

\* The tokens of worker w.
TokensInv(w) ==
  loop[w] # "crashed" =>
    /\ IsFiniteSet(AttemptsOf(w, HoldsPermit))
    /\ permits[w] + Cardinality(AttemptsOf(w, HoldsPermit))
         + (IF loop[w] = "selecting" THEN 1 ELSE 0) = NumHandlers

Tokens == \A w \in Hosts : TokensInv(w)

\* A step that moves no record to processing.
LEMMA CountersKept ==
  ASSUME [PoolNext]_poolVars
  PROVE  /\ UNCHANGED requeues
         /\ \/ UNCHANGED dequeues
            \/ \E w \in Hosts : PollFails(w) \/ \E j \in Jobs : PollClaims(w, j)
<1>1. ASSUME NEW w \in Hosts, WorkerNext(w)
      PROVE  /\ UNCHANGED requeues
             /\ UNCHANGED dequeues \/ PollFails(w) \/ \E j \in Jobs : PollClaims(w, j)
  BY <1>1 DEF WorkerNext, PollBegins, PollClaims, PollEmpty, PollFails, Register, Stop,
              LoopBreaks, Finish, Crash, BeatBegins, BeatAnswered, BeatFails, BeatDrops,
              BeatCancels, DequeueSelect, DequeueClaim, DequeueNone, Heartbeat, storeVars
<1>2. ASSUME NEW a \in Attempts, HandlerNext(a)
      PROVE  UNCHANGED requeues /\ UNCHANGED dequeues
  BY <1>2 DEF HandlerNext, HandlerReturns, HandlerMarks, HandlerMarkFails, HandlerReleases,
              HandlerUnregisters, MarkComplete, MarkErrored, MarkFailed, storeVars
<1>3. ASSUME Environment
      PROVE  UNCHANGED requeues /\ UNCHANGED dequeues
  BY <1>3 DEF Environment, Enqueue, PoolTime, Stall, CoolDown, Resetter, ResetStalled,
              ResetStalledMaxResets, CancelSyncJob, CleanSyncJobs
<1>4. ASSUME UNCHANGED poolVars
      PROVE  UNCHANGED requeues /\ UNCHANGED dequeues
  BY <1>4 DEF poolVars, storeVars
<1>5. QED
  BY <1>1, <1>2, <1>3, <1>4 DEF PoolNext

\* What a Dequeue statement that claims a record does, whoever hears of it.
LEMMA ClaimCounts ==
  ASSUME StoreTypeOK, NEW w \in Hosts, NEW j \in Jobs, DequeueClaim(w, j)
  PROVE  /\ dequeues[j] \in Nat /\ dequeues'[j] = dequeues[j] + 1
         /\ \A i \in Jobs : i # j => dequeues'[i] = dequeues[i]
BY DEF StoreTypeOK, DequeueClaim

(***************************************************************************)
(* What a step does to one attempt: it stays where it is, though it may be *)
(* canceled; it is claimed; its goroutine goes on; or it is lost.          *)
(***************************************************************************)
Canceling(b) ==
  \/ \E w \in Hosts : BeatDrops(w, b[1]) \/ BeatCancels(w, b[1])
  \/ \E a \in Attempts : a[1] = b[1] /\ HandlerUnregisters(a)

Kept(b) ==
  /\ attempts'[b].pc = attempts[b].pc /\ attempts'[b].worker = attempts[b].worker
  /\ attempts[b].canceled => attempts'[b].canceled
  /\ attempts'[b].canceled => attempts[b].canceled \/ (attempts[b].pc = "handling" /\ Canceling(b))

Claimed(b) ==
  /\ attempts'[b].pc = "claimed" /\ ~attempts'[b].canceled
  /\ attempts'[b].worker \in Hosts /\ PollClaims(attempts'[b].worker, b[1])
  /\ b[2] = dequeues[b[1]] + 1

GoesOn(b) ==
  /\ attempts'[b].worker = attempts[b].worker
  /\ attempts'[b].canceled => attempts[b].canceled
  /\ \/ /\ attempts[b].pc = "claimed" /\ attempts'[b].pc = "handling"
        /\ running'[attempts[b].worker][b[1]] = b[2]
     \/ attempts[b].pc = "handling" /\ attempts'[b].pc \in Verdicts
     \/ /\ attempts[b].pc \in Verdicts /\ attempts'[b].pc = "marked"
        /\ HandlerMarks(b) \/ HandlerMarkFails(b)
     \/ attempts[b].pc = "marked" /\ attempts'[b].pc = "released"

Lost(b) ==
  /\ attempts'[b] = Gone
  /\ \/ /\ b[2] = dequeues[b[1]] + 1
        /\ \E w \in Hosts : PollFails(w) /\ DequeueClaim(w, b[1])
     \/ attempts[b].pc = "claimed"
     \/ HandlerUnregisters(b)
     \/ attempts[b].worker \in Hosts /\ Crash(attempts[b].worker)

\* A cancel function reaches only the attempt that is registered, while it runs.
LEMMA CancelFuncTarget ==
  ASSUME WorkerTypeOK, NEW w, NEW j, NEW b \in Attempts,
         CancelFunc(w, j, attempts)[b] # attempts[b]
  PROVE  b[1] = j /\ attempts[b].pc = "handling" /\ b = <<j, running[w][j]>>
<1> DEFINE a == <<j, running[w][j]>>
<1>t. attempts \in [Attempts -> Attempt]
  BY DEF WorkerTypeOK
<1>1. a \in Attempts /\ attempts[a].pc = "handling"
      /\ CancelFunc(w, j, attempts) = [attempts EXCEPT ![a].canceled = TRUE]
  BY DEF CancelFunc
<1>2. b = a
  BY <1>1, <1>t
<1>3. QED
  BY <1>1, <1>2

LEMMA AttemptMoves ==
  ASSUME WorkerTypeOK, PoolNext, NEW b \in Attempts
  PROVE  Kept(b) \/ Claimed(b) \/ GoesOn(b) \/ Lost(b)
<1> DEFINE Good == Kept(b) \/ Claimed(b) \/ GoesOn(b) \/ Lost(b)
<1>t. /\ attempts \in [Attempts -> Attempt] /\ attempts[b] \in Attempt
      /\ running \in [Hosts -> [Jobs -> 0 .. MaxAttempts]]
      /\ b[1] \in Jobs /\ b = <<b[1], b[2]>>
  BY DEF WorkerTypeOK, Attempts
<1>same. ASSUME attempts'[b] = attempts[b]
         PROVE  Good
  BY <1>same DEF Kept
<1>c. ASSUME NEW w, NEW j, attempts'[b] = CancelFunc(w, j, attempts)[b],
             b[1] = j => Canceling(b)
      PROVE  Good
  <2>1. /\ attempts'[b].pc = attempts[b].pc /\ attempts'[b].worker = attempts[b].worker
        /\ attempts[b].canceled => attempts'[b].canceled
    BY <1>c, CancelFuncEffect
  <2>2. CASE attempts'[b] = attempts[b]
    BY <1>same, <2>2
  <2>3. CASE attempts'[b] # attempts[b]
    <3>1. b[1] = j /\ attempts[b].pc = "handling"
      BY <1>c, <2>3, CancelFuncTarget
    <3>2. QED
      BY <1>c, <2>1, <3>1 DEF Kept
  <2>4. QED
    BY <2>2, <2>3
<1>1. ASSUME NEW w \in Hosts, NEW j \in Jobs, PollClaims(w, j)
      PROVE  Good
  <2> DEFINE new == [pc |-> "claimed", worker |-> w, canceled |-> FALSE]
  <2>1. attempts' = [attempts EXCEPT ![<<j, dequeues[j] + 1>>] = new]
    BY <1>1 DEF PollClaims
  <2>2. CASE b = <<j, dequeues[j] + 1>>
    <3>1. attempts'[b] = new /\ b[1] = j /\ b[2] = dequeues[j] + 1
      BY <1>t, <2>1, <2>2
    <3>2. Claimed(b)
      BY <1>1, <3>1 DEF Claimed
    <3>3. QED
      BY <3>2
  <2>3. CASE b # <<j, dequeues[j] + 1>>
    BY <1>same, <1>t, <2>1, <2>3
  <2>4. QED
    BY <2>2, <2>3
<1>2. ASSUME NEW w \in Hosts, PollFails(w)
      PROVE  Good
  <2>1. CASE UNCHANGED attempts
    BY <1>same, <2>1
  <2>2. ASSUME NEW j \in Jobs, DequeueClaim(w, j),
               attempts' = [attempts EXCEPT ![<<j, dequeues[j] + 1>>] = Gone]
        PROVE  Good
    <3>1. CASE b = <<j, dequeues[j] + 1>>
      <4>1. attempts'[b] = Gone /\ b[1] = j /\ b[2] = dequeues[j] + 1
        BY <1>t, <2>2, <3>1
      <4>2. Lost(b)
        BY <1>2, <2>2, <4>1 DEF Lost
      <4>3. QED
        BY <4>2
    <3>2. CASE b # <<j, dequeues[j] + 1>>
      BY <1>same, <1>t, <2>2, <3>2
    <3>3. QED
      BY <3>1, <3>2
  <2>3. QED
    BY <1>2, <2>1, <2>2 DEF PollFails
<1>3. ASSUME NEW w \in Hosts, Register(w)
      PROVE  Good
  <2>1. PICK a \in AttemptsOf(w, {"claimed"}) :
               \/ attempts' = [attempts EXCEPT ![a] = Gone]
               \/ /\ attempts' = [attempts EXCEPT ![a].pc = "handling"]
                  /\ running' = [running EXCEPT ![w][a[1]] = a[2]]
    BY <1>3 DEF Register
  <2>2. a \in Attempts /\ attempts[a].pc = "claimed" /\ attempts[a].worker = w
    BY DEF AttemptsOf
  <2>3. CASE b # a
    BY <1>same, <1>t, <2>1, <2>2, <2>3
  <2>4. CASE b = a /\ attempts' = [attempts EXCEPT ![a] = Gone]
    BY <1>t, <2>2, <2>4 DEF Lost
  <2>5. CASE /\ b = a /\ attempts' = [attempts EXCEPT ![a].pc = "handling"]
             /\ running' = [running EXCEPT ![w][a[1]] = a[2]]
    <3>1. attempts'[b] = [attempts[b] EXCEPT !.pc = "handling"]
      BY <1>t, <2>5
    <3>2. /\ attempts'[b].pc = "handling" /\ attempts'[b].worker = attempts[b].worker
          /\ attempts'[b].canceled = attempts[b].canceled
      BY <1>t, <3>1 DEF Attempt
    <3>3. running'[w][b[1]] = b[2]
      BY <1>t, <2>5
    <3>4. GoesOn(b)
      BY <2>2, <2>5, <3>2, <3>3 DEF GoesOn
    <3>5. QED
      BY <3>4
  <2>6. QED
    BY <2>1, <2>3, <2>4, <2>5
<1>4. ASSUME NEW w \in Hosts, Crash(w)
      PROVE  Good
  <2>1. attempts'[b] = IF attempts[b].worker = w THEN Gone ELSE attempts[b]
    BY <1>4 DEF Crash
  <2>2. CASE attempts[b].worker = w
    BY <1>4, <2>1, <2>2 DEF Lost
  <2>3. CASE attempts[b].worker # w
    BY <1>same, <2>1, <2>3
  <2>4. QED
    BY <2>2, <2>3
<1>5. ASSUME NEW w \in Hosts, NEW j \in Jobs, BeatDrops(w, j) \/ BeatCancels(w, j)
      PROVE  Good
  <2>1. attempts' = CancelFunc(w, j, attempts)
    BY <1>5 DEF BeatDrops, BeatCancels
  <2>2. b[1] = j => Canceling(b)
    BY <1>5 DEF Canceling
  <2>3. QED
    BY <1>c, <2>1, <2>2
<1>6. ASSUME NEW a \in Attempts, NEW result \in {"ok", "error", "nonretryable", "ctx"},
             HandlerReturns(a, result)
      PROVE  Good
  <2>1. CASE b = a
    <3>1. /\ attempts'[b] = [attempts[b] EXCEPT !.pc = Verdict(a, result), !.canceled = FALSE]
          /\ attempts[b].pc = "handling" /\ (result = "ctx" => attempts[b].canceled)
      BY <1>t, <1>6, <2>1 DEF HandlerReturns
    <3>2. Verdict(a, result) \in Verdicts
      BY DEF Verdict, Verdicts
    <3>3. /\ attempts'[b].pc = Verdict(a, result) /\ attempts'[b].worker = attempts[b].worker
          /\ ~attempts'[b].canceled
      BY <1>t, <3>1 DEF Attempt
    <3>4. GoesOn(b)
      BY <3>1, <3>2, <3>3 DEF GoesOn
    <3>5. QED
      BY <3>4
  <2>2. CASE b # a
    BY <1>same, <1>t, <1>6, <2>2 DEF HandlerReturns
  <2>3. QED
    BY <2>1, <2>2
<1>7. ASSUME NEW a \in Attempts,
             HandlerMarks(a) \/ HandlerMarkFails(a) \/ HandlerReleases(a)
      PROVE  Good
  <2>1. CASE b # a
    BY <1>same, <1>t, <1>7, <2>1 DEF HandlerMarks, HandlerMarkFails, HandlerReleases
  <2>2. CASE b = a /\ (HandlerMarks(a) \/ HandlerMarkFails(a))
    <3>1. attempts'[b] = [attempts[b] EXCEPT !.pc = "marked"] /\ attempts[b].pc \in Verdicts
      BY <1>t, <2>2 DEF HandlerMarks, HandlerMarkFails, Verdicts
    <3>2. /\ attempts'[b].pc = "marked" /\ attempts'[b].worker = attempts[b].worker
          /\ attempts'[b].canceled = attempts[b].canceled
      BY <1>t, <3>1 DEF Attempt
    <3>3. GoesOn(b)
      BY <2>2, <3>1, <3>2 DEF GoesOn
    <3>4. QED
      BY <3>3
  <2>3. CASE b = a /\ HandlerReleases(a)
    <3>1. attempts'[b] = [attempts[b] EXCEPT !.pc = "released"] /\ attempts[b].pc = "marked"
      BY <1>t, <2>3 DEF HandlerReleases
    <3>2. /\ attempts'[b].pc = "released" /\ attempts'[b].worker = attempts[b].worker
          /\ attempts'[b].canceled = attempts[b].canceled
      BY <1>t, <3>1 DEF Attempt
    <3>3. GoesOn(b)
      BY <3>1, <3>2 DEF GoesOn
    <3>4. QED
      BY <3>3
  <2>4. QED
    BY <1>7, <2>1, <2>2, <2>3
<1>8. ASSUME NEW a \in Attempts, HandlerUnregisters(a)
      PROVE  Good
  <2> DEFINE c == CancelFunc(attempts[a].worker, a[1], attempts)
  <2>1. attempts' = [c EXCEPT ![a] = Gone]
    BY <1>8 DEF HandlerUnregisters
  <2>2. c \in [Attempts -> Attempt]
    BY AttemptsTyped
  <2>3. CASE b = a
    <3>1. attempts'[b] = Gone
      BY <2>1, <2>2, <2>3
    <3>2. QED
      BY <1>8, <2>3, <3>1 DEF Lost
  <2>4. CASE b # a
    <3>1. attempts'[b] = c[b]
      BY <2>1, <2>2, <2>4
    <3>2. b[1] = a[1] => Canceling(b)
      BY <1>8 DEF Canceling
    <3>3. QED
      BY <1>c, <3>1, <3>2
  <2>5. QED
    BY <2>3, <2>4
<1>9. ASSUME NEW w \in Hosts,
             \/ \E C \in SUBSET Jobs : PollBegins(w, C)
             \/ PollEmpty(w) \/ Stop(w) \/ LoopBreaks(w) \/ Finish(w)
             \/ BeatBegins(w) \/ BeatAnswered(w) \/ BeatFails(w)
      PROVE  Good
  BY <1>9, <1>same DEF PollBegins, PollEmpty, Stop, LoopBreaks, Finish, BeatBegins,
                       BeatAnswered, BeatFails
<1>10. ASSUME Environment
       PROVE  Good
  BY <1>10, <1>same DEF Environment, workerVars
<1>11. QED
  BY <1>1, <1>2, <1>3, <1>4, <1>5, <1>6, <1>7, <1>8, <1>9, <1>10
  DEF PoolNext, WorkerNext, HandlerNext

LEMMA NextStaysNew ==
  ASSUME StoreTypeOK, WorkerTypeOK, Owned, NextIsNew, PoolNext
  PROVE  NextIsNew'
<1> SUFFICES ASSUME NEW b \in Attempts, Used(b)'
             PROVE  b[2] <= dequeues'[b[1]]
  BY DEF NextIsNew
<1>1. b[1] \in Jobs /\ b[2] \in Nat /\ dequeues[b[1]] \in Nat
  BY DEF Attempts, StoreTypeOK
<1>2. dequeues'[b[1]] \in Nat /\ dequeues[b[1]] <= dequeues'[b[1]]
  <2>1. CASE UNCHANGED dequeues
    BY <1>1, <2>1
  <2>2. ASSUME NEW w \in Hosts, NEW j \in Jobs, DequeueClaim(w, j)
        PROVE  dequeues'[b[1]] \in Nat /\ dequeues[b[1]] <= dequeues'[b[1]]
    BY <1>1, <2>2, ClaimCounts
  <2>3. ASSUME NEW w \in Hosts, DequeueNone(w)
        PROVE  UNCHANGED dequeues
    BY <2>3 DEF DequeueNone
  <2>4. QED
    BY <2>1, <2>2, <2>3, CountersKept DEF PollFails, PollClaims
<1>3. CASE Used(b)
  BY <1>1, <1>2, <1>3 DEF NextIsNew
<1>4. CASE ~Used(b)
  <2>1. PICK w \in Hosts : b[2] = dequeues[b[1]] + 1 /\ DequeueClaim(w, b[1])
    BY <1>4, AttemptMoves
    DEF Used, Kept, Claimed, GoesOn, Lost, PollClaims, Gone, HandlerUnregisters, Verdicts
  <2>2. QED
    BY <1>1, <2>1, ClaimCounts
<1>5. QED
  BY <1>3, <1>4

\* An attempt number never exceeds the bound.
LEMMA ClaimWithinBound ==
  ASSUME StoreTypeOK, NotRequeued, PoisonBound', UNCHANGED requeues,
         NEW w \in Hosts, NEW j \in Jobs, DequeueClaim(w, j)
  PROVE  <<j, dequeues[j] + 1>> \in Attempts
<1>1. dequeues[j] \in Nat /\ dequeues'[j] = dequeues[j] + 1 /\ requeues'[j] = 0
  BY ClaimCounts DEF NotRequeued
<1>2. dequeues'[j] <= MaxNumResets + Budget + 2 * requeues'[j]
  BY DEF PoisonBound
<1>3. MaxNumResets + Budget \in Nat
  BY StoreAssumption DEF Budget
<1>4. dequeues[j] + 1 \in 1 .. MaxAttempts
  BY <1>1, <1>2, <1>3 DEF MaxAttempts
<1>5. QED
  BY <1>4 DEF Attempts

(***************************************************************************)
(* Every action keeps the tokens of every worker accounted for.            *)
(***************************************************************************)
LEMMA TokensStep ==
  ASSUME StoreTypeOK, WorkerTypeOK, Owned, NextIsNew, NotRequeued, PoisonBound', Tokens,
         PoolNext
  PROVE  Tokens'
<1> SUFFICES ASSUME NEW v \in Hosts
             PROVE  TokensInv(v)'
  BY DEF Tokens
<1> DEFINE P == AttemptsOf(v, HoldsPermit)
           sel == IF loop[v] = "selecting" THEN 1 ELSE 0
<1>t. /\ attempts \in [Attempts -> Attempt] /\ permits \in [Hosts -> Nat]
      /\ loop \in [Hosts -> LoopStates] /\ permits[v] \in Nat
      /\ \A a \in Attempts : attempts[a] \in Attempt
  BY DEF WorkerTypeOK
<1>0. loop[v] # "crashed" =>
        IsFiniteSet(P) /\ Cardinality(P) \in Nat /\ permits[v] + Cardinality(P) + sel = NumHandlers
  BY FS_CardinalityType DEF Tokens, TokensInv
<1>s. ASSUME P' = P, permits'[v] = permits[v],
             loop[v] = "crashed" => loop'[v] = "crashed",
             loop[v] = "selecting" <=> loop'[v] = "selecting"
      PROVE  TokensInv(v)'
  BY <1>0, <1>s DEF TokensInv
<1>k. ASSUME \A b \in Attempts : attempts'[b].worker = attempts[b].worker
                                 /\ (attempts'[b].pc \in HoldsPermit <=> attempts[b].pc \in HoldsPermit)
      PROVE  P' = P
  BY <1>k DEF AttemptsOf
<1>u. ASSUME NEW j \in Jobs
      PROVE  ~Used(<<j, dequeues[j] + 1>>) \/ <<j, dequeues[j] + 1>> \notin Attempts
  BY DEF NextIsNew, StoreTypeOK
<1>1. ASSUME NEW w \in Hosts, NEW C \in SUBSET Jobs, PollBegins(w, C)
      PROVE  TokensInv(v)'
  <2>1. /\ loop[w] = "idle" /\ permits[w] > 0 /\ UNCHANGED attempts
        /\ permits' = [permits EXCEPT ![w] = permits[w] - 1]
        /\ loop' = [loop EXCEPT ![w] = "selecting"]
    BY <1>1 DEF PollBegins
  <2>2. P' = P
    BY <2>1 DEF AttemptsOf
  <2>3. CASE v = w
    <3>1. loop'[v] = "selecting" /\ permits'[v] = permits[v] - 1
      BY <1>t, <2>1, <2>3
    <3>2. QED
      BY <1>0, <1>t, <2>1, <2>2, <2>3, <3>1 DEF TokensInv
  <2>4. CASE v # w
    BY <1>s, <1>t, <2>1, <2>2, <2>4
  <2>5. QED
    BY <2>3, <2>4
<1>2. ASSUME NEW w \in Hosts, NEW j \in Jobs, PollClaims(w, j)
      PROVE  TokensInv(v)'
  <2> DEFINE a == <<j, dequeues[j] + 1>>
             new == [pc |-> "claimed", worker |-> w, canceled |-> FALSE]
  <2>1. /\ loop[w] = "selecting" /\ UNCHANGED <<permits, requeues>> /\ DequeueClaim(w, j)
        /\ attempts' = [attempts EXCEPT ![a] = new]
        /\ loop' = [loop EXCEPT ![w] = "adding"]
    BY <1>2 DEF PollClaims, DequeueClaim
  <2>2. a \in Attempts
    BY <2>1, ClaimWithinBound
  <2>3. attempts[a].worker \notin Hosts
    BY <1>u, <2>2 DEF Used
  <2> HIDE DEF a
  <2>4. attempts'[a] = new /\ \A b \in Attempts : b # a => attempts'[b] = attempts[b]
    BY <1>t, <2>1, <2>2
  <2>5. CASE v = w
    <3>1. P' = P \cup {a} /\ a \notin P
      BY <2>2, <2>3, <2>4, <2>5 DEF AttemptsOf, HoldsPermit
    <3>2. loop'[v] = "adding" /\ permits'[v] = permits[v] /\ loop[v] = "selecting"
      BY <1>t, <2>1, <2>5
    <3>3. IsFiniteSet(P) /\ permits[v] + Cardinality(P) + 1 = NumHandlers /\ Cardinality(P) \in Nat
      BY <1>0, <3>2
    <3>4. IsFiniteSet(P') /\ Cardinality(P') = Cardinality(P) + 1
      BY <3>1, <3>3, FS_AddElement
    <3>5. QED
      BY <1>t, <3>2, <3>3, <3>4 DEF TokensInv
  <2>6. CASE v # w
    <3>1. P' = P
      BY <2>3, <2>4, <2>6 DEF AttemptsOf
    <3>2. QED
      BY <1>s, <1>t, <2>1, <2>6, <3>1
  <2>7. QED
    BY <2>5, <2>6
<1>3. ASSUME NEW w \in Hosts, PollEmpty(w) \/ PollFails(w)
      PROVE  TokensInv(v)'
  <2>1. /\ loop[w] = "selecting" /\ permits' = [permits EXCEPT ![w] = permits[w] + 1]
        /\ loop' = [loop EXCEPT ![w] = "idle"]
        /\ \/ UNCHANGED attempts
           \/ \E j \in Jobs : attempts' = [attempts EXCEPT ![<<j, dequeues[j] + 1>>] = Gone]
    BY <1>3 DEF PollEmpty, PollFails
  <2>2. P' = P
    <3>1. CASE UNCHANGED attempts
      BY <3>1 DEF AttemptsOf
    <3>2. ASSUME NEW j \in Jobs, attempts' = [attempts EXCEPT ![<<j, dequeues[j] + 1>>] = Gone]
          PROVE  P' = P
      <4> DEFINE a == <<j, dequeues[j] + 1>>
      <4>1. a \in Attempts => attempts[a].worker \notin Hosts
        BY <1>u DEF Used
      <4> HIDE DEF a
      <4>2. /\ a \in Attempts => attempts'[a] = Gone
            /\ \A b \in Attempts : b # a => attempts'[b] = attempts[b]
        BY <1>t, <3>2 DEF a
      <4>3. Gone.worker \notin Hosts
        BY StoreAssumption DEF Gone
      <4>4. QED
        BY <4>1, <4>2, <4>3 DEF AttemptsOf
    <3>3. QED
      BY <2>1, <3>1, <3>2
  <2>3. CASE v = w
    <3>1. loop'[v] = "idle" /\ permits'[v] = permits[v] + 1
      BY <1>t, <2>1, <2>3
    <3>2. QED
      BY <1>0, <1>t, <2>1, <2>2, <2>3, <3>1 DEF TokensInv
  <2>4. CASE v # w
    BY <1>s, <1>t, <2>1, <2>2, <2>4
  <2>5. QED
    BY <2>3, <2>4
<1>l. ASSUME NEW a \in Attempts, attempts[a].worker \in Hosts, attempts[a].pc \in HoldsPermit,
             attempts'[a].pc \notin HoldsPermit,
             \A b \in Attempts : b # a => attempts'[b] = attempts[b],
             permits' = [permits EXCEPT ![attempts[a].worker] = permits[attempts[a].worker] + 1],
             loop[v] = "crashed" => loop'[v] = "crashed",
             loop[v] = "selecting" <=> loop'[v] = "selecting"
      PROVE  TokensInv(v)'
  <2>1. CASE attempts[a].worker = v
    <3>1. P' = P \ {a} /\ a \in P
      BY <1>l, <2>1 DEF AttemptsOf
    <3>2. permits'[v] = permits[v] + 1
      BY <1>t, <1>l, <2>1
    <3>3. ASSUME loop[v] # "crashed"
          PROVE  IsFiniteSet(P') /\ Cardinality(P') = Cardinality(P) - 1
      BY <1>0, <3>1, <3>3, FS_RemoveElement
    <3>4. QED
      BY <1>0, <1>l, <1>t, <3>2, <3>3 DEF TokensInv
  <2>2. CASE attempts[a].worker # v
    <3>1. P' = P
      BY <1>l, <2>2 DEF AttemptsOf
    <3>2. QED
      BY <1>l, <1>s, <1>t, <2>2, <3>1
  <2>3. QED
    BY <2>1, <2>2
<1>4. ASSUME NEW w \in Hosts, Register(w)
      PROVE  TokensInv(v)'
  <2>1. PICK a \in AttemptsOf(w, {"claimed"}) :
               \/ /\ attempts' = [attempts EXCEPT ![a] = Gone]
                  /\ permits' = [permits EXCEPT ![w] = permits[w] + 1]
               \/ /\ attempts' = [attempts EXCEPT ![a].pc = "handling"]
                  /\ UNCHANGED permits
    BY <1>4 DEF Register
  <2>2. a \in Attempts /\ attempts[a].pc = "claimed" /\ attempts[a].worker = w
    BY DEF AttemptsOf
  <2>3. loop[w] = "adding" /\ loop' = [loop EXCEPT ![w] = "idle"]
    BY <1>4 DEF Register
  <2>4. /\ loop[v] = "crashed" => loop'[v] = "crashed"
        /\ loop[v] = "selecting" <=> loop'[v] = "selecting"
    BY <1>t, <2>3
  <2>5. CASE /\ attempts' = [attempts EXCEPT ![a] = Gone]
             /\ permits' = [permits EXCEPT ![w] = permits[w] + 1]
    <3>1. /\ attempts'[a].pc \notin HoldsPermit /\ attempts[a].pc \in HoldsPermit
          /\ \A b \in Attempts : b # a => attempts'[b] = attempts[b]
      BY <1>t, <2>2, <2>5 DEF Gone, HoldsPermit, InWaitGroup, Verdicts
    <3>2. QED
      BY <1>l, <2>2, <2>4, <2>5, <3>1
  <2>6. CASE attempts' = [attempts EXCEPT ![a].pc = "handling"] /\ UNCHANGED permits
    <3>1. attempts'[a] = [attempts[a] EXCEPT !.pc = "handling"]
          /\ \A b \in Attempts : b # a => attempts'[b] = attempts[b]
      BY <1>t, <2>2, <2>6
    <3>2. attempts'[a].pc = "handling" /\ attempts'[a].worker = attempts[a].worker
      BY <1>t, <2>2, <3>1 DEF Attempt
    <3>3. P' = P
      BY <1>k, <2>2, <3>1, <3>2 DEF HoldsPermit, InWaitGroup
    <3>4. QED
      BY <1>s, <2>4, <2>6, <3>3
  <2>7. QED
    BY <2>1, <2>5, <2>6
<1>5. ASSUME NEW w \in Hosts, Stop(w) \/ LoopBreaks(w) \/ Finish(w)
      PROVE  TokensInv(v)'
  <2>1. /\ UNCHANGED <<attempts, permits>>
        /\ \/ UNCHANGED loop
           \/ loop[w] \in {"idle", "draining"} /\ loop' = [loop EXCEPT ![w] = "draining"]
           \/ loop[w] \in {"idle", "draining"} /\ loop' = [loop EXCEPT ![w] = "finished"]
    BY <1>5 DEF Stop, LoopBreaks, Finish
  <2>2. P' = P
    BY <2>1 DEF AttemptsOf
  <2>3. QED
    BY <1>s, <1>t, <2>1, <2>2
<1>6. ASSUME NEW w \in Hosts, Crash(w)
      PROVE  TokensInv(v)'
  <2>1. /\ loop' = [loop EXCEPT ![w] = "crashed"] /\ permits' = [permits EXCEPT ![w] = 0]
        /\ \A b \in Attempts : attempts'[b] = IF attempts[b].worker = w THEN Gone ELSE attempts[b]
    BY <1>6 DEF Crash
  <2>2. CASE v = w
    BY <1>t, <2>1, <2>2 DEF TokensInv
  <2>3. CASE v # w
    <3>1. Gone.worker # v
      BY StoreAssumption DEF Gone
    <3>2. P' = P
      BY <2>1, <2>3, <3>1 DEF AttemptsOf
    <3>3. QED
      BY <1>s, <1>t, <2>1, <2>3, <3>2
  <2>4. QED
    BY <2>2, <2>3
<1>7. ASSUME NEW a \in Attempts, NEW result \in {"ok", "error", "nonretryable", "ctx"},
             HandlerReturns(a, result)
      PROVE  TokensInv(v)'
  <2>1. /\ attempts'[a] = [attempts[a] EXCEPT !.pc = Verdict(a, result), !.canceled = FALSE]
        /\ \A b \in Attempts : b # a => attempts'[b] = attempts[b]
        /\ attempts[a].pc = "handling" /\ UNCHANGED <<loop, permits>>
    BY <1>t, <1>7 DEF HandlerReturns
  <2>2. Verdict(a, result) \in Verdicts
    BY DEF Verdict, Verdicts
  <2>3. attempts'[a].pc \in Verdicts /\ attempts'[a].worker = attempts[a].worker
    BY <1>t, <2>1, <2>2 DEF Attempt
  <2>4. P' = P
    BY <1>k, <2>1, <2>3 DEF HoldsPermit, InWaitGroup
  <2>5. QED
    BY <1>s, <2>1, <2>4
<1>8. ASSUME NEW a \in Attempts, HandlerMarks(a) \/ HandlerMarkFails(a)
      PROVE  TokensInv(v)'
  <2>1. /\ attempts'[a] = [attempts[a] EXCEPT !.pc = "marked"]
        /\ \A b \in Attempts : b # a => attempts'[b] = attempts[b]
        /\ attempts[a].pc \in Verdicts /\ UNCHANGED <<loop, permits>>
    BY <1>t, <1>8 DEF HandlerMarks, HandlerMarkFails, Verdicts
  <2>2. attempts'[a].pc = "marked" /\ attempts'[a].worker = attempts[a].worker
    BY <1>t, <2>1 DEF Attempt
  <2>3. P' = P
    BY <1>k, <2>1, <2>2 DEF HoldsPermit, InWaitGroup
  <2>4. QED
    BY <1>s, <2>1, <2>3
<1>9. ASSUME NEW a \in Attempts, HandlerReleases(a)
      PROVE  TokensInv(v)'
  <2>1. /\ attempts'[a] = [attempts[a] EXCEPT !.pc = "released"]
        /\ \A b \in Attempts : b # a => attempts'[b] = attempts[b]
        /\ attempts[a].pc = "marked" /\ UNCHANGED loop
        /\ permits' = [permits EXCEPT ![attempts[a].worker] = permits[attempts[a].worker] + 1]
    BY <1>t, <1>9 DEF HandlerReleases
  <2>2. attempts'[a].pc = "released"
    BY <1>t, <2>1 DEF Attempt
  <2>3. /\ attempts[a].pc \in HoldsPermit /\ attempts'[a].pc \notin HoldsPermit
        /\ attempts[a].worker \in Hosts
    BY <2>1, <2>2 DEF HoldsPermit, InWaitGroup, Verdicts, Owned
  <2>4. QED
    BY <1>l, <2>1, <2>3
<1>10. ASSUME NEW a \in Attempts, HandlerUnregisters(a)
       PROVE  TokensInv(v)'
  <2> DEFINE c == CancelFunc(attempts[a].worker, a[1], attempts)
  <2>1. /\ attempts' = [c EXCEPT ![a] = Gone] /\ attempts[a].pc = "released"
        /\ UNCHANGED <<loop, permits>>
    BY <1>10 DEF HandlerUnregisters
  <2>2. /\ c \in [Attempts -> Attempt]
        /\ \A b \in Attempts : c[b].pc = attempts[b].pc /\ c[b].worker = attempts[b].worker
    BY AttemptsTyped, CancelFuncEffect
  <2> HIDE DEF c
  <2>3. /\ attempts'[a] = Gone
        /\ \A b \in Attempts : b # a => attempts'[b].pc = attempts[b].pc
                                        /\ attempts'[b].worker = attempts[b].worker
    BY <2>1, <2>2
  <2>4. P' = P
    BY <2>1, <2>3 DEF AttemptsOf, Gone, HoldsPermit, InWaitGroup, Verdicts
  <2>5. QED
    BY <1>s, <2>1, <2>4
<1>11. ASSUME NEW w \in Hosts, NEW j \in Jobs, BeatDrops(w, j) \/ BeatCancels(w, j)
       PROVE  TokensInv(v)'
  <2>1. attempts' = CancelFunc(w, j, attempts) /\ UNCHANGED <<loop, permits>>
    BY <1>11 DEF BeatDrops, BeatCancels
  <2>2. \A b \in Attempts : attempts'[b].pc = attempts[b].pc
                            /\ attempts'[b].worker = attempts[b].worker
    BY <2>1, CancelFuncEffect
  <2>3. P' = P
    BY <1>k, <2>2
  <2>4. QED
    BY <1>s, <2>1, <2>3
<1>12. ASSUME \/ \E w \in Hosts : BeatBegins(w) \/ BeatAnswered(w) \/ BeatFails(w)
              \/ Environment
       PROVE  TokensInv(v)'
  <2>1. UNCHANGED <<attempts, loop, permits>>
    BY <1>12 DEF BeatBegins, BeatAnswered, BeatFails, Environment, workerVars
  <2>2. P' = P
    BY <2>1 DEF AttemptsOf
  <2>3. QED
    BY <1>s, <2>1, <2>2
<1>13. QED
  BY <1>1, <1>2, <1>3, <1>4, <1>5, <1>6, <1>7, <1>8, <1>9, <1>10, <1>11, <1>12
  DEF PoolNext, WorkerNext, HandlerNext

\* What a step does to a registration.
Removing(w, j) ==
  \/ BeatDrops(w, j) \/ Crash(w)
  \/ \E a \in Attempts : a[1] = j /\ HandlerUnregisters(a)

LEMMA RunningMoves ==
  ASSUME WorkerTypeOK, PoolNext, NEW w \in Hosts, NEW j \in Jobs
  PROVE  \/ running'[w][j] = running[w][j]
         \/ running'[w][j] = 0 /\ Removing(w, j)
         \/ /\ <<j, running'[w][j]>> \in AttemptsOf(w, {"claimed"})
            /\ attempts'[<<j, running'[w][j]>>].pc = "handling"
            /\ attempts'[<<j, running'[w][j]>>].worker = w
<1> DEFINE Good == \/ running'[w][j] = running[w][j]
                   \/ running'[w][j] = 0 /\ Removing(w, j)
                   \/ /\ <<j, running'[w][j]>> \in AttemptsOf(w, {"claimed"})
                      /\ attempts'[<<j, running'[w][j]>>].pc = "handling"
                      /\ attempts'[<<j, running'[w][j]>>].worker = w
<1>t. /\ running \in [Hosts -> [Jobs -> 0 .. MaxAttempts]]
      /\ attempts \in [Attempts -> Attempt]
  BY DEF WorkerTypeOK
<1>1. ASSUME NEW h \in Hosts, Register(h)
      PROVE  Good
  <2>1. PICK a \in AttemptsOf(h, {"claimed"}) :
               \/ UNCHANGED running
               \/ /\ running' = [running EXCEPT ![h][a[1]] = a[2]]
                  /\ attempts' = [attempts EXCEPT ![a].pc = "handling"]
    BY <1>1 DEF Register
  <2>2. a \in Attempts /\ attempts[a].worker = h /\ a[1] \in Jobs /\ a = <<a[1], a[2]>>
    BY DEF AttemptsOf, Attempts
  <2>3. CASE UNCHANGED running
    BY <2>3
  <2>4. CASE /\ running' = [running EXCEPT ![h][a[1]] = a[2]]
             /\ attempts' = [attempts EXCEPT ![a].pc = "handling"]
    <3>1. CASE h = w /\ a[1] = j
      <4>1. running'[w][j] = a[2]
        BY <1>t, <2>2, <2>4, <3>1
      <4>2. attempts'[a] = [attempts[a] EXCEPT !.pc = "handling"] /\ attempts[a] \in Attempt
        BY <1>t, <2>2, <2>4
      <4>3. attempts'[a].pc = "handling" /\ attempts'[a].worker = w
        BY <2>2, <3>1, <4>2 DEF Attempt
      <4>4. a = <<j, running'[w][j]>>
        BY <2>2, <3>1, <4>1
      <4>5. QED
        BY <2>1, <3>1, <4>3, <4>4
    <3>2. CASE ~(h = w /\ a[1] = j)
      BY <1>t, <2>2, <2>4, <3>2
    <3>3. QED
      BY <3>1, <3>2
  <2>5. QED
    BY <2>1, <2>3, <2>4
<1>2. ASSUME NEW h \in Hosts, NEW i \in Jobs, BeatDrops(h, i)
      PROVE  Good
  BY <1>2, <1>t DEF BeatDrops, RemoveID, Removing
<1>3. ASSUME NEW h \in Hosts, Crash(h)
      PROVE  Good
  BY <1>3, <1>t DEF Crash, Removing
<1>7. ASSUME NEW a \in Attempts, HandlerUnregisters(a)
      PROVE  Good
  BY <1>7, <1>t DEF HandlerUnregisters, RemoveID, Removing
<1>4. ASSUME NEW h \in Hosts,
             \/ \E C \in SUBSET Jobs : PollBegins(h, C)
             \/ \E i \in Jobs : PollClaims(h, i) \/ BeatCancels(h, i)
             \/ PollEmpty(h) \/ PollFails(h) \/ Stop(h) \/ LoopBreaks(h) \/ Finish(h)
             \/ BeatBegins(h) \/ BeatAnswered(h) \/ BeatFails(h)
      PROVE  UNCHANGED running
  BY <1>4 DEF PollBegins, PollClaims, BeatCancels, PollEmpty, PollFails, Stop, LoopBreaks,
              Finish, BeatBegins, BeatAnswered, BeatFails
<1>5. ASSUME NEW a \in Attempts,
             \/ \E result \in {"ok", "error", "nonretryable", "ctx"} : HandlerReturns(a, result)
             \/ HandlerMarks(a) \/ HandlerMarkFails(a) \/ HandlerReleases(a)
      PROVE  UNCHANGED running
  BY <1>5 DEF HandlerReturns, HandlerMarks, HandlerMarkFails, HandlerReleases
<1>6. ASSUME Environment
      PROVE  UNCHANGED running
  BY <1>6 DEF Environment, workerVars
<1>8. QED
  BY <1>1, <1>2, <1>3, <1>4, <1>5, <1>6, <1>7
  DEF PoolNext, WorkerNext, HandlerNext

(***************************************************************************)
(* An attempt that loses its goroutine loses its registration, too.        *)
(***************************************************************************)
LEMMA DanglingStep ==
  ASSUME StoreTypeOK, WorkerTypeOK, WorkerTypeOK', Owned, NextIsNew, NoDanglingID, PoolNext
  PROVE  NoDanglingID'
<1> DEFINE Ongoing == InWaitGroup \cup {"released"}
<1> SUFFICES ASSUME NEW w \in Hosts, NEW j \in Jobs, running'[w][j] # 0
             PROVE  \E a \in AttemptsOf(w, Ongoing)' : a = <<j, running'[w][j]>>
  BY DEF NoDanglingID
<1> DEFINE b == <<j, running'[w][j]>>
<1>1. CASE running'[w][j] = running[w][j]
  <2>1. b \in Attempts /\ attempts[b].worker = w /\ attempts[b].pc \in Ongoing
    BY <1>1 DEF NoDanglingID, AttemptsOf
  <2>2. b[1] = j /\ b[2] = running'[w][j]
    OBVIOUS
  <2> HIDE DEF b
  <2>3. attempts[b].pc \notin {"none", "gone", "claimed"}
    BY <2>1 DEF InWaitGroup, Verdicts
  <2>4. b[2] <= dequeues[b[1]] /\ b[2] # dequeues[b[1]] + 1
    <3>1. b[2] <= dequeues[b[1]]
      BY <2>1, <2>3 DEF NextIsNew, Used
    <3>2. b[2] \in Nat /\ dequeues[b[1]] \in Nat
      BY <2>1 DEF Attempts, StoreTypeOK
    <3>3. QED
      BY <3>1, <3>2
  <2>5. ~HandlerUnregisters(b)
    <3>1. SUFFICES ASSUME HandlerUnregisters(b)
                   PROVE  FALSE
      OBVIOUS
    <3>2. RemoveID(w, j)
      BY <2>1, <2>2, <3>1 DEF HandlerUnregisters
    <3>3. running'[w][j] = 0
      BY <3>2 DEF RemoveID, WorkerTypeOK
    <3>4. QED
      BY <3>3
  <2>6. ~Crash(w)
    <3>1. SUFFICES ASSUME Crash(w)
                   PROVE  FALSE
      OBVIOUS
    <3>2. running'[w][j] = 0
      BY <3>1 DEF Crash, WorkerTypeOK
    <3>3. QED
      BY <3>2
  <2>7. attempts'[b].worker = w /\ attempts'[b].pc \notin {"none", "gone", "claimed"}
    BY <2>1, <2>3, <2>4, <2>5, <2>6, AttemptMoves DEF Kept, Claimed, GoesOn, Lost, Verdicts
  <2>8. attempts'[b].pc \in AttemptStates
    BY <2>1 DEF WorkerTypeOK, Attempt
  <2>9. attempts'[b].pc \in Ongoing
    BY <2>7, <2>8 DEF AttemptStates, HoldsPermit
  <2>10. b \in AttemptsOf(w, Ongoing)'
    BY <2>1, <2>7, <2>9 DEF AttemptsOf
  <2>11. QED
    BY <2>10 DEF b
<1>2. CASE running'[w][j] # running[w][j]
  <2>1. /\ b \in AttemptsOf(w, {"claimed"}) /\ attempts'[b].pc = "handling"
        /\ attempts'[b].worker = w
    BY <1>2, RunningMoves
  <2>2. b \in AttemptsOf(w, Ongoing)'
    BY <2>1 DEF AttemptsOf, InWaitGroup
  <2>3. QED
    BY <2>2
<1>3. QED
  BY <1>1, <1>2

\* The tokens and the IDSets together.
PoolInv == PoolTypeOK /\ Owned /\ NotRequeued /\ NextIsNew /\ Tokens /\ NoDanglingID

LEMMA PoolStarts ==
  PoolInit => Owned /\ NotRequeued /\ NextIsNew /\ Tokens /\ NoDanglingID
<1> SUFFICES ASSUME PoolInit
             PROVE  Owned /\ NotRequeued /\ NextIsNew /\ Tokens /\ NoDanglingID
  OBVIOUS
<1>1. \A a \in Attempts : attempts[a].pc = "none" /\ attempts[a].worker \notin Hosts
  BY StoreAssumption DEF PoolInit, NoAttempt
<1>2. Owned /\ NotRequeued /\ NextIsNew /\ NoDanglingID
  BY <1>1 DEF PoolInit, StoreInit, Owned, NotRequeued, NextIsNew, Used, NoDanglingID
<1>3. ASSUME NEW w \in Hosts
      PROVE  TokensInv(w)
  <2>1. AttemptsOf(w, HoldsPermit) = {}
    BY <1>1 DEF AttemptsOf
  <2>2. loop[w] = "idle" /\ permits[w] = NumHandlers
    BY DEF PoolInit
  <2>3. QED
    BY <2>1, <2>2, FS_EmptySet DEF TokensInv
<1>4. QED
  BY <1>2, <1>3 DEF Tokens

\* The inductive invariant holds in every state of the pool.
THEOREM PoolInvariant ==
  PoolSpec => []PoolInv
<1> DEFINE I == Owned /\ NotRequeued /\ NextIsNew /\ Tokens /\ NoDanglingID
<1>1. PoolInit => I
  BY PoolStarts
<1>2. /\ PoolTypeOK /\ PoolTypeOK' /\ NoOrphanHandler /\ PoisonBound' /\ I
      /\ [PoolNext]_poolVars
      => I'
  <2>0. SUFFICES ASSUME PoolTypeOK, PoolTypeOK', NoOrphanHandler, PoisonBound', I,
                        [PoolNext]_poolVars
                 PROVE  I'
    OBVIOUS
  <2>1. NotRequeued'
    BY <2>0, CountersKept DEF NotRequeued
  <2>2. CASE PoolNext
    <3>1. Owned'
      BY <2>0, <2>2, NoOrphanStep DEF IDInv, PoolTypeOK
    <3>2. NextIsNew' /\ Tokens' /\ NoDanglingID'
      BY <2>0, <2>2, NextStaysNew, TokensStep, DanglingStep DEF PoolTypeOK
    <3>3. QED
      BY <2>1, <3>1, <3>2
  <2>3. CASE UNCHANGED poolVars
    <3>1. UNCHANGED <<attempts, dequeues, permits, loop, running>>
      BY <2>3 DEF poolVars, storeVars, workerVars
    <3>2. QED
      BY <2>0, <2>1, <3>1 DEF Owned, NextIsNew, Used, Tokens, TokensInv, AttemptsOf, NoDanglingID
  <2>4. QED
    BY <2>0, <2>2, <2>3
<1>3. PoolSpec => []PoisonBound
  BY PoolPoisonBounded, PTL
<1>4. QED
  BY <1>1, <1>2, <1>3, PoolTypeCorrect, HandlersWithinReach, PTL DEF PoolSpec, PoolInv

(***************************************************************************)
(* The handler semaphore neither leaks nor overflows, on all paths through *)
(* dequeueAndHandle, its goroutine and a crash of another worker.          *)
(***************************************************************************)
THEOREM SemaphoreConserved ==
  PoolSpec => []PermitsConserved
<1>1. PoolInv => PermitsConserved
  BY DEF PoolInv, Tokens, TokensInv, PermitsConserved
<1>2. QED
  BY <1>1, PoolInvariant, PTL

\* An identifier is registered only for an attempt that will still remove it.
THEOREM IDSetExact ==
  PoolSpec => []NoDanglingID
<1>1. PoolInv => NoDanglingID
  BY DEF PoolInv
<1>2. QED
  BY <1>1, PoolInvariant, PTL
----------------------------------------------------------------------------
(***************************************************************************)
(* Two handlers of the same record.  In the rest of the module a record is *)
(* not retried: MaxNumRetries is at most 1.                                *)
(*                                                                         *)
(* What the SET clauses do to the fields that say whether a record can be  *)
(* dequeued, reset or marked.                                              *)
(***************************************************************************)
Becomes(r, s, S) == s.state \in S /\ ~s.stalled /\ (r.cancel => s.cancel)

LEMMA RowEffects ==
  ASSUME MaxNumRetries <= 1, NEW r \in Row
  PROVE  /\ \A h \in Hosts : Becomes(r, DequeuedRow(r, h), {"processing"})
         /\ Becomes(r, HeartbeatRow(r), {r.state})
         /\ Becomes(r, CompletedRow(r), Terminal)
         /\ Becomes(r, ErroredRow(r), Terminal)
         /\ Becomes(r, FailedRow(r), Terminal)
         /\ Becomes(r, ResetRow(r), {"queued"})
         /\ Becomes(r, MaxResetsRow(r), {"failed"})
         /\ /\ EnqueuedRow(r).state = "queued"
            /\ EnqueuedRow(r).stalled = r.stalled /\ EnqueuedRow(r).cancel = r.cancel
         /\ /\ CanceledRow(r).state = IF r.state = "processing" THEN r.state ELSE "canceled"
            /\ CanceledRow(r).stalled = r.stalled /\ CanceledRow(r).cancel
         /\ DeletedRow(r).state = "deleted" /\ DeletedRow(r).cancel = r.cancel
<1>t. r.num_failures + 1 >= MaxNumRetries
  BY StoreAssumption DEF Row
<1>1. ASSUME NEW h \in Hosts
      PROVE  Becomes(r, DequeuedRow(r, h), {"processing"})
  BY DEF DequeuedRow, Row, Becomes
<1>2. Becomes(r, HeartbeatRow(r), {r.state})
  BY DEF HeartbeatRow, Row, Becomes
<1>3. Becomes(r, CompletedRow(r), Terminal)
  BY DEF CompletedRow, Row, Becomes, Terminal
<1>4. Becomes(r, ErroredRow(r), Terminal)
  BY <1>t DEF ErroredRow, Row, Becomes, Terminal
<1>5. Becomes(r, FailedRow(r), Terminal)
  BY DEF FailedRow, Row, Becomes, Terminal
<1>6. Becomes(r, ResetRow(r), {"queued"})
  BY DEF ResetRow, Row, Becomes
<1>7. Becomes(r, MaxResetsRow(r), {"failed"})
  BY DEF MaxResetsRow, Row, Becomes
<1>8. /\ EnqueuedRow(r).state = "queued"
      /\ EnqueuedRow(r).stalled = r.stalled /\ EnqueuedRow(r).cancel = r.cancel
  BY DEF EnqueuedRow, Row
<1>9. /\ CanceledRow(r).state = IF r.state = "processing" THEN r.state ELSE "canceled"
      /\ CanceledRow(r).stalled = r.stalled /\ CanceledRow(r).cancel
  BY DEF CanceledRow, Row
<1>10. DeletedRow(r).state = "deleted" /\ DeletedRow(r).cancel = r.cancel
  BY DEF DeletedRow, Row
<1>11. QED
  BY <1>1, <1>2, <1>3, <1>4, <1>5, <1>6, <1>7, <1>8, <1>9, <1>10

(***************************************************************************)
(* What a step of the pool does to one record.                             *)
(***************************************************************************)
RowKept(j) ==
  jobs'[j].state = jobs[j].state /\ (jobs'[j].stalled => jobs[j].stalled)

RowStalls(j) ==
  /\ jobs[j].state = "processing" /\ jobs'[j].state = "processing"
  /\ TimelyHeartbeats => Unattended(j)
  /\ UNCHANGED workerVars

RowClaimed(j) ==
  /\ jobs[j].state = "queued" /\ jobs'[j].state = "processing" /\ ~jobs'[j].stalled
  /\ \E w \in Hosts : DequeueClaim(w, j)

RowMarked(j) ==
  /\ jobs[j].state = "processing" /\ jobs'[j].state \in Terminal
  /\ \E a \in Attempts : a[1] = j /\ HandlerMarks(a)

RowReset(j) ==
  StalledRow(jobs[j]) /\ jobs'[j].state \in {"queued", "failed"}

RowEnqueued(j) == jobs[j].state = "absent" /\ jobs'[j].state = "queued"

RowCanceled(j) == jobs[j].state = "queued" /\ jobs'[j].state = "canceled"

RowDeleted(j) == jobs[j].state \in Terminal /\ jobs'[j].state = "deleted"

RowMoves(j) ==
  /\ jobs[j].cancel => jobs'[j].cancel
  /\ \/ RowKept(j) \/ RowStalls(j) \/ RowClaimed(j) \/ RowMarked(j)
     \/ RowReset(j) \/ RowEnqueued(j) \/ RowCanceled(j) \/ RowDeleted(j)

LEMMA PoolRows ==
  ASSUME MaxNumRetries <= 1, StoreTypeOK, PoolNext,
         NEW j \in Jobs, jobs[j].state # "errored"
  PROVE  RowMoves(j)
<1>t. jobs \in [Jobs -> Row] /\ jobs[j] \in Row
  BY DEF StoreTypeOK
<1>r. /\ \A h \in Hosts : Becomes(jobs[j], DequeuedRow(jobs[j], h), {"processing"})
      /\ Becomes(jobs[j], HeartbeatRow(jobs[j]), {jobs[j].state})
      /\ Becomes(jobs[j], CompletedRow(jobs[j]), Terminal)
      /\ Becomes(jobs[j], ErroredRow(jobs[j]), Terminal)
      /\ Becomes(jobs[j], FailedRow(jobs[j]), Terminal)
      /\ Becomes(jobs[j], ResetRow(jobs[j]), {"queued"})
      /\ Becomes(jobs[j], MaxResetsRow(jobs[j]), {"failed"})
  BY <1>t, RowEffects, Zenon
<1>e. /\ EnqueuedRow(jobs[j]).state = "queued"
      /\ EnqueuedRow(jobs[j]).cancel = jobs[j].cancel
      /\ CanceledRow(jobs[j]).state
           = IF jobs[j].state = "processing" THEN jobs[j].state ELSE "canceled"
      /\ CanceledRow(jobs[j]).stalled = jobs[j].stalled /\ CanceledRow(jobs[j]).cancel
      /\ DeletedRow(jobs[j]).state = "deleted" /\ DeletedRow(jobs[j]).cancel = jobs[j].cancel
  BY <1>t, RowEffects, Zenon
<1>same. ASSUME jobs'[j] = jobs[j]
         PROVE  RowMoves(j)
  BY <1>same DEF RowMoves, RowKept
<1>d. ASSUME NEW w \in Hosts, NEW i \in Jobs, DequeueClaim(w, i)
      PROVE  RowMoves(j)
  <2>1. CASE i = j
    <3>1. jobs'[j] = DequeuedRow(jobs[j], w) /\ jobs[j].state = "queued"
      BY <1>t, <1>d, <2>1 DEF DequeueClaim, Recheck
    <3>2. Becomes(jobs[j], jobs'[j], {"processing"})
      BY <1>r, <3>1, Zenon
    <3>3. RowClaimed(j)
      BY <1>d, <2>1, <3>1, <3>2 DEF Becomes, RowClaimed
    <3>4. QED
      BY <3>2, <3>3 DEF Becomes, RowMoves
  <2>2. CASE i # j
    BY <1>same, <1>t, <1>d, <2>2 DEF DequeueClaim
  <2>3. QED
    BY <2>1, <2>2
<1>n. ASSUME NEW w \in Hosts, DequeueNone(w)
      PROVE  RowMoves(j)
  BY <1>same, <1>n DEF DequeueNone
<1>h. ASSUME NEW ids, Heartbeat(ids, ShimHostname)
      PROVE  RowMoves(j)
  <2>1. jobs'[j] = jobs[j] \/ jobs'[j] = HeartbeatRow(jobs[j])
    BY <1>h DEF Heartbeat, UpdateRows
  <2>2. CASE jobs'[j] = HeartbeatRow(jobs[j])
    <3>1. Becomes(jobs[j], jobs'[j], {jobs[j].state})
      BY <1>r, <2>2
    <3>2. QED
      BY <3>1 DEF Becomes, RowMoves, RowKept
  <2>3. QED
    BY <1>same, <2>1, <2>2
<1>1. ASSUME NEW w \in Hosts, WorkerNext(w)
      PROVE  RowMoves(j)
  <2>1. ASSUME NEW i \in Jobs, PollClaims(w, i)
        PROVE  RowMoves(j)
    BY <1>d, <2>1 DEF PollClaims
  <2>2. CASE PollEmpty(w) \/ PollFails(w)
    BY <1>d, <1>n, <2>2 DEF PollEmpty, PollFails
  <2>3. CASE BeatAnswered(w) \/ BeatFails(w)
    BY <1>h, <1>same, <2>3 DEF BeatAnswered, BeatFails, storeVars
  <2>4. CASE \/ \E C \in SUBSET Jobs : PollBegins(w, C)
             \/ Register(w) \/ Stop(w) \/ LoopBreaks(w) \/ Finish(w) \/ BeatBegins(w)
             \/ \E i \in Jobs : BeatDrops(w, i) \/ BeatCancels(w, i)
    BY <1>same, <2>4 DEF PollBegins, DequeueSelect, Register, Stop, LoopBreaks, Finish,
                         BeatBegins, BeatDrops, BeatCancels, storeVars
  <2>5. CASE Crash(w)
    BY <1>same, <1>n, <2>5 DEF Crash, storeVars
  <2>6. QED
    BY <1>1, <2>1, <2>2, <2>3, <2>4, <2>5 DEF WorkerNext
<1>2. ASSUME NEW a \in Attempts, HandlerNext(a)
      PROVE  RowMoves(j)
  <2>1. CASE HandlerMarks(a)
    <3>1. \/ jobs'[j] = jobs[j]
          \/ /\ j = a[1] /\ jobs[j].state = "processing"
             /\ jobs'[j] \in {CompletedRow(jobs[j]), ErroredRow(jobs[j]), FailedRow(jobs[j])}
      BY <2>1 DEF HandlerMarks, MarkComplete, MarkErrored, MarkFailed, UpdateRows, MarkableIDs
    <3>2. CASE jobs'[j] = jobs[j]
      BY <1>same, <3>2
    <3>3. CASE /\ j = a[1] /\ jobs[j].state = "processing"
               /\ jobs'[j] \in {CompletedRow(jobs[j]), ErroredRow(jobs[j]), FailedRow(jobs[j])}
      <4>1. Becomes(jobs[j], jobs'[j], Terminal)
        BY <1>r, <3>3
      <4>2. RowMarked(j)
        BY <2>1, <3>3, <4>1 DEF Becomes, RowMarked
      <4>3. QED
        BY <4>1, <4>2 DEF Becomes, RowMoves
    <3>4. QED
      BY <3>1, <3>2, <3>3
  <2>2. CASE \/ \E result \in {"ok", "error", "nonretryable", "ctx"} : HandlerReturns(a, result)
             \/ HandlerMarkFails(a) \/ HandlerReleases(a) \/ HandlerUnregisters(a)
    BY <1>same, <2>2 DEF HandlerReturns, HandlerMarkFails, HandlerReleases, HandlerUnregisters,
                         storeVars
  <2>3. QED
    BY <1>2, <2>1, <2>2 DEF HandlerNext
<1>3. ASSUME Environment
      PROVE  RowMoves(j)
  <2>1. ASSUME NEW i \in Jobs, Enqueue(i)
        PROVE  RowMoves(j)
    <3>1. \/ jobs'[j] = jobs[j]
          \/ jobs[j].state = "absent" /\ jobs'[j] = EnqueuedRow(jobs[j])
      BY <1>t, <2>1 DEF Enqueue
    <3>2. QED
      BY <1>same, <1>e, <3>1 DEF RowMoves, RowEnqueued
  <2>2. ASSUME NEW i \in Jobs, PoolTime(i), UNCHANGED workerVars
        PROVE  RowMoves(j)
    <3>1. CASE (TimelyHeartbeats => Unattended(i)) /\ Stall(i)
      <4>1. CASE i = j
        <5>1. /\ jobs'[j] = [jobs[j] EXCEPT !.stalled = TRUE]
              /\ jobs[j].state = "processing"
          BY <1>t, <3>1, <4>1 DEF Stall
        <5>2. jobs'[j].state = "processing" /\ jobs'[j].cancel = jobs[j].cancel
          BY <1>t, <5>1 DEF Row
        <5>3. QED
          BY <2>2, <3>1, <4>1, <5>1, <5>2 DEF RowMoves, RowStalls
      <4>2. CASE i # j
        BY <1>same, <1>t, <3>1, <4>2 DEF Stall
      <4>3. QED
        BY <4>1, <4>2
    <3>2. CASE CoolDown(i)
      BY <1>same, <1>t, <3>2 DEF CoolDown
    <3>3. QED
      BY <2>2, <3>1, <3>2 DEF PoolTime
  <2>3. ASSUME NEW S \in SUBSET Jobs, Resetter(S)
        PROVE  RowMoves(j)
    <3>1. \/ jobs'[j] = jobs[j]
          \/ StalledRow(jobs[j]) /\ jobs'[j] = ResetRow(jobs[j])
          \/ StalledRow(jobs[j]) /\ jobs'[j] = MaxResetsRow(jobs[j])
      BY <2>3 DEF Resetter, ResetStalled, ResetStalledMaxResets, ResetCandidate,
                  MaxResetsCandidate, UpdateRows
    <3>2. QED
      BY <1>same, <1>r, <3>1 DEF RowMoves, RowReset, Becomes
  <2>4. ASSUME NEW S \in SUBSET Jobs, CancelSyncJob(S)
        PROVE  RowMoves(j)
    <3>1. \/ jobs'[j] = jobs[j]
          \/ jobs[j].state \in Active /\ jobs'[j] = CanceledRow(jobs[j])
      BY <2>4 DEF CancelSyncJob, CancelableRow, UpdateRows
    <3>2. QED
      BY <1>same, <1>e, <3>1 DEF RowMoves, RowKept, RowCanceled, Active
  <2>5. ASSUME NEW S \in SUBSET Jobs, CleanSyncJobs(S)
        PROVE  RowMoves(j)
    <3>1. \/ jobs'[j] = jobs[j]
          \/ jobs[j].state \in {"completed", "failed"} /\ jobs'[j] = DeletedRow(jobs[j])
      BY <2>5 DEF CleanSyncJobs, UpdateRows
    <3>2. QED
      BY <1>same, <1>e, <3>1 DEF RowMoves, RowDeleted, Terminal
  <2>6. QED
    BY <1>3, <2>1, <2>2, <2>3, <2>4, <2>5 DEF Environment
<1>4. QED
  BY <1>1, <1>2, <1>3 DEF PoolNext

\* The handlers that run and have not been told to stop, and those about to.
Live(a) ==
  attempts[a].pc = "claimed" \/ (attempts[a].pc = "handling" /\ ~attempts[a].canceled)

(***************************************************************************)
(* The record of such a handler has not been dequeued since, and cannot be *)
(* dequeued again.                                                         *)
(***************************************************************************)
LiveInv ==
  /\ \A j \in Jobs : jobs[j].state # "errored"
  /\ \A a \in Attempts :
       Live(a) => /\ a[2] = dequeues[a[1]]
                  /\ jobs[a[1]].state \notin {"absent", "queued"}
                  /\ ~StalledRow(jobs[a[1]])

\* A record is counted again only when it is dequeued.
LEMMA CountedWhenClaimed ==
  ASSUME StoreTypeOK, PoolNext, NEW j \in Jobs
  PROVE  dequeues'[j] = dequeues[j] \/ \E w \in Hosts : DequeueClaim(w, j)
<1>1. CASE UNCHANGED dequeues
  BY <1>1
<1>2. ASSUME NEW w \in Hosts, NEW i \in Jobs, DequeueClaim(w, i)
      PROVE  dequeues'[j] = dequeues[j] \/ DequeueClaim(w, j)
  BY <1>2, ClaimCounts
<1>3. ASSUME NEW w \in Hosts, DequeueNone(w)
      PROVE  dequeues'[j] = dequeues[j]
  BY <1>3 DEF DequeueNone
<1>4. QED
  BY <1>1, <1>2, <1>3, CountersKept DEF PollClaims, PollFails

\* No record becomes errored.
LEMMA NeverErrored ==
  ASSUME MaxNumRetries <= 1, StoreTypeOK, PoolNext, \A j \in Jobs : jobs[j].state # "errored"
  PROVE  \A j \in Jobs : jobs'[j].state # "errored"
BY PoolRows DEF RowMoves, RowKept, RowStalls, RowClaimed, RowMarked, RowReset, RowEnqueued,
                RowCanceled, RowDeleted, Terminal

\* What claiming a record makes true of it.
LEMMA ClaimedRecord ==
  ASSUME MaxNumRetries <= 1, StoreTypeOK, NEW b \in Attempts, Claimed(b)
  PROVE  /\ b[2] = dequeues'[b[1]]
         /\ jobs'[b[1]].state = "processing" /\ ~jobs'[b[1]].stalled
<1>1. /\ b[1] \in Jobs /\ attempts'[b].worker \in Hosts
      /\ DequeueClaim(attempts'[b].worker, b[1]) /\ b[2] = dequeues[b[1]] + 1
  BY DEF Claimed, PollClaims, Attempts
<1>2. jobs[b[1]] \in Row /\ jobs'[b[1]] = DequeuedRow(jobs[b[1]], attempts'[b].worker)
  BY <1>1 DEF DequeueClaim, StoreTypeOK
<1>3. Becomes(jobs[b[1]], jobs'[b[1]], {"processing"})
  <2>1. Becomes(jobs[b[1]], DequeuedRow(jobs[b[1]], attempts'[b].worker), {"processing"})
    BY <1>1, <1>2, RowEffects, Zenon
  <2>2. QED
    BY <1>2, <2>1
<1>4. QED
  BY <1>1, <1>3, ClaimCounts DEF Becomes

(***************************************************************************)
(* A handler that has not been told to stop keeps its record from being    *)
(* dequeued again: it is registered, hence its heartbeats are in time, and *)
(* the resetter leaves the record alone.                                   *)
(***************************************************************************)
LEMMA LiveStep ==
  ASSUME TimelyHeartbeats, MaxNumRetries <= 1,
         PoolInv, NoOrphanHandler, LiveInv, PoolNext
  PROVE  LiveInv'
<1>t. StoreTypeOK /\ WorkerTypeOK /\ Owned
  BY DEF PoolInv, PoolTypeOK
<1>1. \A j \in Jobs : jobs'[j].state # "errored"
  BY <1>t, NeverErrored DEF LiveInv
<1>2. ASSUME NEW b \in Attempts, Live(b)'
      PROVE  /\ b[2] = dequeues'[b[1]]
             /\ jobs'[b[1]].state \notin {"absent", "queued"}
             /\ ~StalledRow(jobs'[b[1]])
  <2>0. b[1] \in Jobs /\ b[2] # 0
    BY DEF Attempts
  <2>1. CASE Claimed(b)
    <3>1. /\ b[2] = dequeues'[b[1]]
          /\ jobs'[b[1]].state = "processing" /\ ~jobs'[b[1]].stalled
      BY <1>t, <2>1, ClaimedRecord
    <3>2. QED
      BY <3>1 DEF StalledRow
  <2>2. CASE ~Claimed(b)
    <3>1. Live(b)
      BY <1>2, <1>t, <2>2, AttemptMoves DEF Live, Kept, GoesOn, Lost, Gone, Verdicts
    <3>2. /\ b[2] = dequeues[b[1]]
          /\ jobs[b[1]].state \notin {"absent", "queued", "errored"}
          /\ ~StalledRow(jobs[b[1]])
      BY <2>0, <3>1 DEF LiveInv
    <3>3. ~Unattended(b[1])
      BY <1>t, <2>0, <3>1 DEF Live, Unattended, NoOrphanHandler, Owned
    <3>4. dequeues'[b[1]] = dequeues[b[1]]
      BY <1>t, <2>0, <3>2, CountedWhenClaimed DEF DequeueClaim, Recheck
    <3>5. RowMoves(b[1])
      BY <1>t, <2>0, <3>2, PoolRows
    <3>6. /\ jobs'[b[1]].state \notin {"absent", "queued"}
          /\ ~StalledRow(jobs'[b[1]])
      BY <3>2, <3>3, <3>5
      DEF RowMoves, RowKept, RowStalls, RowClaimed, RowMarked, RowReset, RowEnqueued,
          RowCanceled, RowDeleted, Terminal, StalledRow
    <3>7. QED
      BY <3>2, <3>4, <3>6
  <2>3. QED
    BY <2>1, <2>2
<1>3. QED
  BY <1>1, <1>2 DEF LiveInv

(***************************************************************************)
(* With heartbeats in time and without retries, a record is never          *)
(* processed by two handlers that have not been told to stop, whatever     *)
(* crashes, failed calls, cancellations and resets happen.                 *)
(***************************************************************************)
THEOREM OneHandlerPerRecord ==
  ASSUME TimelyHeartbeats, MaxNumRetries <= 1
  PROVE  PoolSpec => []OneLiveHandler
<1>1. PoolInit => LiveInv
  BY DEF PoolInit, StoreInit, LiveInv, Live, NoAttempt, AbsentRow
<1>2. PoolInv /\ NoOrphanHandler /\ LiveInv /\ [PoolNext]_poolVars => LiveInv'
  <2> SUFFICES ASSUME PoolInv, NoOrphanHandler, LiveInv, [PoolNext]_poolVars
               PROVE  LiveInv'
    OBVIOUS
  <2>1. CASE UNCHANGED poolVars
    BY <2>1 DEF poolVars, storeVars, workerVars, LiveInv, Live
  <2>2. QED
    BY <2>1, LiveStep
<1>3. PoolInv /\ LiveInv => OneLiveHandler
  <2> SUFFICES ASSUME PoolInv, LiveInv, NEW j \in Jobs
               PROVE  Cardinality(LiveHandlers(j)) <= 1
    BY DEF OneLiveHandler
  <2>1. LiveHandlers(j) \subseteq {<<j, dequeues[j]>>}
    BY DEF LiveHandlers, LiveInv, Live, Attempts
  <2>2. /\ IsFiniteSet({<<j, dequeues[j]>>}) /\ Cardinality({<<j, dequeues[j]>>}) = 1
    BY FS_Singleton
  <2>3. /\ IsFiniteSet(LiveHandlers(j))
        /\ Cardinality(LiveHandlers(j)) <= Cardinality({<<j, dequeues[j]>>})
    BY <2>1, <2>2, FS_Subset
  <2>4. QED
    BY <2>2, <2>3
<1>4. QED
  BY <1>1, <1>2, <1>3, PoolInvariant, HandlersWithinReach, PTL DEF PoolSpec
----------------------------------------------------------------------------
(***************************************************************************)
(* Verdicts.  In addition to timely heartbeats, no database call fails.    *)
(***************************************************************************)
\* A record that stays as it is, or is deleted.
Final == Terminal \cup {"deleted"}

\* Attempts that have not made their finalizing call.
Busy == {"claimed", "handling"} \cup Verdicts

\* A busy attempt is the latest of its record and registered, and its record
\* is being processed; once the finalizing call is made, the record is final.
BusyInv ==
  /\ \A j \in Jobs : jobs[j].state # "errored"
  /\ \A a \in Attempts :
       /\ attempts[a].pc \in Busy =>
            /\ a[2] = dequeues[a[1]]
            /\ jobs[a[1]].state = "processing" /\ ~jobs[a[1]].stalled
       /\ attempts[a].pc \in Busy \ {"claimed"} => running[attempts[a].worker][a[1]] = a[2]
       /\ attempts[a].pc \in {"marked", "released"} => jobs[a[1]].state \in Final

\* What the heartbeat goroutine believes, although it is late.
HeartInv ==
  \A w \in Hosts :
    /\ \A j \in heart[w].ids : jobs[j].state \in Final \/ Has(w, j)
    /\ \A j \in heart[w].lost : jobs[j].state \in Final

HealthyInv == BusyInv /\ HeartInv

\* A finalizing call for a record that is being processed finishes it.
LEMMA MarkFinishes ==
  ASSUME MaxNumRetries <= 1, StoreTypeOK, NEW a \in Attempts, HandlerMarks(a),
         jobs[a[1]].state = "processing"
  PROVE  jobs'[a[1]].state \in Terminal
<1>1. a[1] \in Jobs /\ jobs[a[1]] \in Row
  BY DEF Attempts, StoreTypeOK
<1>2. /\ Becomes(jobs[a[1]], CompletedRow(jobs[a[1]]), Terminal)
      /\ Becomes(jobs[a[1]], ErroredRow(jobs[a[1]]), Terminal)
      /\ Becomes(jobs[a[1]], FailedRow(jobs[a[1]]), Terminal)
  BY <1>1, RowEffects, Zenon
<1>3. jobs'[a[1]] \in {CompletedRow(jobs[a[1]]), ErroredRow(jobs[a[1]]), FailedRow(jobs[a[1]])}
  BY <1>1 DEF HandlerMarks, MarkComplete, MarkErrored, MarkFailed, UpdateRows, MarkableIDs,
              HostMatches, ShimHostname
<1>4. QED
  BY <1>2, <1>3 DEF Becomes

\* A final record stays final.
LEMMA FinalStays ==
  ASSUME MaxNumRetries <= 1, StoreTypeOK, PoolNext, NEW j \in Jobs, jobs[j].state \in Final
  PROVE  jobs'[j].state \in Final
<1>1. /\ jobs[j].state \notin {"absent", "queued", "processing", "errored"}
      /\ RowMoves(j)
  BY PoolRows DEF Final, Terminal
<1>2. QED
  BY <1>1 DEF RowMoves, RowKept, RowStalls, RowClaimed, RowMarked, RowReset, RowEnqueued,
              RowCanceled, RowDeleted, Final, StalledRow

(***************************************************************************)
(* What a step does to a heartbeat goroutine: it slices the IDSet, or      *)
(* learns of the rows that are not processing and of those flagged.        *)
(***************************************************************************)
LEMMA HeartMoves ==
  ASSUME WorkerTypeOK, PoolNext, NEW w \in Hosts, NEW j \in Jobs
  PROVE  /\ j \in heart'[w].ids =>
              ~Crash(w) /\ (j \in heart[w].ids \/ (Has(w, j) /\ UNCHANGED running))
         /\ j \in heart'[w].lost =>
              \/ j \in heart[w].lost
              \/ j \in heart[w].ids /\ jobs[j].state # "processing"
         /\ j \in heart'[w].cancel => j \in heart[w].cancel \/ jobs[j].cancel
<1> DEFINE Good ==
      /\ j \in heart'[w].ids =>
           ~Crash(w) /\ (j \in heart[w].ids \/ (Has(w, j) /\ UNCHANGED running))
      /\ j \in heart'[w].lost =>
           \/ j \in heart[w].lost
           \/ j \in heart[w].ids /\ jobs[j].state # "processing"
      /\ j \in heart'[w].cancel => j \in heart[w].cancel \/ jobs[j].cancel
<1>t. /\ heart \in [Hosts -> Heart] /\ heart[w] \in Heart
  BY DEF WorkerTypeOK
<1>c. Crash(w) => heart'[w] = HeartIdle
  BY <1>t DEF Crash
<1>i. ASSUME heart'[w] = HeartIdle
      PROVE  Good
  BY <1>i DEF HeartIdle
<1>a. ASSUME NEW lost, NEW cancel, heart'[w] = HeartAfter(lost, cancel),
             j \in lost => \/ j \in heart[w].lost
                           \/ j \in heart[w].ids /\ jobs[j].state # "processing",
             j \in cancel => j \in heart[w].cancel \/ jobs[j].cancel
      PROVE  Good
  <2>1. /\ heart'[w].ids = {}
        /\ j \in heart'[w].lost => j \in lost
        /\ j \in heart'[w].cancel => j \in cancel
    BY <1>a DEF HeartAfter, HeartIdle
  <2>2. QED
    BY <1>a, <2>1
<1>same. ASSUME heart'[w] = heart[w]
         PROVE  Good
  BY <1>same, <1>c DEF HeartIdle
<1>1. ASSUME NEW v \in Hosts, BeatBegins(v)
      PROVE  Good
  <2>1. CASE v = w
    <3>1. heart'[w] = [heart[w] EXCEPT !.pc = "sliced", !.ids = Slice(w)] /\ UNCHANGED running
      BY <1>t, <1>1, <2>1 DEF BeatBegins
    <3>2. /\ heart'[w].ids = Slice(w) /\ heart'[w].lost = heart[w].lost
          /\ heart'[w].cancel = heart[w].cancel
      BY <1>t, <3>1 DEF Heart
    <3>3. ~Crash(w) \/ heart'[w].ids = {}
      BY <1>c DEF HeartIdle
    <3>4. QED
      BY <3>1, <3>2, <3>3 DEF Slice, Has
  <2>2. CASE v # w
    BY <1>same, <1>t, <1>1, <2>2 DEF BeatBegins
  <2>3. QED
    BY <2>1, <2>2
<1>2. ASSUME NEW v \in Hosts, BeatAnswered(v)
      PROVE  Good
  <2>1. CASE v = w
    <3> DEFINE ids == heart[w].ids
    <3>1. heart'[w] = HeartAfter(ids \ KnownIDs(ids, ShimHostname), CancelIDs(ids, ShimHostname))
      BY <1>t, <1>2, <2>1 DEF BeatAnswered
    <3>2. j \in ids \ KnownIDs(ids, ShimHostname) => j \in ids /\ jobs[j].state # "processing"
      BY DEF KnownIDs, HostMatches, ShimHostname
    <3>3. j \in CancelIDs(ids, ShimHostname) => jobs[j].cancel
      BY DEF CancelIDs
    <3>4. QED
      BY <1>a, <3>1, <3>2, <3>3
  <2>2. CASE v # w
    BY <1>same, <1>t, <1>2, <2>2 DEF BeatAnswered
  <2>3. QED
    BY <2>1, <2>2
<1>3. ASSUME NEW v \in Hosts, BeatFails(v) \/ Crash(v)
      PROVE  Good
  <2>1. heart'[w] = HeartIdle \/ heart'[w] = heart[w]
    BY <1>t, <1>3 DEF BeatFails, Crash
  <2>2. QED
    BY <1>i, <1>same, <2>1
<1>4. ASSUME NEW v \in Hosts, NEW i \in Jobs, BeatDrops(v, i) \/ BeatCancels(v, i)
      PROVE  Good
  <2>1. CASE v = w
    <3>1. \/ heart'[w] = HeartAfter(heart[w].lost \ {i}, heart[w].cancel)
          \/ heart'[w] = HeartAfter({}, heart[w].cancel \ {i})
      BY <1>t, <1>4, <2>1 DEF BeatDrops, BeatCancels
    <3>2. CASE heart'[w] = HeartAfter(heart[w].lost \ {i}, heart[w].cancel)
      BY <1>a, <3>2
    <3>3. CASE heart'[w] = HeartAfter({}, heart[w].cancel \ {i})
      BY <1>a, <3>3
    <3>4. QED
      BY <3>1, <3>2, <3>3
  <2>2. CASE v # w
    BY <1>same, <1>t, <1>4, <2>2 DEF BeatDrops, BeatCancels
  <2>3. QED
    BY <2>1, <2>2
<1>5. ASSUME \/ \E v \in Hosts :
                  \/ \E C \in SUBSET Jobs : PollBegins(v, C)
                  \/ \E i \in Jobs : PollClaims(v, i)
                  \/ PollEmpty(v) \/ PollFails(v) \/ Register(v) \/ Stop(v) \/ LoopBreaks(v)
                  \/ Finish(v)
             \/ \E a \in Attempts : HandlerNext(a)
             \/ Environment
      PROVE  Good
  <2>1. UNCHANGED heart
    BY <1>5 DEF PollBegins, PollClaims, PollEmpty, PollFails, Register, Stop, LoopBreaks, Finish,
                HandlerNext, HandlerReturns, HandlerMarks, HandlerMarkFails, HandlerReleases,
                HandlerUnregisters, Environment, workerVars
  <2>2. QED
    BY <1>same, <2>1
<1>6. QED
  BY <1>1, <1>2, <1>3, <1>4, <1>5 DEF PoolNext, WorkerNext

\* What the invariant says of one busy attempt of record j.
LEMMA BusyFacts ==
  ASSUME StoreTypeOK, WorkerTypeOK, Owned, BusyInv, NEW b \in Attempts,
         attempts[b].pc \in Busy
  PROVE  /\ b[1] \in Jobs /\ b[2] # 0 /\ attempts[b].worker \in Hosts
         /\ jobs[b[1]].state = "processing" /\ ~jobs[b[1]].stalled
         /\ jobs[b[1]].state \notin Final
         /\ ~Unattended(b[1])
         /\ \A a \in Attempts : a[1] = b[1] /\ attempts[a].pc \in Busy => a = b
<1>1. b[1] \in Jobs /\ b[2] # 0 /\ attempts[b].worker \in Hosts
  BY DEF Attempts, Owned, Busy, Verdicts
<1>2. jobs[b[1]].state = "processing" /\ ~jobs[b[1]].stalled /\ jobs[b[1]].state \notin Final
  BY DEF BusyInv, Final, Terminal
<1>3. ~Unattended(b[1])
  BY <1>1 DEF Unattended, BusyInv
<1>4. ASSUME NEW a \in Attempts, a[1] = b[1], attempts[a].pc \in Busy
      PROVE  a = b
  <2>1. a[2] = dequeues[a[1]] /\ b[2] = dequeues[b[1]]
    BY <1>4 DEF BusyInv
  <2>2. QED
    BY <1>4, <2>1 DEF Attempts
<1>5. QED
  BY <1>1, <1>2, <1>3, <1>4

(***************************************************************************)
(* A step that takes a registration away belongs to a record that is       *)
(* final, or to the worker that dies.                                      *)
(***************************************************************************)
LEMMA RemovedIsFinal ==
  ASSUME HealthyInv, NEW w \in Hosts, NEW j \in Jobs, Removing(w, j), ~Crash(w)
  PROVE  jobs[j].state \in Final
<1>1. ASSUME BeatDrops(w, j)
      PROVE  jobs[j].state \in Final
  BY <1>1 DEF BeatDrops, HealthyInv, HeartInv
<1>2. ASSUME NEW a \in Attempts, a[1] = j, HandlerUnregisters(a)
      PROVE  jobs[j].state \in Final
  BY <1>2 DEF HandlerUnregisters, HealthyInv, BusyInv
<1>3. QED
  BY <1>1, <1>2 DEF Removing

\* A busy attempt keeps its record from everybody else.
LEMMA BusyStep ==
  ASSUME TimelyHeartbeats, MaxNumRetries <= 1, MaxFaults = 0,
         PoolInv, HealthyInv, PoolNext
  PROVE  BusyInv'
<1>t. StoreTypeOK /\ WorkerTypeOK /\ Owned /\ BusyInv
  BY DEF PoolInv, PoolTypeOK, HealthyInv
<1>1. \A j \in Jobs : jobs'[j].state # "errored"
  BY <1>t, NeverErrored DEF BusyInv
<1>2. ASSUME NEW b \in Attempts, attempts'[b].pc \in Busy
      PROVE  /\ b[2] = dequeues'[b[1]]
             /\ jobs'[b[1]].state = "processing" /\ ~jobs'[b[1]].stalled
  <2>1. CASE Claimed(b)
    BY <1>t, <2>1, ClaimedRecord
  <2>2. CASE ~Claimed(b)
    <3>1. attempts[b].pc \in Busy
      BY <1>2, <1>t, <2>2, AttemptMoves DEF Busy, Kept, GoesOn, Lost, Gone, Verdicts
    <3>2. /\ b[1] \in Jobs /\ jobs[b[1]].state = "processing" /\ ~jobs[b[1]].stalled
          /\ ~Unattended(b[1]) /\ b[2] = dequeues[b[1]]
      BY <1>t, <3>1, BusyFacts DEF BusyInv
    <3>3. dequeues'[b[1]] = dequeues[b[1]]
      BY <1>t, <3>2, CountedWhenClaimed DEF DequeueClaim, Recheck
    <3>4. RowMoves(b[1])
      BY <1>t, <3>2, PoolRows
    <3>5. ~RowMarked(b[1])
      <4>1. SUFFICES ASSUME NEW a \in Attempts, a[1] = b[1], HandlerMarks(a)
                     PROVE  FALSE
        BY DEF RowMarked
      <4>2. attempts[a].pc \in Busy
        BY <4>1 DEF HandlerMarks, Busy, Verdicts
      <4>3. a = b
        BY <1>t, <3>1, <4>1, <4>2, BusyFacts
      <4>4. attempts'[b] = [attempts[b] EXCEPT !.pc = "marked"] /\ attempts[b] \in Attempt
        BY <1>t, <4>1, <4>3 DEF HandlerMarks, WorkerTypeOK
      <4>5. attempts'[b].pc = "marked"
        BY <4>4 DEF Attempt
      <4>6. QED
        BY <1>2, <4>5 DEF Busy, Verdicts
    <3>6. jobs'[b[1]].state = "processing" /\ ~jobs'[b[1]].stalled
      BY <3>2, <3>4, <3>5
      DEF RowMoves, RowKept, RowStalls, RowClaimed, RowReset, RowEnqueued, RowCanceled,
          RowDeleted, Terminal, StalledRow
    <3>7. QED
      BY <3>2, <3>3, <3>6
  <2>3. QED
    BY <2>1, <2>2
<1>3. ASSUME NEW b \in Attempts, attempts'[b].pc \in Busy \ {"claimed"}
      PROVE  running'[attempts'[b].worker][b[1]] = b[2]
  <2>1. attempts[b].pc \in Busy /\ attempts'[b].worker = attempts[b].worker
    BY <1>3, <1>t, AttemptMoves DEF Busy, Kept, Claimed, GoesOn, Lost, Gone, Verdicts
  <2>2. CASE attempts[b].pc = "claimed"
    BY <1>3, <1>t, <2>2, AttemptMoves DEF Busy, Kept, Claimed, GoesOn, Lost, Gone, Verdicts
  <2>3. CASE attempts[b].pc # "claimed"
    <3> DEFINE w == attempts[b].worker
    <3>1. /\ b[1] \in Jobs /\ w \in Hosts /\ jobs[b[1]].state \notin Final
          /\ running[w][b[1]] = b[2]
      BY <1>t, <2>1, <2>3, BusyFacts DEF BusyInv
    <3>2. ~Crash(w)
      <4>1. SUFFICES ASSUME Crash(w)
                     PROVE  FALSE
        OBVIOUS
      <4>2. attempts'[b] = Gone
        BY <4>1 DEF Crash
      <4>3. QED
        BY <1>3, <4>2 DEF Gone, Busy, Verdicts
    <3>3. ~Removing(w, b[1])
      BY <3>1, <3>2, RemovedIsFinal
    <3>4. <<b[1], running'[w][b[1]]>> \notin AttemptsOf(w, {"claimed"})
      <4> DEFINE a == <<b[1], running'[w][b[1]]>>
      <4>1. SUFFICES ASSUME a \in AttemptsOf(w, {"claimed"})
                     PROVE  FALSE
        OBVIOUS
      <4>2. a \in Attempts /\ attempts[a].pc = "claimed" /\ a[1] = b[1]
        BY <4>1 DEF AttemptsOf
      <4> HIDE DEF a
      <4>3. attempts[a].pc \in Busy
        BY <4>2 DEF Busy
      <4>4. a = b
        BY <1>t, <2>1, <4>2, <4>3, BusyFacts
      <4>5. QED
        BY <2>3, <4>2, <4>4
    <3>5. running'[w][b[1]] = running[w][b[1]]
      BY <1>t, <3>1, <3>3, <3>4, RunningMoves
    <3>6. QED
      BY <2>1, <3>1, <3>5
  <2>4. QED
    BY <2>2, <2>3
<1>4. ASSUME NEW b \in Attempts, attempts'[b].pc \in {"marked", "released"}
      PROVE  jobs'[b[1]].state \in Final
  <2>0. b[1] \in Jobs
    BY DEF Attempts
  <2>1. CASE attempts[b].pc \in {"marked", "released"}
    BY <1>t, <2>0, <2>1, FinalStays DEF BusyInv
  <2>2. CASE attempts[b].pc \notin {"marked", "released"}
    <3>1. attempts[b].pc \in Verdicts /\ (HandlerMarks(b) \/ HandlerMarkFails(b))
      BY <1>4, <1>t, <2>2, AttemptMoves DEF Kept, Claimed, GoesOn, Lost, Gone, Verdicts
    <3>2. ~HandlerMarkFails(b)
      BY <1>t DEF HandlerMarkFails, Fault, WorkerTypeOK
    <3>3. jobs[b[1]].state = "processing"
      BY <1>t, <3>1 DEF BusyInv, Busy
    <3>4. jobs'[b[1]].state \in Terminal
      BY <1>t, <3>1, <3>2, <3>3, MarkFinishes
    <3>5. QED
      BY <3>4 DEF Final
  <2>3. QED
    BY <2>1, <2>2
<1>5. QED
  BY <1>1, <1>2, <1>3, <1>4 DEF BusyInv

\* The answers that the heartbeat goroutine works off stay true.
LEMMA HeartStep ==
  ASSUME MaxNumRetries <= 1, PoolInv, HealthyInv, PoolNext
  PROVE  HeartInv'
<1>t. StoreTypeOK /\ WorkerTypeOK /\ Owned /\ BusyInv /\ HeartInv /\ NoDanglingID
  BY DEF PoolInv, PoolTypeOK, HealthyInv
<1> SUFFICES ASSUME NEW w \in Hosts
             PROVE  /\ \A j \in heart'[w].ids : jobs'[j].state \in Final \/ Has(w, j)'
                    /\ \A j \in heart'[w].lost : jobs'[j].state \in Final
  BY DEF HeartInv
<1>s. heart'[w].ids \subseteq Jobs /\ heart'[w].lost \subseteq Jobs
  BY <1>t, WorkerTypeStep DEF WorkerTypeOK, Heart
<1>1. ASSUME NEW j \in heart'[w].ids
      PROVE  jobs'[j].state \in Final \/ Has(w, j)'
  <2>1. /\ j \in Jobs /\ ~Crash(w)
        /\ j \in heart[w].ids \/ (Has(w, j) /\ UNCHANGED running)
    BY <1>s, <1>t, <1>1, HeartMoves
  <2>2. CASE jobs[j].state \in Final
    BY <1>t, <2>1, <2>2, FinalStays
  <2>3. CASE jobs[j].state \notin Final
    <3>1. Has(w, j)
      BY <1>t, <2>1, <2>3 DEF HeartInv
    <3>2. ~Removing(w, j)
      BY <2>1, <2>3, RemovedIsFinal
    <3>3. CASE running'[w][j] = running[w][j]
      BY <3>1, <3>3 DEF Has
    <3>4. CASE <<j, running'[w][j]>> \in AttemptsOf(w, {"claimed"})
      <4>1. <<j, running'[w][j]>> \in Attempts
        BY <3>4 DEF AttemptsOf
      <4>2. running'[w][j] # 0
        BY <4>1 DEF Attempts
      <4>3. QED
        BY <4>2 DEF Has
    <3>5. QED
      BY <1>t, <2>1, <3>2, <3>3, <3>4, RunningMoves
  <2>4. QED
    BY <2>2, <2>3
<1>2. ASSUME NEW j \in heart'[w].lost
      PROVE  jobs'[j].state \in Final
  <2>1. /\ j \in Jobs
        /\ j \in heart[w].lost \/ (j \in heart[w].ids /\ jobs[j].state # "processing")
    BY <1>s, <1>t, <1>2, HeartMoves
  <2>2. jobs[j].state \in Final
    <3>1. CASE j \in heart[w].lost
      BY <1>t, <3>1 DEF HeartInv
    <3>2. CASE j \in heart[w].ids /\ jobs[j].state # "processing" /\ running[w][j] # 0
      <4>1. PICK a \in AttemptsOf(w, InWaitGroup \cup {"released"}) : a = <<j, running[w][j]>>
        BY <1>t, <2>1, <3>2 DEF NoDanglingID
      <4>2. a \in Attempts /\ attempts[a].pc \in InWaitGroup \cup {"released"} /\ a[1] = j
        BY <4>1 DEF AttemptsOf
      <4> HIDE <4>1
      <4>3. attempts[a].pc \notin Busy
        BY <1>t, <3>2, <4>2 DEF BusyInv
      <4>4. attempts[a].pc \in {"marked", "released"}
        BY <4>2, <4>3 DEF InWaitGroup, Busy
      <4>5. QED
        BY <1>t, <4>2, <4>4 DEF BusyInv
    <3>3. QED
      BY <1>t, <2>1, <3>1, <3>2 DEF HeartInv, Has
  <2>3. QED
    BY <1>t, <2>1, <2>2, FinalStays
<1>3. QED
  BY <1>1, <1>2

\* The inductive invariant of a pool whose database answers.
THEOREM HealthyInvariant ==
  ASSUME TimelyHeartbeats, MaxNumRetries <= 1, MaxFaults = 0
  PROVE  PoolSpec => []HealthyInv
<1>1. PoolInit => HealthyInv
  BY DEF PoolInit, StoreInit, HealthyInv, BusyInv, HeartInv, NoAttempt, AbsentRow,
         HeartIdle, Busy, Verdicts
<1>2. PoolInv /\ HealthyInv /\ [PoolNext]_poolVars => HealthyInv'
  <2> SUFFICES ASSUME PoolInv, HealthyInv, [PoolNext]_poolVars
               PROVE  HealthyInv'
    OBVIOUS
  <2>1. CASE UNCHANGED poolVars
    BY <2>1 DEF poolVars, storeVars, workerVars, HealthyInv, BusyInv, HeartInv, Has
  <2>2. CASE PoolNext
    BY <2>2, BusyStep, HeartStep DEF HealthyInv
  <2>3. QED
    BY <2>1, <2>2
<1>3. QED
  BY <1>1, <1>2, PoolInvariant, PTL DEF PoolSpec

\* No attempt finishes the record on behalf of another one.
THEOREM MarksOwned ==
  ASSUME TimelyHeartbeats, MaxNumRetries <= 1, MaxFaults = 0
  PROVE  PoolSpec => OwnMarks
<1>1. HealthyInv => \A a \in Attempts : attempts[a].pc \in Verdicts => a[2] = dequeues[a[1]]
  BY DEF HealthyInv, BusyInv, Busy
<1>2. HealthyInv /\ [PoolNext]_poolVars =>
        [\A a \in Attempts :
           attempts[a].pc \in Verdicts /\ attempts'[a].pc = "marked"
             /\ jobs'[a[1]] # jobs[a[1]] => a[2] = dequeues[a[1]]]_poolVars
  BY <1>1
<1>3. QED
  BY <1>2, HealthyInvariant, PTL DEF PoolSpec, OwnMarks
----------------------------------------------------------------------------
(***************************************************************************)
(* Cancellations.  The rest holds for all values of the constants.         *)
(*                                                                         *)
(* What the heartbeat goroutine was told to cancel is flagged, and a       *)
(* handler starts with a context that is not canceled.                     *)
(***************************************************************************)
ReasonInv ==
  /\ \A a \in Attempts :
       attempts[a].canceled => attempts[a].pc # "claimed" /\ attempts[a].worker \in Hosts
  /\ \A w \in Hosts : \A j \in heart[w].cancel : jobs[j].cancel
  /\ CanceledForThatReason

\* The cancel flag of a record stays.
FlagsKept == \A j \in Jobs : jobs[j].cancel => jobs'[j].cancel

\* The pool does not requeue, so that CancelSticks has no exception.
LEMMA PoolFlagsKept == PoolSpec => [][FlagsKept]_poolVars
<1> DEFINE Keeps == \A j \in Jobs :
                      jobs[j].cancel =>
                        \/ jobs'[j].cancel /\ jobs'[j].state # "errored"
                        \/ requeues'[j] > requeues[j]
<1>1. StoreTypeOK /\ [PoolNext]_poolVars /\ [Keeps]_storeVars => [FlagsKept]_poolVars
  <2> SUFFICES ASSUME StoreTypeOK, [PoolNext]_poolVars, [Keeps]_storeVars,
                      NEW j \in Jobs, jobs[j].cancel
               PROVE  jobs'[j].cancel
    BY DEF FlagsKept
  <2>1. requeues' = requeues /\ requeues[j] \in Nat
    BY CountersKept DEF StoreTypeOK
  <2>2. CASE UNCHANGED storeVars
    BY <2>2 DEF storeVars
  <2>3. CASE Keeps
    BY <2>1, <2>3
  <2>4. QED
    BY <2>2, <2>3
<1>2. PoolSpec => [][Keeps]_storeVars
  BY PoolImplementsStore, CancellationSticks, PTL DEF CancelSticks
<1>3. PoolSpec => []StoreTypeOK
  BY PoolImplementsStore, StoreTypeCorrect, PTL
<1> HIDE DEF Keeps
<1>4. QED
  BY <1>1, <1>2, <1>3, PTL DEF PoolSpec

\* A handler is told to stop by a removal, which unregisters it, or because
\* its record is flagged.
LEMMA StoppedForAReason ==
  ASSUME WorkerTypeOK, Owned, NoDanglingID, ReasonInv, PoolNext, NEW b \in Attempts,
         ~attempts[b].canceled, attempts'[b].canceled,
         NEW w \in Hosts, w = attempts[b].worker, running'[w][b[1]] = b[2]
  PROVE  jobs[b[1]].cancel
<1>0. b[1] \in Jobs /\ b = <<b[1], b[2]>> /\ b[2] # 0
  BY DEF Attempts
<1>t. /\ attempts \in [Attempts -> Attempt]
      /\ running \in [Hosts -> [Jobs -> 0 .. MaxAttempts]]
  BY DEF WorkerTypeOK
<1>h. \A h \in Hosts : b = <<b[1], running[h][b[1]]>> => h = w
  BY <1>0 DEF NoDanglingID, AttemptsOf
<1>1. Canceling(b)
  BY AttemptMoves DEF Kept, Claimed, GoesOn, Lost, Gone
<1>2. ASSUME NEW h \in Hosts, BeatDrops(h, b[1])
      PROVE  FALSE
  <2>1. CancelFunc(h, b[1], attempts)[b] # attempts[b]
    BY <1>2 DEF BeatDrops
  <2>2. b = <<b[1], running[h][b[1]]>>
    BY <2>1, CancelFuncTarget
  <2>3. running'[w][b[1]] = 0
    BY <1>0, <1>2, <1>h, <1>t, <2>2 DEF BeatDrops, RemoveID
  <2>4. QED
    BY <1>0, <2>3
<1>3. ASSUME NEW a \in Attempts, a[1] = b[1], HandlerUnregisters(a)
      PROVE  FALSE
  <2> DEFINE h == attempts[a].worker
             c == CancelFunc(h, a[1], attempts)
  <2>1. attempts' = [c EXCEPT ![a] = Gone] /\ RemoveID(h, a[1])
    BY <1>3 DEF HandlerUnregisters
  <2>2. c \in [Attempts -> Attempt]
    BY AttemptsTyped
  <2>3. b # a /\ c[b] # attempts[b]
    BY <2>1, <2>2 DEF Gone
  <2>4. b = <<a[1], running[h][a[1]]>>
    BY <2>3, CancelFuncTarget
  <2>5. h \in Hosts
    BY <1>3 DEF HandlerUnregisters, Owned
  <2>6. h = w
    BY <1>3, <1>h, <2>4, <2>5
  <2>7. running'[w][b[1]] = 0
    BY <1>0, <1>3, <1>t, <2>1, <2>6 DEF RemoveID
  <2>8. QED
    BY <1>0, <2>7
<1>4. PICK h \in Hosts : BeatCancels(h, b[1])
  BY <1>1, <1>2, <1>3 DEF Canceling
<1>5. QED
  BY <1>4 DEF BeatCancels, ReasonInv

LEMMA ReasonStep ==
  ASSUME PoolInv, ReasonInv, PoolNext, FlagsKept, WorkerTypeOK'
  PROVE  ReasonInv'
<1>t. StoreTypeOK /\ WorkerTypeOK /\ NoDanglingID /\ Owned
  BY DEF PoolInv, PoolTypeOK
<1>1. ASSUME NEW b \in Attempts, attempts'[b].canceled
      PROVE  attempts'[b].pc # "claimed" /\ attempts'[b].worker \in Hosts
  BY <1>t, <1>1, AttemptMoves DEF ReasonInv, Owned, Kept, Claimed, GoesOn, Lost, Gone, Verdicts
<1>2. ASSUME NEW w \in Hosts, NEW j \in heart'[w].cancel
      PROVE  jobs'[j].cancel
  <2>1. j \in Jobs
    BY <1>2 DEF WorkerTypeOK, Heart
  <2>2. jobs[j].cancel
    BY <1>t, <1>2, <2>1, HeartMoves DEF ReasonInv
  <2>3. QED
    BY <2>1, <2>2 DEF FlagsKept
<1>3. ASSUME NEW b \in Attempts, attempts'[b].canceled,
             running'[attempts'[b].worker][b[1]] = b[2]
      PROVE  jobs'[b[1]].cancel
  <2>0. b[1] \in Jobs /\ b = <<b[1], b[2]>> /\ b[2] # 0
    BY DEF Attempts
  <2>1. /\ attempts'[b].worker = attempts[b].worker
        /\ attempts[b].pc \in AttemptStates
        /\ attempts[b].canceled \/ attempts[b].pc = "handling"
    BY <1>3, <1>t, AttemptMoves DEF Kept, Claimed, GoesOn, Lost, Gone, WorkerTypeOK, Attempt
  <2>w. attempts[b].worker \in Hosts
    BY <1>t, <2>1 DEF Owned, ReasonInv
  <2>2. CASE attempts[b].canceled
    <3>1. running[attempts[b].worker][b[1]] = b[2]
      <4> DEFINE w == attempts[b].worker
      <4>1. CASE <<b[1], running'[w][b[1]]>> \in AttemptsOf(w, {"claimed"})
        BY <1>3, <2>0, <2>1, <2>2, <4>1 DEF AttemptsOf, ReasonInv
      <4>2. QED
        BY <1>3, <1>t, <2>w, <2>0, <2>1, <2>2, <4>1, RunningMoves
    <3>2. QED
      BY <2>0, <2>2, <3>1 DEF ReasonInv, CanceledForThatReason, FlagsKept
  <2>3. CASE ~attempts[b].canceled
    <3>1. jobs[b[1]].cancel
      BY <1>3, <1>t, <2>w, <2>1, <2>3, StoppedForAReason
    <3>2. QED
      BY <2>0, <3>1 DEF FlagsKept
  <2>4. QED
    BY <2>2, <2>3
<1>4. QED
  BY <1>1, <1>2, <1>3 DEF ReasonInv, CanceledForThatReason

(***************************************************************************)
(* The comment at isJobCanceled is right for the attempt that is           *)
(* registered: its handler was told to stop because a cancellation was     *)
(* asked for, whatever fails, crashes or comes late.                       *)
(***************************************************************************)
THEOREM CancellationsJustified == PoolSpec => []CanceledForThatReason
<1>1. PoolInit => ReasonInv
  BY DEF PoolInit, ReasonInv, CanceledForThatReason, NoAttempt, HeartIdle
<1>2. PoolInv /\ PoolInv' /\ ReasonInv /\ [PoolNext]_poolVars /\ [FlagsKept]_poolVars => ReasonInv'
  <2>1. ASSUME UNCHANGED poolVars, ReasonInv PROVE ReasonInv'
    BY <2>1 DEF poolVars, storeVars, workerVars, ReasonInv, CanceledForThatReason
  <2>2. QED
    BY <2>1, ReasonStep DEF PoolInv, PoolTypeOK
<1>3. ReasonInv => CanceledForThatReason
  BY DEF ReasonInv
<1>4. QED
  BY <1>1, <1>2, <1>3, PoolInvariant, PoolFlagsKept, PTL DEF PoolSpec
=============================================================================
