------------------------ MODULE UpdateScheduler_proof ------------------------
(***************************************************************************)
(* Proofs about the update scheduler, for every number of repositories,    *)
(* updates and generations of its loops, and all delays and intervals.     *)
(***************************************************************************)
EXTENDS UpdateScheduler, MutableLimiter_proof

USE LimiterAssumption, SchedulerAssumption

----------------------------------------------------------------------------
Entry == [repo : Repos, priority : {Low, High}, updating : BOOLEAN]

\* A repository has one place in a queue: updateQueue.index.
OnePlace(q) == \A i, k \in 1 .. Len(q) : q[i].repo = q[k].repo => i = k

\* The loops that have not been started yet.
FutureOff ==
  \A g \in Generations :
    g > gen => scheduleLoop[g].pc = "off" /\ updateLoop[g].pc = "off"

RelayInv == relay.pc # "idle" => relay.repo \in Repos

Awake ==
  DOMAIN schedule # {} =>
    \/ timer # NoTimer /\ \A r \in DOMAIN schedule : timer <= schedule[r].due
    \/ firing
    \/ wakeup.ch \in wakeup.full
    \/ \E g \in Generations : scheduleLoop[g].pc \in {"woken", "running"}
----------------------------------------------------------------------------
(***************************************************************************)
(* Delays.                                                                 *)
(***************************************************************************)
LEMMA Quotient ==
  ASSUME NEW a \in Nat, NEW d \in Nat \ {0}
  PROVE  /\ a \div d \in Nat
         /\ d * (a \div d) <= a /\ a < d * (a \div d) + d
OBVIOUS

\* With a divisor of at least 2.
LEMMA QuotientGrows ==
  ASSUME NEW a \in Nat, NEW b \in Nat, a <= b, NEW d \in Nat \ {0, 1}
  PROVE  /\ a \div d <= b \div d
         /\ a - a \div d <= b - b \div d
         /\ a \div d <= a
         /\ d <= a => a \div d >= 1
<1> DEFINE p == a \div d
           q == b \div d
<1>1. /\ p \in Nat /\ d * p <= a /\ a < d * p + d
      /\ q \in Nat /\ d * q <= b /\ b < d * q + d
  BY Quotient
<1> HIDE DEF p, q
<1>2. ASSUME NEW k \in Nat, NEW n \in Nat, k <= n
      PROVE  d * k <= d * n /\ k <= d * k
  <2>1. d * (n - k) = d * n - d * k /\ (d - 1) * k = d * k - k
    BY <1>2
  <2>2. d * (n - k) \in Nat /\ (d - 1) * k \in Nat /\ d * n \in Nat /\ d * k \in Nat
    <3>1. \A x, y \in Nat : x * y \in Nat
      OBVIOUS
    <3>2. n - k \in Nat /\ d - 1 \in Nat
      BY <1>2
    <3>3. QED
      BY <3>1, <3>2
  <2> DEFINE dn == d * n
             dk == d * k
  <2>3. dn - dk \in Nat /\ dk - k \in Nat /\ dn \in Nat /\ dk \in Nat
    BY <2>1, <2>2
  <2> HIDE DEF dn, dk
  <2>4. dk <= dn /\ k <= dk
    BY <2>3
  <2>5. QED
    BY <2>4 DEF dn, dk
<1>3. p <= q
  <2>1. SUFFICES ASSUME q + 1 <= p
                 PROVE  FALSE
    BY <1>1
  <2>2. d * (q + 1) <= d * p /\ d * (q + 1) = d * q + d
    BY <1>1, <1>2, <2>1
  <2>3. QED
    BY <1>1, <2>2
<1>4. a - p <= b - q
  <2>1. CASE q = p
    BY <1>1, <2>1
  <2>2. CASE q # p
    <3>1. q - p - 1 \in Nat
      BY <1>1, <1>3, <2>2
    <3>2. q - p - 1 <= d * (q - p - 1)
      BY <1>2, <3>1
    <3>3. d * (q - p - 1) = d * q - d * p - d
      BY <1>1
    <3>4. QED
      BY <1>1, <3>1, <3>2, <3>3
  <2>3. QED
    BY <2>1, <2>2
<1>5. p <= a
  BY <1>1, <1>2
<1>6. d <= a => p >= 1
  <2>1. CASE p = 0
    BY <1>1, <2>1
  <2>2. CASE p # 0
    BY <1>1, <2>2
  <2>3. QED
    BY <2>1, <2>2
<1>7. QED
  BY <1>3, <1>4, <1>5, <1>6 DEF p, q

\* An interval within the jitter of minDelay and maxDelay.
Bounded(v) ==
  /\ v \in Nat /\ v >= MinDelay - MinDelay \div JitterDivisor
  /\ v < MaxDelay + MaxDelay \div JitterDivisor

LEMMA JitterBounded ==
  /\ Bounded(MinDelay)
  /\ \A interval \in Int : \A v \in Jittered(Clamp(interval)) : Bounded(v)
<1>0. /\ MinDelay \div JitterDivisor \in Nat /\ MaxDelay \div JitterDivisor \in Nat
      /\ MinDelay \div JitterDivisor <= MinDelay /\ MaxDelay \div JitterDivisor >= 1
  BY Quotient, QuotientGrows
<1>1. Bounded(MinDelay)
  BY <1>0 DEF Bounded
<1>2. ASSUME NEW interval \in Int, NEW v \in Jittered(Clamp(interval))
      PROVE  Bounded(v)
  <2> DEFINE x == Clamp(interval)
             delta == x \div JitterDivisor
  <2>1. x \in Nat /\ MinDelay <= x /\ x <= MaxDelay
    BY DEF Clamp
  <2>2. PICK n \in 0 .. 2 * delta - 1 : v = x + n - delta
    BY DEF Jittered
  <2> HIDE DEF x
  <2>3. /\ delta \in Nat /\ delta <= x
        /\ MinDelay - MinDelay \div JitterDivisor <= x - delta
        /\ delta <= MaxDelay \div JitterDivisor
    BY <2>1, Quotient, QuotientGrows
  <2> HIDE DEF delta
  <2>4. QED
    BY <1>0, <2>1, <2>2, <2>3 DEF Bounded
<1>3. QED
  BY <1>1, <1>2

\* rescheduleTimer: no repository is due before the timer expires.
LEMMA TimerIsEarliest ==
  ASSUME NEW s, \A r \in DOMAIN s : s[r].due \in Nat
  PROVE  /\ TimerFor(s) \in Nat \cup {NoTimer}
         /\ DOMAIN s # {} =>
              TimerFor(s) # NoTimer /\ \A r \in DOMAIN s : TimerFor(s) <= s[r].due
<1> DEFINE D == {s[r].due : r \in DOMAIN s}
<1>1. CASE DOMAIN s = {}
  BY <1>1 DEF TimerFor
<1>2. CASE DOMAIN s # {}
  <2>1. D \subseteq Nat /\ D # {}
    BY <1>2
  <2>2. Min(D) \in D /\ \A y \in D : Min(D) <= y
    BY <2>1, LeastOfNats
  <2>3. TimerFor(s) = Min(D)
    BY <1>2 DEF TimerFor
  <2>4. QED
    BY <2>1, <2>2, <2>3 DEF NoTimer
<1>3. QED
  BY <1>1, <1>2
----------------------------------------------------------------------------
(***************************************************************************)
(* The queue.                                                              *)
(***************************************************************************)
LEMMA PlacesOfQueue ==
  ASSUME queue \in Seq(Entry)
  PROVE  /\ DOMAIN queue = 1 .. Len(queue) /\ Len(queue) \in Nat
         /\ \A i \in DOMAIN queue : queue[i] \in Entry
         /\ \A r : Queued(r) => Place(r) \in 1 .. Len(queue) /\ queue[Place(r)].repo = r
<1>1. DOMAIN queue = 1 .. Len(queue) /\ Len(queue) \in Nat
  BY LenProperties
<1>2. \A i \in DOMAIN queue : queue[i] \in Entry
  BY <1>1, ElementOfSeq
<1>3. \A r : Queued(r) => Place(r) \in DOMAIN queue /\ queue[Place(r)].repo = r
  BY DEF Queued, Place
<1>4. QED
  BY <1>1, <1>2, <1>3

LEMMA WithoutPlace ==
  ASSUME NEW s \in Seq(Entry), OnePlace(s), NEW j \in 1 .. Len(s)
  PROVE  /\ RemoveAt(s, j) \in Seq(Entry) /\ OnePlace(RemoveAt(s, j))
         /\ ToSet(RemoveAt(s, j)) = ToSet(s) \ {s[j]}
         /\ \A x \in ToSet(RemoveAt(s, j)) : x.repo # s[j].repo
<1> DEFINE t == RemoveAt(s, j)
<1>0. Len(s) \in Nat /\ j \in Int
  BY LenProperties
<1>1. /\ t \in Seq(Entry) /\ Len(t) = Len(s) - 1
      /\ \A i \in 1 .. Len(s) - 1 : t[i] = IF i < j THEN s[i] ELSE s[i + 1]
  BY RemoveAtPlace
<1> HIDE DEF t
<1>2. OnePlace(t)
  <2>1. SUFFICES ASSUME NEW i \in 1 .. Len(t), NEW k \in 1 .. Len(t), t[i].repo = t[k].repo
                 PROVE  i = k
    BY DEF OnePlace
  <2> DEFINE p == IF i < j THEN i ELSE i + 1
             q == IF k < j THEN k ELSE k + 1
  <2>2. p \in 1 .. Len(s) /\ q \in 1 .. Len(s) /\ t[i] = s[p] /\ t[k] = s[q]
    BY <1>0, <1>1, <2>1
  <2>3. p = q
    BY <2>1, <2>2 DEF OnePlace
  <2>4. QED
    BY <1>0, <1>1, <2>3
<1>3. ASSUME NEW x \in ToSet(t)
      PROVE  x \in ToSet(s) /\ x.repo # s[j].repo
  <2>1. PICK i \in 1 .. Len(t) : t[i] = x
    BY <1>1, <1>3, MembersOfList
  <2>2. PICK k \in 1 .. Len(s) : k # j /\ s[k] = x
    BY <1>0, <1>1, <2>1
  <2>3. QED
    BY <2>2, MembersOfList DEF OnePlace
<1>4. ASSUME NEW x \in ToSet(s), x # s[j]
      PROVE  x \in ToSet(t)
  <2>1. PICK k \in 1 .. Len(s) : s[k] = x /\ k # j
    BY <1>4, MembersOfList
  <2>2. CASE k < j
    <3>1. k \in 1 .. Len(t) /\ t[k] = x
      BY <1>0, <1>1, <2>1, <2>2
    <3>2. QED
      BY <1>1, <3>1, MembersOfList
  <2>3. CASE k > j
    <3>1. k - 1 \in 1 .. Len(t) /\ t[k - 1] = x
      BY <1>0, <1>1, <2>1, <2>3
    <3>2. QED
      BY <1>1, <3>1, MembersOfList
  <2>4. QED
    BY <1>0, <2>1, <2>2, <2>3
<1>5. QED
  BY <1>1, <1>2, <1>3, <1>4 DEF t

LEMMA WithPlace ==
  ASSUME NEW s \in Seq(Entry), OnePlace(s), NEW e \in Entry,
         \A x \in ToSet(s) : x.repo # e.repo
  PROVE  /\ Append(s, e) \in Seq(Entry) /\ OnePlace(Append(s, e))
         /\ ToSet(Append(s, e)) = ToSet(s) \cup {e}
<1>1. /\ Append(s, e) \in Seq(Entry) /\ Len(Append(s, e)) = Len(s) + 1
      /\ ToSet(Append(s, e)) = ToSet(s) \cup {e}
  BY AppendToList
<1>2. /\ \A i \in 1 .. Len(s) : Append(s, e)[i] = s[i]
      /\ Append(s, e)[Len(s) + 1] = e /\ Len(s) \in Nat
  BY AppendProperties, LenProperties
<1>3. \A i \in 1 .. Len(s) : s[i].repo # e.repo
  BY MembersOfList
<1>4. OnePlace(Append(s, e))
  BY <1>1, <1>2, <1>3 DEF OnePlace
<1>5. QED
  BY <1>1, <1>4

\* The repositories that are being updated, and the others.
LEMMA MembersOfQueue ==
  ASSUME NEW s \in Seq(Entry), NEW r
  PROVE  /\ (\E i \in DOMAIN s : s[i].repo = r)
              <=> \E x \in ToSet(s) : x.repo = r
         /\ (\E i \in DOMAIN s : s[i].repo = r /\ s[i].updating)
              <=> \E x \in ToSet(s) : x.repo = r /\ x.updating
         /\ (\E i \in DOMAIN s : s[i].repo = r /\ ~s[i].updating)
              <=> \E x \in ToSet(s) : x.repo = r /\ ~x.updating
         /\ ToSet(s) \subseteq Entry
<1>1. DOMAIN s = 1 .. Len(s)
  BY LenProperties
<1>2. ToSet(s) \subseteq Entry /\ \A x : x \in ToSet(s) <=> \E i \in 1 .. Len(s) : s[i] = x
  BY MembersOfList
<1>3. QED
  BY <1>1, <1>2

\* enqueue does not touch the repositories that are being updated.
LEMMA EnqueuedEffect ==
  ASSUME queue \in Seq(Entry), OnePlace(queue), NEW r \in Repos, NEW p \in {Low, High}
  PROVE  /\ Enqueued(r, p) \in Seq(Entry) /\ OnePlace(Enqueued(r, p))
         /\ \A x \in Entry : x.updating => (x \in ToSet(Enqueued(r, p)) <=> x \in ToSet(queue))
<1>0. /\ \A x \in ToSet(queue) : x \in Entry
      /\ Queued(r) <=> \E x \in ToSet(queue) : x.repo = r
  <2>1. ToSet(queue) \subseteq Entry
    BY MembersOfQueue
  <2>2. (\E i \in DOMAIN queue : queue[i].repo = r) <=> \E x \in ToSet(queue) : x.repo = r
    <3>1. DOMAIN queue = 1 .. Len(queue)
      BY LenProperties
    <3>2. \A x : x \in ToSet(queue) <=> \E i \in DOMAIN queue : queue[i] = x
      BY <3>1, MembersOfList
    <3>3. QED
      BY <3>2
  <2>3. QED
    BY <2>1, <2>2 DEF Queued
<1>1. CASE ~Queued(r)
  <2> DEFINE e == [repo |-> r, priority |-> p, updating |-> FALSE]
  <2>1. e \in Entry /\ e.repo = r /\ ~e.updating
    BY DEF Entry
  <2>2. Enqueued(r, p) = Append(queue, e)
    BY <1>1 DEF Enqueued
  <2> HIDE DEF e
  <2>3. \A x \in ToSet(queue) : x.repo # e.repo
    BY <1>0, <1>1, <2>1
  <2>4. QED
    BY <2>1, <2>2, <2>3, WithPlace
<1>2. CASE Queued(r)
  <2> DEFINE i == Place(r)
             e == [queue[i] EXCEPT !.priority = p]
  <2>1. i \in 1 .. Len(queue) /\ queue[i].repo = r /\ queue[i] \in Entry
    BY <1>2, PlacesOfQueue
  <2>2. e \in Entry /\ e.repo = r /\ e.updating = queue[i].updating
    BY <2>1 DEF Entry
  <2>3. CASE queue[i].updating \/ p <= queue[i].priority
    BY <1>2, <2>3 DEF Enqueued
  <2>4. CASE ~(queue[i].updating \/ p <= queue[i].priority)
    <3>1. Enqueued(r, p) = Append(RemoveAt(queue, i), e)
      BY <1>2, <2>4 DEF Enqueued
    <3> HIDE DEF i, e
    <3>2. /\ RemoveAt(queue, i) \in Seq(Entry) /\ OnePlace(RemoveAt(queue, i))
          /\ ToSet(RemoveAt(queue, i)) = ToSet(queue) \ {queue[i]}
          /\ \A x \in ToSet(RemoveAt(queue, i)) : x.repo # e.repo
      BY <2>1, <2>2, WithoutPlace
    <3>3. /\ Append(RemoveAt(queue, i), e) \in Seq(Entry) /\ OnePlace(Append(RemoveAt(queue, i), e))
          /\ ToSet(Append(RemoveAt(queue, i), e)) = ToSet(RemoveAt(queue, i)) \cup {e}
      BY <2>2, <3>2, WithPlace
    <3>4. ~queue[i].updating /\ ~e.updating
      BY <2>2, <2>4
    <3>5. QED
      BY <3>1, <3>2, <3>3, <3>4
  <2>5. QED
    BY <2>3, <2>4
<1>3. QED
  BY <1>1, <1>2

\* remove takes the place of the repository, or leaves the queue alone.
LEMMA RemovedEffect ==
  ASSUME queue \in Seq(Entry), OnePlace(queue), NEW r, NEW u \in BOOLEAN
  PROVE  /\ Removed(r, u) \in Seq(Entry) /\ OnePlace(Removed(r, u))
         /\ ToSet(Removed(r, u)) = {x \in ToSet(queue) : ~(x.repo = r /\ x.updating = u)}
<1>0. /\ DOMAIN queue = 1 .. Len(queue)
      /\ Queued(r) => Place(r) \in 1 .. Len(queue) /\ queue[Place(r)].repo = r
  BY PlacesOfQueue
<1>1. \A x \in ToSet(queue) : x.repo = r => Queued(r) /\ x = queue[Place(r)]
  <2>1. SUFFICES ASSUME NEW x \in ToSet(queue), x.repo = r
                 PROVE  Queued(r) /\ x = queue[Place(r)]
    OBVIOUS
  <2>2. PICK i \in 1 .. Len(queue) : queue[i] = x
    BY <2>1, MembersOfList
  <2>3. Queued(r)
    BY <1>0, <2>1, <2>2 DEF Queued
  <2>4. i = Place(r)
    BY <1>0, <2>1, <2>2, <2>3 DEF OnePlace
  <2>5. QED
    BY <2>2, <2>3, <2>4
<1>2. CASE Queued(r) /\ queue[Place(r)].updating = u
  <2>1. Removed(r, u) = RemoveAt(queue, Place(r))
    BY <1>2 DEF Removed
  <2>2. /\ RemoveAt(queue, Place(r)) \in Seq(Entry) /\ OnePlace(RemoveAt(queue, Place(r)))
        /\ ToSet(RemoveAt(queue, Place(r))) = ToSet(queue) \ {queue[Place(r)]}
    BY <1>0, <1>2, WithoutPlace
  <2>3. QED
    BY <1>0, <1>1, <1>2, <2>1, <2>2
<1>3. CASE ~(Queued(r) /\ queue[Place(r)].updating = u)
  <2>1. Removed(r, u) = queue
    BY <1>3 DEF Removed
  <2>2. QED
    BY <1>1, <1>3, <2>1
<1>4. QED
  BY <1>2, <1>3

\* acquireNext marks a repository.
LEMMA MarkedEffect ==
  ASSUME queue \in Seq(Entry), OnePlace(queue), NEW i \in DOMAIN queue,
         queue' = [queue EXCEPT ![i].updating = TRUE]
  PROVE  /\ queue' \in Seq(Entry) /\ OnePlace(queue') /\ DOMAIN queue' = DOMAIN queue
         /\ queue'[i].updating
         /\ \A k \in DOMAIN queue : queue'[k].repo = queue[k].repo
         /\ \A k \in DOMAIN queue : k # i => queue'[k] = queue[k]
<1> DEFINE e == [queue[i] EXCEPT !.updating = TRUE]
<1>1. /\ DOMAIN queue = 1 .. Len(queue) /\ Len(queue) \in Nat
      /\ \A k \in DOMAIN queue : queue[k] \in Entry
  BY PlacesOfQueue
<1>2. e \in Entry /\ e.updating /\ e.repo = queue[i].repo
  BY <1>1 DEF Entry
<1>3. queue' = [queue EXCEPT ![i] = e]
  OBVIOUS
<1> HIDE DEF e
<1>4. queue' \in Seq(Entry) /\ Len(queue') = Len(queue)
  <2>1. i \in 1 .. Len(queue)
    BY <1>1
  <2>2. [queue EXCEPT ![i] = e] \in Seq(Entry) /\ Len([queue EXCEPT ![i] = e]) = Len(queue)
    BY <1>2, <2>1, ExceptSeq
  <2>3. QED
    BY <1>3, <2>2
<1>5. /\ DOMAIN queue' = DOMAIN queue /\ queue'[i] = e
      /\ \A k \in DOMAIN queue : k # i => queue'[k] = queue[k]
  BY <1>3
<1>6. \A k \in DOMAIN queue : queue'[k].repo = queue[k].repo
  BY <1>2, <1>5
<1>7. OnePlace(queue')
  BY <1>1, <1>4, <1>6 DEF OnePlace
<1>8. QED
  BY <1>2, <1>4, <1>5, <1>6, <1>7

\* If a repository waits, acquireNext finds one.
LEMMA NextIsFound ==
  ASSUME queue \in Seq(Entry), NEW r, Waiting(r)
  PROVE  NextIndexes # {}
<1>1. /\ DOMAIN queue \subseteq Nat
      /\ \A i \in DOMAIN queue : queue[i].priority \in {0, 1}
  BY PlacesOfQueue DEF Entry, Low, High
<1> DEFINE W == {i \in DOMAIN queue : ~queue[i].updating}
           H == {i \in W : queue[i].priority = 1}
<1>2. W # {}
  BY DEF Waiting
<1>3. CASE H # {}
  <2>1. Min(H) \in H /\ \A y \in H : Min(H) <= y
    BY <1>1, <1>3, LeastOfNats
  <2> DEFINE m == Min(H)
  <2>2. ASSUME NEW k \in W
        PROVE  \/ queue[k].priority < queue[m].priority
               \/ queue[k].priority = queue[m].priority /\ m <= k
    <3>1. m \in H /\ queue[m].priority = 1
      BY <2>1
    <3> HIDE DEF m
    <3>2. CASE queue[k].priority = 1
      BY <2>1, <3>1, <3>2 DEF m
    <3>3. CASE queue[k].priority = 0
      BY <3>1, <3>3
    <3>4. QED
      BY <1>1, <3>2, <3>3
  <2>3. m \in NextIndexes
    BY <2>1, <2>2 DEF NextIndexes
  <2>4. QED
    BY <2>3
<1>4. CASE H = {}
  <2>1. Min(W) \in W /\ \A y \in W : Min(W) <= y
    BY <1>1, <1>2, LeastOfNats
  <2>2. \A y \in W : queue[y].priority = 0
    BY <1>1, <1>4
  <2>3. Min(W) \in NextIndexes
    BY <1>1, <2>1, <2>2 DEF NextIndexes
  <2>4. QED
    BY <2>3
<1>5. QED
  BY <1>3, <1>4
----------------------------------------------------------------------------
(***************************************************************************)
(* The loops and the updates use their limiters as any caller does.        *)
(***************************************************************************)

\* The actions that have nothing to do with a limiter.
LEMMA LimiterLeftAlone ==
  ASSUME \/ ConfigChanges \/ Tick \/ TimerExpires \/ TimerNotifies
         \/ Caller \/ RelayQueues
         \/ \E g \in Generations :
              \/ ScheduleLoop(g)
              \/ UpdateLoopSelects(g) \/ UpdateLoopWakes(g) \/ UpdateLoopStops(g)
         \/ \E c \in Calls : RequestReturns(c) \/ UpdateInterval(c) \/ RemoveUpdated(c)
  PROVE  UNCHANGED limiterVars
<1>1. ASSUME NEW g \in Generations,
             \/ ScheduleLoop(g)
             \/ UpdateLoopSelects(g) \/ UpdateLoopWakes(g) \/ UpdateLoopStops(g)
      PROVE  UNCHANGED limiterVars
  BY <1>1 DEF ScheduleLoop, ScheduleLoopSelects, ScheduleLoopWakes, ScheduleLoopStops,
     RunScheduleLocks, RunScheduleEnds, RunScheduleEnqueues,
     UpdateLoopSelects, UpdateLoopWakes, UpdateLoopStops
<1>2. ASSUME NEW c \in Calls, RequestReturns(c) \/ UpdateInterval(c) \/ RemoveUpdated(c)
      PROVE  UNCHANGED limiterVars
  BY <1>2 DEF RequestReturns, UpdateInterval, RemoveUpdated
<1>3. ASSUME Caller
      PROVE  UNCHANGED limiterVars
  BY <1>3 DEF Caller, UpdateFromDiff, UpdateOnce, EnsureScheduled, PrioritiseUncloned
<1>4. ASSUME ConfigChanges \/ Tick \/ TimerExpires \/ TimerNotifies \/ RelayQueues
      PROVE  UNCHANGED limiterVars
  BY <1>4 DEF ConfigChanges, Tick, TimerExpires, TimerNotifies, RelayQueues
<1>5. QED
  BY <1>1, <1>2, <1>3, <1>4

LEMMA SchedulerUsesLimiter ==
  ASSUME LimiterInv, gen \in 0 .. MaxGenerations, [SchedulerNext]_schedulerVars
  PROVE  [LimiterNext]_limiterVars
<1>0. Generations = Limiters
  BY DEF Generations
<1>1. ASSUME RunScheduler
      PROVE  [LimiterNext]_limiterVars
  <2> DEFINE S == {c \in Calls : call[c].pc # "idle" /\ call[c].limiter = gen}
  <2>1. CancelAll(S) /\ UNCHANGED <<limit, cancelFuncs, acquire>> /\ S \in SUBSET Calls
    BY <1>1 DEF RunScheduler
  <2>2. QED
    BY <2>1, CancelIsStep
<1>2. ASSUME NEW g \in Generations, UpdateLoopAcquires(g)
      PROVE  LimiterNext
  <2> DEFINE c == CHOOSE x \in Calls : Free(x)
  <2>1. c \in Calls /\ Acquire(c, g, Stopped(g))
    BY <1>2 DEF UpdateLoopAcquires
  <2>2. Stopped(g) \in BOOLEAN
    BY DEF Stopped
  <2> HIDE DEF c
  <2>3. QED
    BY <1>0, <2>1, <2>2 DEF LimiterNext
<1>3. ASSUME NEW g \in Generations,
             LimiterGrants(g) \/ UpdateLoopGivesUp(g) \/ ConfiguredLimiter(g)
      PROVE  LimiterNext
  BY <1>0, <1>3 DEF LimiterGrants, UpdateLoopGivesUp, ConfiguredLimiter, LimiterNext
<1>4. ASSUME NEW g \in Generations, NEW c \in Calls, AcquireNext(g, c)
      PROVE  [LimiterNext]_limiterVars
  BY <1>4 DEF AcquireNext, LimiterNext
<1>5. ASSUME NEW c \in Calls, ReleaseSlot(c)
      PROVE  LimiterNext
  BY <1>5 DEF ReleaseSlot, LimiterNext
<1>6. CASE UNCHANGED schedulerVars
  BY <1>6 DEF schedulerVars
<1>7. CASE SchedulerNext
  <2>1. CASE \E g \in Generations : UpdateLoop(g)
    BY <2>1, <1>2, <1>3, <1>4, LimiterLeftAlone DEF UpdateLoop
  <2>2. CASE \E g \in Generations : ScheduleLoop(g)
    BY <2>2, LimiterLeftAlone
  <2>3. CASE \E c \in Calls : UpdateRoutine(c)
    BY <2>3, <1>5, LimiterLeftAlone DEF UpdateRoutine
  <2>4. CASE \/ ConfigChanges \/ Tick \/ TimerExpires \/ TimerNotifies
             \/ Caller \/ RelayQueues
    BY <2>4, LimiterLeftAlone
  <2>5. QED
    BY <1>7, <1>1, <1>3, <2>1, <2>2, <2>3, <2>4 DEF SchedulerNext
<1>8. QED
  BY <1>6, <1>7
----------------------------------------------------------------------------
(***************************************************************************)
(* The loops.                                                              *)
(***************************************************************************)
InScheduleLoop == {"off", "ended", "top", "waiting", "woken", "running"}
InUpdateLoop   == {"off", "ended", "top", "waiting", "next", "acquiring"}

LoopsInv ==
  /\ auto \in BOOLEAN /\ have \in BOOLEAN /\ gen \in 0 .. MaxGenerations
  /\ scheduleLoop \in [Generations -> [pc : InScheduleLoop, ch : Nat]]
  /\ updateLoop \in [Generations -> [pc : InUpdateLoop, ch : Nat]]
  /\ FutureOff

LEMMA LoopsKept ==
  ASSUME LoopsInv, wakeup \in Channel, notifyEnqueue \in Channel,
         [SchedulerNext]_schedulerVars
  PROVE  LoopsInv'
<1> DEFINE SL == [Generations -> [pc : InScheduleLoop, ch : Nat]]
           UL == [Generations -> [pc : InUpdateLoop, ch : Nat]]
<1>t. /\ auto \in BOOLEAN /\ have \in BOOLEAN /\ gen \in 0 .. MaxGenerations
      /\ scheduleLoop \in SL /\ updateLoop \in UL
  BY DEF LoopsInv
<1>c. wakeup.ch \in Nat /\ notifyEnqueue.ch \in Nat
  BY DEF Channel
<1>f. \A g \in Generations : g > gen => scheduleLoop[g].pc = "off" /\ updateLoop[g].pc = "off"
  BY DEF LoopsInv, FutureOff
<1>1. CASE UNCHANGED loopVars
  BY <1>1, <1>t, <1>f DEF loopVars, LoopsInv, FutureOff
<1>2. CASE ConfigChanges
  BY <1>2, <1>t, <1>f DEF ConfigChanges, LoopsInv, FutureOff
<1>3. CASE RunScheduler
  <2>1. /\ gen' = gen + 1 /\ gen < MaxGenerations /\ have' = auto /\ auto' = auto
        /\ updateLoop' = [updateLoop EXCEPT ![gen + 1] = LoopStart]
        /\ \/ scheduleLoop' = [scheduleLoop EXCEPT ![gen + 1] = LoopStart]
           \/ scheduleLoop' = scheduleLoop
    BY <1>3 DEF RunScheduler
  <2>2. gen + 1 \in Generations /\ gen' \in 0 .. MaxGenerations
    BY <1>t, <2>1 DEF Generations
  <2>3. LoopStart \in [pc : InScheduleLoop, ch : Nat] /\ LoopStart \in [pc : InUpdateLoop, ch : Nat]
    BY DEF LoopStart, InScheduleLoop, InUpdateLoop
  <2>4. scheduleLoop' \in SL /\ updateLoop' \in UL
    BY <1>t, <2>1, <2>2, <2>3
  <2>5. \A g \in Generations \ {gen + 1} :
          scheduleLoop'[g] = scheduleLoop[g] /\ updateLoop'[g] = updateLoop[g]
    BY <1>t, <2>1
  <2>6. \A g \in Generations : g > gen + 1 => g # gen + 1 /\ g > gen
    BY <1>t DEF Generations
  <2>7. FutureOff'
    BY <1>f, <2>1, <2>5, <2>6 DEF FutureOff
  <2>8. QED
    BY <1>t, <2>1, <2>2, <2>4, <2>7 DEF LoopsInv
<1>4. ASSUME NEW g \in Generations, UNCHANGED <<auto, have, gen, updateLoop>>,
             scheduleLoop[g].pc # "off",
             \/ \E p \in InScheduleLoop : scheduleLoop' = [scheduleLoop EXCEPT ![g].pc = p]
             \/ \E l \in [pc : InScheduleLoop, ch : Nat] :
                  scheduleLoop' = [scheduleLoop EXCEPT ![g] = l]
      PROVE  LoopsInv'
  <2>1. /\ scheduleLoop' \in SL
        /\ \A h \in Generations \ {g} : scheduleLoop'[h] = scheduleLoop[h]
    BY <1>4, <1>t
  <2>2. ~(g > gen)
    BY <1>4, <1>f
  <2>3. FutureOff'
    BY <1>4, <1>f, <2>1, <2>2 DEF FutureOff
  <2>4. QED
    BY <1>4, <1>t, <2>1, <2>3 DEF LoopsInv
<1>5. ASSUME NEW g \in Generations, UNCHANGED <<auto, have, gen, scheduleLoop>>,
             updateLoop[g].pc # "off",
             \/ \E p \in InUpdateLoop : updateLoop' = [updateLoop EXCEPT ![g].pc = p]
             \/ \E l \in [pc : InUpdateLoop, ch : Nat] :
                  updateLoop' = [updateLoop EXCEPT ![g] = l]
      PROVE  LoopsInv'
  <2>1. /\ updateLoop' \in UL
        /\ \A h \in Generations \ {g} : updateLoop'[h] = updateLoop[h]
    BY <1>5, <1>t
  <2>2. ~(g > gen)
    BY <1>5, <1>f
  <2>3. FutureOff'
    BY <1>5, <1>f, <2>1, <2>2 DEF FutureOff
  <2>4. QED
    BY <1>5, <1>t, <2>1, <2>3 DEF LoopsInv
<1>6. ASSUME NEW g \in Generations, ScheduleLoop(g)
      PROVE  LoopsInv'
  <2>1. CASE ScheduleLoopSelects(g)
    <3>1. [pc |-> "waiting", ch |-> wakeup.ch] \in [pc : InScheduleLoop, ch : Nat]
      BY <1>c DEF InScheduleLoop
    <3>2. QED
      BY <2>1, <3>1, <1>4 DEF ScheduleLoopSelects, LoopWaits
  <2>2. CASE ScheduleLoopWakes(g) \/ ScheduleLoopStops(g)
    <3>1. /\ [pc |-> "woken", ch |-> 0] \in [pc : InScheduleLoop, ch : Nat]
          /\ LoopEnded \in [pc : InScheduleLoop, ch : Nat]
      BY DEF LoopEnded, InScheduleLoop
    <3>2. QED
      BY <2>2, <3>1, <1>4 DEF ScheduleLoopWakes, ScheduleLoopStops
  <2>3. CASE RunScheduleLocks(g) \/ RunScheduleEnds(g)
    BY <2>3, <1>4 DEF RunScheduleLocks, RunScheduleEnds, InScheduleLoop
  <2>4. CASE \E r \in Repos : RunScheduleEnqueues(g, r)
    BY <2>4, <1>1 DEF RunScheduleEnqueues
  <2>5. QED
    BY <1>6, <2>1, <2>2, <2>3, <2>4 DEF ScheduleLoop
<1>7. ASSUME NEW g \in Generations, UpdateLoop(g)
      PROVE  LoopsInv'
  <2>1. CASE UpdateLoopSelects(g)
    <3>1. [pc |-> "waiting", ch |-> notifyEnqueue.ch] \in [pc : InUpdateLoop, ch : Nat]
      BY <1>c DEF InUpdateLoop
    <3>2. QED
      BY <2>1, <3>1, <1>5 DEF UpdateLoopSelects, LoopWaits
  <2>2. CASE UpdateLoopWakes(g) \/ UpdateLoopStops(g)
    <3>1. /\ [pc |-> "next", ch |-> 0] \in [pc : InUpdateLoop, ch : Nat]
          /\ LoopEnded \in [pc : InUpdateLoop, ch : Nat]
      BY DEF LoopEnded, InUpdateLoop
    <3>2. QED
      BY <2>2, <3>1, <1>5 DEF UpdateLoopWakes, UpdateLoopStops
  <2>3. CASE UpdateLoopAcquires(g) \/ UpdateLoopGivesUp(g)
    BY <2>3, <1>5 DEF UpdateLoopAcquires, UpdateLoopGivesUp, InUpdateLoop
  <2>4. CASE LimiterGrants(g)
    BY <2>4, <1>1 DEF LimiterGrants
  <2>5. CASE \E c \in Calls : AcquireNext(g, c)
    BY <2>5, <1>5 DEF AcquireNext, InUpdateLoop
  <2>6. QED
    BY <1>7, <2>1, <2>2, <2>3, <2>4, <2>5 DEF UpdateLoop
<1>8. ASSUME \/ \E g \in Generations : ConfiguredLimiter(g)
             \/ \E c \in Calls : UpdateRoutine(c)
             \/ Tick \/ TimerExpires \/ TimerNotifies \/ Caller \/ RelayQueues
             \/ UNCHANGED schedulerVars
      PROVE  UNCHANGED loopVars
  <2>1. ASSUME NEW g \in Generations, ConfiguredLimiter(g)
        PROVE  UNCHANGED loopVars
    BY <2>1 DEF ConfiguredLimiter
  <2>2. ASSUME NEW c \in Calls, UpdateRoutine(c)
        PROVE  UNCHANGED loopVars
    BY <2>2 DEF UpdateRoutine, RequestReturns, UpdateInterval, RemoveUpdated, ReleaseSlot
  <2>3. ASSUME Caller
        PROVE  UNCHANGED loopVars
    BY <2>3 DEF Caller, UpdateFromDiff, UpdateOnce, EnsureScheduled, PrioritiseUncloned
  <2>4. ASSUME Tick \/ TimerExpires \/ TimerNotifies \/ RelayQueues \/ UNCHANGED schedulerVars
        PROVE  UNCHANGED loopVars
    BY <2>4 DEF Tick, TimerExpires, TimerNotifies, RelayQueues, schedulerVars
  <2>5. QED
    BY <1>8, <2>1, <2>2, <2>3, <2>4
<1>9. QED
  BY <1>1, <1>2, <1>3, <1>6, <1>7, <1>8 DEF SchedulerNext
----------------------------------------------------------------------------
(***************************************************************************)
(* The channels of the loops, of either kind.  A channel has been replaced *)
(* once by each loop that has ended; those are older than the latest one,  *)
(* n; and no loop waits on a channel that is yet to come.                  *)
(***************************************************************************)
EndedLoops(loop) == {g \in Generations : loop[g].pc = "ended"}

ChannelInv(loop, channel, n) ==
  /\ channel.ch = Cardinality(EndedLoops(loop))
  /\ \A g \in Generations : loop[g].pc = "ended" => g < n
  /\ \A g \in Generations : loop[g].pc = "waiting" => loop[g].ch <= channel.ch

LEMMA FiniteLoops ==
  ASSUME NEW S \in SUBSET Generations
  PROVE  IsFiniteSet(S) /\ Cardinality(S) \in Nat
<1>1. IsFiniteSet(Generations)
  BY FS_Interval DEF Generations
<1>2. IsFiniteSet(S)
  BY <1>1, FS_Subset
<1>3. QED
  BY <1>2, FS_CardinalityType

\* A step in which no loop ends; a loop that begins to wait takes the channel
\* of the field.
LEMMA NoLoopEnds ==
  ASSUME NEW loop, NEW loop1, NEW channel, NEW channel1, NEW n \in Int, NEW n1 \in Int,
         ChannelInv(loop, channel, n), n <= n1, channel1.ch = channel.ch,
         \A g \in Generations :
           /\ loop1[g].pc = "ended" <=> loop[g].pc = "ended"
           /\ loop1[g].pc = "waiting" =>
                loop1[g].ch = channel.ch \/ (loop[g].pc = "waiting" /\ loop1[g].ch = loop[g].ch)
  PROVE  ChannelInv(loop1, channel1, n1)
<1>1. EndedLoops(loop1) = EndedLoops(loop)
  BY DEF EndedLoops
<1>2. channel1.ch = Cardinality(EndedLoops(loop1)) /\ channel.ch \in Nat
  BY <1>1, FiniteLoops DEF ChannelInv, EndedLoops
<1>3. \A g \in Generations : loop1[g].pc = "ended" => g < n1
  BY DEF ChannelInv, Generations
<1>4. \A g \in Generations : loop1[g].pc = "waiting" => loop1[g].ch <= channel1.ch
  BY <1>2 DEF ChannelInv
<1>5. QED
  BY <1>2, <1>3, <1>4 DEF ChannelInv

\* An older loop resets its data, replaces the channel and ends.
LEMMA LoopEnds ==
  ASSUME NEW P, NEW loop \in Loops(P), NEW loop1, NEW channel, NEW channel1, NEW n \in Int,
         NEW g \in Generations, ChannelInv(loop, channel, n), loop[g].pc # "ended", g < n,
         loop1 = [loop EXCEPT ![g] = LoopEnded], channel1.ch = channel.ch + 1
  PROVE  ChannelInv(loop1, channel1, n)
<1>1. /\ loop1[g].pc = "ended"
      /\ \A h \in Generations : h # g => loop1[h] = loop[h]
  BY DEF LoopEnded, Loops
<1>2. EndedLoops(loop1) = EndedLoops(loop) \cup {g} /\ g \notin EndedLoops(loop)
  BY <1>1 DEF EndedLoops
<1>3. IsFiniteSet(EndedLoops(loop)) /\ Cardinality(EndedLoops(loop)) \in Nat
  BY FiniteLoops DEF EndedLoops
<1>4. Cardinality(EndedLoops(loop1)) = Cardinality(EndedLoops(loop)) + 1
  BY <1>2, <1>3, FS_AddElement
<1>5. \A h \in Generations : loop1[h].pc = "waiting" => loop1[h].ch <= channel1.ch
  <2>1. \A h \in Generations : loop1[h].pc = "waiting" =>
          h # g /\ loop[h].ch \in Nat /\ loop1[h].ch = loop[h].ch /\ loop[h].ch <= channel.ch
    BY <1>1 DEF ChannelInv, Loops
  <2>2. channel.ch \in Nat /\ channel1.ch = channel.ch + 1
    BY <1>3 DEF ChannelInv
  <2>3. QED
    BY <2>1, <2>2
<1>6. QED
  BY <1>1, <1>4, <1>5 DEF ChannelInv

\* The latest loop is overtaken if it does not wait on the latest channel:
\* at least as many older loops were started as have replaced it.
LEMMA WaitsOnLatest ==
  ASSUME NEW P, NEW loop \in Loops(P), NEW channel,
         gen \in 0 .. MaxGenerations, ChannelInv(loop, channel, gen)
  PROVE  CanWake(loop, channel)
<1> SUFFICES ASSUME gen > 0, loop[gen].pc = "waiting", ~Overtaken(loop, gen)
             PROVE  loop[gen].ch = channel.ch
  BY DEF CanWake
<1> DEFINE older == {h \in Generations : h < gen /\ loop[h].pc # "off"}
<1>1. gen \in Generations /\ loop[gen].ch \in Nat
  BY DEF Generations, Loops
<1>2. EndedLoops(loop) \in SUBSET older
  BY DEF EndedLoops, ChannelInv
<1>3. IsFiniteSet(older) /\ Cardinality(older) \in Nat /\ Cardinality(EndedLoops(loop)) \in Nat
  <2>1. older \in SUBSET Generations /\ EndedLoops(loop) \in SUBSET Generations
    BY DEF EndedLoops
  <2> HIDE DEF older
  <2>2. QED
    BY <2>1, FiniteLoops
<1>4. loop[gen].ch >= Cardinality(older)
  BY <1>1, <1>3 DEF Overtaken
<1>5. Cardinality(EndedLoops(loop)) <= Cardinality(older)
  <2> HIDE DEF older
  <2>1. QED
    BY <1>2, <1>3, FS_Subset
<1>6. loop[gen].ch <= channel.ch /\ channel.ch = Cardinality(EndedLoops(loop))
  BY <1>1 DEF ChannelInv
<1> HIDE DEF older
<1>7. QED
  BY <1>1, <1>3, <1>4, <1>5, <1>6

ChannelsInv ==
  ChannelInv(scheduleLoop, wakeup, gen) /\ ChannelInv(updateLoop, notifyEnqueue, gen)

LEMMA ChannelsKept ==
  ASSUME ChannelsInv, LoopsInv, LoopsInv', wakeup \in Channel, notifyEnqueue \in Channel,
         [SchedulerNext]_schedulerVars
  PROVE  ChannelsInv'
<1>t. /\ gen \in 0 .. MaxGenerations /\ gen' \in 0 .. MaxGenerations
      /\ gen \in Int /\ gen' \in Int
      /\ scheduleLoop \in Loops(InScheduleLoop) /\ updateLoop \in Loops(InUpdateLoop)
      /\ ChannelInv(scheduleLoop, wakeup, gen) /\ ChannelInv(updateLoop, notifyEnqueue, gen)
  BY DEF LoopsInv, Loops, ChannelsInv
<1>n. \A channel \in Channel : /\ notify(channel).ch = channel.ch
                               /\ \A c : Receive(channel, c).ch = channel.ch
                               /\ \A loop : Replace(channel, loop).ch = channel.ch + 1
  BY DEF Channel, notify, Receive, Replace
<1>w. ChannelsInv' <=> /\ ChannelInv(scheduleLoop', wakeup', gen')
                       /\ ChannelInv(updateLoop', notifyEnqueue', gen')
  BY DEF ChannelsInv, ChannelInv, EndedLoops
\* What is left alone.
<1>s. ASSUME UNCHANGED scheduleLoop, wakeup'.ch = wakeup.ch, gen' >= gen
      PROVE  ChannelInv(scheduleLoop', wakeup', gen')
  BY <1>s, <1>t, NoLoopEnds
<1>u. ASSUME UNCHANGED updateLoop, notifyEnqueue'.ch = notifyEnqueue.ch, gen' >= gen
      PROVE  ChannelInv(updateLoop', notifyEnqueue', gen')
  BY <1>u, <1>t, NoLoopEnds
<1>q. ASSUME NEW r, NEW p, Enqueue(r, p)
      PROVE  notifyEnqueue'.ch = notifyEnqueue.ch
  BY <1>q, <1>n DEF Enqueue
<1>1. ASSUME UNCHANGED <<gen, scheduleLoop, updateLoop>>,
             wakeup'.ch = wakeup.ch, notifyEnqueue'.ch = notifyEnqueue.ch
      PROVE  ChannelsInv'
  BY <1>1, <1>t, <1>s, <1>u, <1>w
<1>2. CASE RunScheduler
  <2>1. /\ gen' = gen + 1 /\ gen + 1 \in Generations
        /\ UNCHANGED <<wakeup, notifyEnqueue>>
        /\ updateLoop' = [updateLoop EXCEPT ![gen + 1] = LoopStart]
        /\ \/ scheduleLoop' = [scheduleLoop EXCEPT ![gen + 1] = LoopStart]
           \/ scheduleLoop' = scheduleLoop
    BY <1>2, <1>t DEF RunScheduler, scheduleVars, queueVars, Generations
  <2>2. scheduleLoop[gen + 1].pc = "off" /\ updateLoop[gen + 1].pc = "off"
    BY <2>1, <1>t DEF LoopsInv, FutureOff
  <2>3. \A g \in Generations :
          /\ scheduleLoop'[g] = scheduleLoop[g]
             \/ (scheduleLoop[g].pc = "off" /\ scheduleLoop'[g].pc = "top")
          /\ updateLoop'[g] = updateLoop[g]
             \/ (updateLoop[g].pc = "off" /\ updateLoop'[g].pc = "top")
    BY <2>1, <2>2, <1>t DEF LoopStart, Loops
  <2>4. gen <= gen' /\ wakeup'.ch = wakeup.ch /\ notifyEnqueue'.ch = notifyEnqueue.ch
    BY <1>t, <2>1
  <2>5. ChannelInv(scheduleLoop', wakeup', gen')
    BY <1>t, <2>3, <2>4, NoLoopEnds
  <2>6. ChannelInv(updateLoop', notifyEnqueue', gen')
    BY <1>t, <2>3, <2>4, NoLoopEnds
  <2>7. QED
    BY <2>5, <2>6, <1>w
<1>3. ASSUME NEW g \in Generations, ScheduleLoop(g)
      PROVE  ChannelsInv'
  <2>1. gen' = gen /\ UNCHANGED updateLoop /\ notifyEnqueue'.ch = notifyEnqueue.ch
    BY <1>3, <1>q DEF ScheduleLoop, ScheduleLoopSelects, ScheduleLoopWakes, ScheduleLoopStops,
       RunScheduleLocks, RunScheduleEnds, RunScheduleEnqueues, queueVars, loopVars
  <2>2. CASE ScheduleLoopStops(g)
    <3>1. /\ scheduleLoop' = [scheduleLoop EXCEPT ![g] = LoopEnded]
          /\ scheduleLoop[g].pc # "ended" /\ g < gen
          /\ wakeup' = Replace(wakeup, scheduleLoop')
      BY <2>2 DEF ScheduleLoopStops, Stopped
    <3>2. wakeup'.ch = wakeup.ch + 1
      BY <3>1, <1>n
    <3>3. ChannelInv(scheduleLoop', wakeup', gen)
      BY <3>1, <3>2, <1>t, LoopEnds
    <3>4. QED
      BY <3>3, <2>1, <1>t, <1>u, <1>w
  <2>3. ASSUME wakeup'.ch = wakeup.ch, scheduleLoop[g].pc # "ended",
               \A h \in Generations : h # g => scheduleLoop'[h] = scheduleLoop[h],
               \/ scheduleLoop'[g].pc \notin {"ended", "waiting"}
               \/ scheduleLoop'[g].pc = "waiting" /\ scheduleLoop'[g].ch = wakeup.ch
        PROVE  ChannelsInv'
    <3>1. ChannelInv(scheduleLoop', wakeup', gen')
      BY <2>3, <2>1, <1>t, NoLoopEnds
    <3>2. QED
      BY <3>1, <2>1, <1>t, <1>u, <1>w
  <2>4. CASE ScheduleLoopSelects(g)
    BY <2>4, <2>3, <1>t DEF ScheduleLoopSelects, LoopWaits, Loops, scheduleVars
  <2>5. CASE ScheduleLoopWakes(g)
    BY <2>5, <2>3, <1>t, <1>n DEF ScheduleLoopWakes, Loops
  <2>6. CASE RunScheduleLocks(g) \/ RunScheduleEnds(g)
    BY <2>6, <2>3, <1>t DEF RunScheduleLocks, RunScheduleEnds, Loops, scheduleVars
  <2>7. CASE \E r \in Repos : RunScheduleEnqueues(g, r)
    BY <2>7, <2>1, <1>1 DEF RunScheduleEnqueues, loopVars
  <2>8. QED
    BY <1>3, <2>2, <2>4, <2>5, <2>6, <2>7 DEF ScheduleLoop
<1>4. ASSUME NEW g \in Generations, UpdateLoop(g)
      PROVE  ChannelsInv'
  <2>1. UNCHANGED <<gen, scheduleLoop, wakeup>>
    BY <1>4 DEF UpdateLoop, UpdateLoopSelects, UpdateLoopWakes, UpdateLoopStops,
       UpdateLoopAcquires, LimiterGrants, UpdateLoopGivesUp, AcquireNext, scheduleVars, loopVars
  <2>2. CASE UpdateLoopStops(g)
    <3>1. /\ updateLoop' = [updateLoop EXCEPT ![g] = LoopEnded]
          /\ updateLoop[g].pc # "ended" /\ g < gen
          /\ notifyEnqueue' = Replace(notifyEnqueue, updateLoop')
      BY <2>2 DEF UpdateLoopStops, Stopped
    <3>2. notifyEnqueue'.ch = notifyEnqueue.ch + 1
      BY <3>1, <1>n
    <3>3. ChannelInv(updateLoop', notifyEnqueue', gen)
      BY <3>1, <3>2, <1>t, LoopEnds
    <3>4. QED
      BY <3>3, <2>1, <1>t, <1>s, <1>w
  <2>3. ASSUME notifyEnqueue'.ch = notifyEnqueue.ch, updateLoop[g].pc # "ended",
               \A h \in Generations : h # g => updateLoop'[h] = updateLoop[h],
               \/ updateLoop'[g].pc \notin {"ended", "waiting"}
               \/ updateLoop'[g].pc = "waiting" /\ updateLoop'[g].ch = notifyEnqueue.ch
        PROVE  ChannelsInv'
    <3>1. ChannelInv(updateLoop', notifyEnqueue', gen')
      BY <2>3, <2>1, <1>t, NoLoopEnds
    <3>2. QED
      BY <3>1, <2>1, <1>t, <1>s, <1>w
  <2>4. CASE UpdateLoopSelects(g)
    BY <2>4, <2>3, <1>t DEF UpdateLoopSelects, LoopWaits, Loops, queueVars
  <2>5. CASE UpdateLoopWakes(g)
    BY <2>5, <2>3, <1>t, <1>n DEF UpdateLoopWakes, Loops
  <2>6. CASE UpdateLoopAcquires(g) \/ UpdateLoopGivesUp(g)
    BY <2>6, <2>3, <1>t DEF UpdateLoopAcquires, UpdateLoopGivesUp, Loops, queueVars
  <2>7. CASE \E c \in Calls : AcquireNext(g, c)
    BY <2>7, <2>3, <1>t DEF AcquireNext, Loops
  <2>8. CASE LimiterGrants(g)
    BY <2>8, <1>1 DEF LimiterGrants, loopVars, scheduleVars, queueVars
  <2>9. QED
    BY <1>4, <2>2, <2>4, <2>5, <2>6, <2>7, <2>8 DEF UpdateLoop
<1>5. ASSUME NEW c \in Calls, UpdateRoutine(c)
      PROVE  ChannelsInv'
  BY <1>5, <1>1 DEF UpdateRoutine, RequestReturns, UpdateInterval, RemoveUpdated, ReleaseSlot,
     loopVars, scheduleVars, queueVars
<1>6. CASE Caller
  <2>1. UNCHANGED loopVars /\ UNCHANGED wakeup
    BY <1>6 DEF Caller, UpdateFromDiff, UpdateOnce, EnsureScheduled, PrioritiseUncloned,
       SetSchedule, RemoveScheduled, scheduleVars
  <2>2. notifyEnqueue'.ch = notifyEnqueue.ch
    BY <1>6, <1>q DEF Caller, UpdateFromDiff, UpdateOnce, EnsureScheduled, PrioritiseUncloned,
       queueVars
  <2>3. QED
    BY <2>1, <2>2, <1>1 DEF loopVars
<1>7. CASE RelayQueues
  BY <1>7, <1>1, <1>q DEF RelayQueues, loopVars, scheduleVars
<1>8. CASE TimerNotifies
  BY <1>8, <1>1, <1>n DEF TimerNotifies, loopVars, queueVars
<1>9. CASE \/ ConfigChanges \/ Tick \/ TimerExpires
           \/ \E g \in Generations : ConfiguredLimiter(g)
           \/ UNCHANGED schedulerVars
  BY <1>9, <1>1 DEF ConfigChanges, Tick, TimerExpires, ConfiguredLimiter,
     schedulerVars, loopVars, scheduleVars, queueVars
<1>10. QED
  BY <1>2, <1>3, <1>4, <1>5, <1>6, <1>7, <1>8, <1>9 DEF SchedulerNext
----------------------------------------------------------------------------
(***************************************************************************)
(* The schedule.                                                           *)
(***************************************************************************)

\* The repositories of a schedule have bounded intervals.
Sound(s) ==
  /\ DOMAIN s \subseteq Repos
  /\ \A r \in DOMAIN s :
       /\ s[r] \in [interval : Nat, due : Nat]
       /\ Bounded(s[r].interval) /\ s[r].due <= s[r].interval

LEMMA SoundIsBounded ==
  ASSUME DOMAIN schedule \subseteq Repos,
         \A r \in DOMAIN schedule : schedule[r] \in [interval : Nat, due : Nat]
  PROVE  Sound(schedule) <=> IntervalsBounded
BY DEF Sound, IntervalsBounded, Bounded

LEMMA NewEntrySound ==
  /\ NewEntry \in [interval : Nat, due : Nat] /\ NewEntry.due = MinDelay
  /\ Bounded(NewEntry.interval) /\ NewEntry.due <= NewEntry.interval
BY JitterBounded DEF NewEntry

\* upsert and EnsureScheduled.
LEMMA WithNewSound ==
  ASSUME Sound(schedule), NEW S, S \subseteq Repos
  PROVE  /\ Sound(WithNew(S)) /\ DOMAIN WithNew(S) = DOMAIN schedule \cup S
         /\ \A r \in DOMAIN schedule : WithNew(S)[r] = schedule[r]
         /\ \A r \in S \ DOMAIN schedule : WithNew(S)[r] = NewEntry
<1>1. /\ DOMAIN WithNew(S) = DOMAIN schedule \cup S
      /\ \A r \in DOMAIN schedule : WithNew(S)[r] = schedule[r]
      /\ \A r \in S \ DOMAIN schedule : WithNew(S)[r] = NewEntry
  BY DEF WithNew
<1>2. \A r \in DOMAIN WithNew(S) : r \in DOMAIN schedule \/ r \in S \ DOMAIN schedule
  BY <1>1
<1>3. Sound(WithNew(S))
  BY <1>1, <1>2, NewEntrySound DEF Sound
<1>4. QED
  BY <1>1, <1>3

\* PrioritiseUncloned: the schedule that it sets.
Prioritised(S) ==
  [r \in DOMAIN schedule \cup S |->
     IF r \in S /\ WithNew(S)[r].due > MinDelay
     THEN [schedule[r] EXCEPT !.due = MinDelay] ELSE WithNew(S)[r]]

LEMMA PrioritisedSound ==
  ASSUME Sound(schedule), NEW S, S \subseteq Repos
  PROVE  Sound(Prioritised(S))
<1> DEFINE s == Prioritised(S)
<1>1. /\ DOMAIN s = DOMAIN schedule \cup S
      /\ \A r \in DOMAIN s : s[r] = IF r \in S /\ WithNew(S)[r].due > MinDelay
                                    THEN [schedule[r] EXCEPT !.due = MinDelay]
                                    ELSE WithNew(S)[r]
  BY DEF Prioritised
<1> HIDE DEF s
<1>2. /\ Sound(WithNew(S)) /\ DOMAIN WithNew(S) = DOMAIN schedule \cup S
      /\ \A r \in DOMAIN schedule : WithNew(S)[r] = schedule[r]
      /\ \A r \in S \ DOMAIN schedule : WithNew(S)[r].due = MinDelay
  BY WithNewSound, NewEntrySound
<1>3. ASSUME NEW r \in DOMAIN s
      PROVE  /\ s[r] \in [interval : Nat, due : Nat]
             /\ Bounded(s[r].interval) /\ s[r].due <= s[r].interval
  <2>1. CASE ~(r \in S /\ WithNew(S)[r].due > MinDelay)
    BY <1>1, <1>2, <2>1 DEF Sound
  <2>2. CASE r \in S /\ WithNew(S)[r].due > MinDelay
    <3>1. r \in DOMAIN schedule /\ schedule[r].due > MinDelay
      BY <1>2, <2>2
    <3>2. /\ schedule[r] \in [interval : Nat, due : Nat]
          /\ Bounded(schedule[r].interval) /\ schedule[r].due <= schedule[r].interval
      BY <3>1 DEF Sound
    <3>3. s[r] = [schedule[r] EXCEPT !.due = MinDelay]
      BY <1>1, <2>2
    <3>4. /\ s[r] \in [interval : Nat, due : Nat]
          /\ s[r].interval = schedule[r].interval /\ s[r].due = MinDelay
      BY <3>2, <3>3
    <3>5. QED
      BY <3>1, <3>2, <3>4
  <2>3. QED
    BY <2>1, <2>2
<1>4. QED
  BY <1>1, <1>3 DEF Sound, s

\* The steps that change the schedule.
LEMMA ScheduleSound ==
  ASSUME Sound(schedule), [SchedulerNext]_schedulerVars,
         \A c \in Calls : update[c].interval \in Int
  PROVE  Sound(schedule')
<1>0. CASE UNCHANGED schedule
  BY <1>0
<1>1. ASSUME NEW S, S \subseteq Repos, SetSchedule(WithNew(S)) \/ SetSchedule(Prioritised(S))
      PROVE  Sound(schedule')
  BY <1>1, WithNewSound, PrioritisedSound DEF SetSchedule
<1>2. ASSUME NEW r, RemoveScheduled(r)
      PROVE  Sound(schedule')
  <2>1. schedule' = [q \in DOMAIN schedule \ {r} |-> schedule[q]]
    BY <1>2 DEF RemoveScheduled
  <2>2. DOMAIN schedule' \subseteq DOMAIN schedule /\ \A q \in DOMAIN schedule' : schedule'[q] = schedule[q]
    BY <2>1
  <2>3. QED
    BY <2>2 DEF Sound
<1>3. ASSUME NEW g \in Generations, NEW r, RunScheduleEnqueues(g, r)
      PROVE  Sound(schedule')
  <2>1. /\ r \in DOMAIN schedule
        /\ schedule' = [schedule EXCEPT ![r].due = schedule[r].interval]
    BY <1>3 DEF RunScheduleEnqueues
  <2>2. schedule[r] \in [interval : Nat, due : Nat] /\ Bounded(schedule[r].interval)
    BY <2>1 DEF Sound
  <2>3. /\ DOMAIN schedule' = DOMAIN schedule
        /\ \A q \in DOMAIN schedule : q # r => schedule'[q] = schedule[q]
        /\ schedule'[r] = [schedule[r] EXCEPT !.due = schedule[r].interval]
    BY <2>1
  <2>4. /\ schedule'[r] \in [interval : Nat, due : Nat]
        /\ schedule'[r].due = schedule[r].interval /\ schedule'[r].interval = schedule[r].interval
    BY <2>2, <2>3
  <2>5. QED
    BY <2>2, <2>3, <2>4 DEF Sound
<1>4. ASSUME schedule' = << >>
      PROVE  Sound(schedule')
  BY <1>4 DEF Sound
<1>5. ASSUME Tick
      PROVE  Sound(schedule')
  <2>1. schedule' = [r \in DOMAIN schedule |-> [schedule[r] EXCEPT !.due = Earlier(@)]]
    BY <1>5 DEF Tick
  <2>2. DOMAIN schedule' = DOMAIN schedule
    BY <2>1
  <2>3. ASSUME NEW r \in DOMAIN schedule
        PROVE  /\ schedule'[r] \in [interval : Nat, due : Nat]
               /\ Bounded(schedule'[r].interval) /\ schedule'[r].due <= schedule'[r].interval
    <3>1. /\ schedule[r] \in [interval : Nat, due : Nat]
          /\ Bounded(schedule[r].interval) /\ schedule[r].due <= schedule[r].interval
      BY DEF Sound
    <3>2. schedule'[r] = [schedule[r] EXCEPT !.due = Earlier(@)]
      BY <2>1
    <3>3. Earlier(schedule[r].due) \in Nat /\ Earlier(schedule[r].due) <= schedule[r].due
      BY <3>1 DEF Earlier
    <3>4. /\ schedule'[r] \in [interval : Nat, due : Nat]
          /\ schedule'[r].interval = schedule[r].interval
          /\ schedule'[r].due = Earlier(schedule[r].due)
      BY <3>1, <3>2, <3>3
    <3>5. QED
      BY <3>1, <3>3, <3>4
  <2>4. QED
    BY <2>2, <2>3 DEF Sound
<1>6. ASSUME NEW c \in Calls, UpdateInterval(c)
      PROVE  Sound(schedule')
  <2> DEFINE r == update[c].repo
  <2>1. CASE r \notin DOMAIN schedule
    BY <1>6, <2>1, <1>0 DEF UpdateInterval
  <2>2. CASE r \in DOMAIN schedule
    <3>1. PICK v \in Jittered(Clamp(update[c].interval)) :
            schedule' = [schedule EXCEPT ![r] = [interval |-> v, due |-> v]]
      BY <1>6, <2>2 DEF UpdateInterval
    <3>2. Bounded(v) /\ v \in Nat
      BY JitterBounded DEF Bounded
    <3>3. QED
      BY <2>2, <3>1, <3>2 DEF Sound
  <2>3. QED
    BY <2>1, <2>2
<1>7. ASSUME Caller
      PROVE  Sound(schedule')
  <2>1. ASSUME NEW r \in Synced, NEW part, UpdateFromDiff(r, part)
        PROVE  Sound(schedule')
    BY <2>1, <1>1, <1>2 DEF UpdateFromDiff
  <2>2. ASSUME NEW S \in SUBSET Uncloned \ {{}}, EnsureScheduled(S) \/ PrioritiseUncloned(S)
        PROVE  Sound(schedule')
    BY <2>2, <1>1 DEF EnsureScheduled, PrioritiseUncloned, Prioritised
  <2>3. ASSUME NEW r \in Manual, UpdateOnce(r)
        PROVE  Sound(schedule')
    BY <2>3, <1>0 DEF UpdateOnce, scheduleVars
  <2>4. QED
    BY <1>7, <2>1, <2>2, <2>3 DEF Caller
<1>8. ASSUME NEW g \in Generations, ScheduleLoop(g)
      PROVE  Sound(schedule')
  BY <1>8, <1>0, <1>3, <1>4 DEF ScheduleLoop, ScheduleLoopSelects, ScheduleLoopWakes,
     ScheduleLoopStops, RunScheduleLocks, RunScheduleEnds, scheduleVars
<1>9. ASSUME NEW g \in Generations, UpdateLoop(g) \/ ConfiguredLimiter(g)
      PROVE  UNCHANGED schedule
  BY <1>9 DEF UpdateLoop, ConfiguredLimiter, UpdateLoopSelects, UpdateLoopWakes, UpdateLoopStops,
     UpdateLoopAcquires, LimiterGrants, UpdateLoopGivesUp, AcquireNext, scheduleVars
<1>10. ASSUME NEW c \in Calls, UpdateRoutine(c)
       PROVE  Sound(schedule')
  BY <1>10, <1>0, <1>6 DEF UpdateRoutine, RequestReturns, RemoveUpdated, ReleaseSlot, scheduleVars
<1>11. ASSUME \/ ConfigChanges \/ RunScheduler \/ TimerExpires \/ TimerNotifies \/ RelayQueues
              \/ UNCHANGED schedulerVars
       PROVE  UNCHANGED schedule
  BY <1>11 DEF ConfigChanges, RunScheduler, TimerExpires, TimerNotifies, RelayQueues,
     schedulerVars, scheduleVars
<1>12. QED
  BY <1>0, <1>5, <1>7, <1>8, <1>9, <1>10, <1>11 DEF SchedulerNext

(***************************************************************************)
(* The timer.                                                              *)
(***************************************************************************)
TimerInv ==
  /\ timer \in Nat \cup {NoTimer} /\ firing \in BOOLEAN /\ wakeup \in Channel
  /\ Awake

\* rescheduleTimer keeps the schedule awake.
LEMMA TimerSet ==
  ASSUME Sound(schedule'), timer' = TimerFor(schedule'),
         firing' \in BOOLEAN, wakeup' \in Channel
  PROVE  TimerInv'
<1>1. \A r \in DOMAIN schedule' : schedule'[r].due \in Nat
  BY DEF Sound
<1>2. /\ timer' \in Nat \cup {NoTimer}
      /\ DOMAIN schedule' # {} =>
           timer' # NoTimer /\ \A r \in DOMAIN schedule' : timer' <= schedule'[r].due
  BY <1>1, TimerIsEarliest
<1>3. QED
  BY <1>2 DEF TimerInv, Awake, NoTimer

LEMMA TimerKept ==
  ASSUME TimerInv, LoopsInv, Sound(schedule), Sound(schedule'), [SchedulerNext]_schedulerVars
  PROVE  TimerInv'
<1>t. timer \in Nat \cup {NoTimer} /\ firing \in BOOLEAN /\ wakeup \in Channel
  BY DEF TimerInv
<1>c. /\ wakeup.ch \in Nat /\ wakeup.full \subseteq Nat
      /\ notify(wakeup) \in Channel /\ notify(wakeup).ch \in notify(wakeup).full
      /\ Replace(wakeup, scheduleLoop') \in Channel
      /\ \A n : Receive(wakeup, n) \in Channel
  BY <1>t DEF Channel, notify, Replace, Receive
<1>l. scheduleLoop \in [Generations -> [pc : InScheduleLoop, ch : Nat]]
  BY DEF LoopsInv
<1>0. ASSUME UNCHANGED <<schedule, timer, firing, wakeup>>,
             \A g \in Generations :
               scheduleLoop[g].pc \in {"woken", "running"}
                 => scheduleLoop'[g].pc \in {"woken", "running"}
      PROVE  TimerInv'
  BY <1>0 DEF TimerInv, Awake, NoTimer
<1>1. ASSUME UNCHANGED <<schedule, timer, firing, wakeup, scheduleLoop>>
      PROVE  TimerInv'
  BY <1>1, <1>0
<1>2. ASSUME NEW s, SetSchedule(s), UNCHANGED scheduleLoop
      PROVE  TimerInv'
  BY <1>2, <1>1, <1>t, TimerSet DEF SetSchedule
<1>3. ASSUME NEW r, RemoveScheduled(r), UNCHANGED scheduleLoop
      PROVE  TimerInv'
  <2>1. CASE timer' = TimerFor(schedule')
    BY <1>3, <2>1, <1>t, TimerSet DEF RemoveScheduled
  <2>2. CASE UNCHANGED timer
    <3>1. schedule' = [q \in DOMAIN schedule \ {r} |-> schedule[q]] /\ UNCHANGED <<firing, wakeup>>
      BY <1>3 DEF RemoveScheduled
    <3>2. /\ DOMAIN schedule' \subseteq DOMAIN schedule
          /\ \A q \in DOMAIN schedule' : schedule'[q] = schedule[q]
      BY <3>1
    <3>3. QED
      BY <1>3, <2>2, <3>1, <3>2 DEF TimerInv, Awake, NoTimer
  <2>3. QED
    BY <1>3, <2>1, <2>2 DEF RemoveScheduled
<1>4. ASSUME NEW g \in Generations, ScheduleLoop(g)
      PROVE  TimerInv'
  <2>1. CASE ScheduleLoopSelects(g)
    BY <2>1, <1>0, <1>l DEF ScheduleLoopSelects, scheduleVars
  <2>2. CASE ScheduleLoopWakes(g)
    <3>1. scheduleLoop'[g].pc = "woken" /\ wakeup' \in Channel /\ UNCHANGED <<timer, firing>>
      BY <2>2, <1>l, <1>c DEF ScheduleLoopWakes
    <3>2. QED
      BY <3>1, <1>t DEF TimerInv, Awake, NoTimer
  <2>3. CASE RunScheduleLocks(g)
    BY <2>3, <1>0, <1>l DEF RunScheduleLocks, scheduleVars
  <2>4. CASE \E r \in Repos : RunScheduleEnqueues(g, r)
    <3>1. scheduleLoop'[g].pc = "running" /\ UNCHANGED <<timer, firing, wakeup>>
      BY <2>4 DEF RunScheduleEnqueues, loopVars
    <3>2. QED
      BY <3>1, <1>t DEF TimerInv, Awake, NoTimer
  <2>5. CASE RunScheduleEnds(g)
    BY <2>5, <1>t, TimerSet DEF RunScheduleEnds
  <2>6. CASE ScheduleLoopStops(g)
    <3>1. schedule' = << >> /\ timer' = NoTimer /\ wakeup' \in Channel /\ UNCHANGED firing
      BY <2>6, <1>c DEF ScheduleLoopStops
    <3>2. DOMAIN schedule' = {}
      BY <3>1
    <3>3. QED
      BY <3>1, <3>2, <1>t DEF TimerInv, Awake, NoTimer
  <2>7. QED
    BY <1>4, <2>1, <2>2, <2>3, <2>4, <2>5, <2>6 DEF ScheduleLoop
<1>5. CASE Tick
  <2>1. /\ schedule' = [r \in DOMAIN schedule |-> [schedule[r] EXCEPT !.due = Earlier(@)]]
        /\ timer' = Earlier(timer) /\ UNCHANGED <<firing, wakeup, scheduleLoop>>
    BY <1>5 DEF Tick, loopVars
  <2>2. /\ DOMAIN schedule' = DOMAIN schedule
        /\ \A r \in DOMAIN schedule : /\ schedule[r].due \in Nat
                                      /\ schedule'[r].due = Earlier(schedule[r].due)
    BY <2>1 DEF Sound
  <2>3. /\ timer' \in Nat \cup {NoTimer}
        /\ timer # NoTimer => timer' # NoTimer
        /\ timer # NoTimer =>
             \A r \in DOMAIN schedule : timer <= schedule[r].due => timer' <= schedule'[r].due
    BY <1>t, <2>1, <2>2 DEF Earlier, NoTimer
  <2>4. (timer # NoTimer /\ \A r \in DOMAIN schedule : timer <= schedule[r].due)
        => (timer' # NoTimer /\ \A r \in DOMAIN schedule' : timer' <= schedule'[r].due)
    BY <2>2, <2>3
  <2>5. Awake'
    BY <2>1, <2>2, <2>4 DEF TimerInv, Awake
  <2>6. (timer \in Nat \cup {NoTimer} /\ firing \in BOOLEAN /\ wakeup \in Channel)'
    BY <1>t, <2>1, <2>3 DEF NoTimer
  <2>7. QED
    BY <2>5, <2>6 DEF TimerInv
<1>6. CASE TimerExpires
  <2>1. timer' = NoTimer /\ firing' = TRUE /\ UNCHANGED wakeup
    BY <1>6 DEF TimerExpires
  <2>2. QED
    BY <2>1, <1>t DEF TimerInv, Awake
<1>7. CASE TimerNotifies
  <2>1. firing' = FALSE /\ wakeup' = notify(wakeup) /\ UNCHANGED timer
    BY <1>7 DEF TimerNotifies
  <2>2. firing' \in BOOLEAN /\ wakeup' \in Channel /\ wakeup'.ch \in wakeup'.full
    BY <2>1, <1>c
  <2>3. QED
    BY <2>1, <2>2, <1>t DEF TimerInv, Awake
<1>8. ASSUME NEW c \in Calls, UpdateRoutine(c)
      PROVE  TimerInv'
  <2>1. CASE UpdateInterval(c)
    <3>1. UNCHANGED <<firing, wakeup, scheduleLoop>>
      BY <2>1 DEF UpdateInterval, loopVars
    <3>2. UNCHANGED <<schedule, timer>> \/ timer' = TimerFor(schedule')
      BY <2>1 DEF UpdateInterval
    <3>3. QED
      BY <3>1, <3>2, <1>1, <1>t, TimerSet
  <2>2. CASE RequestReturns(c) \/ RemoveUpdated(c) \/ ReleaseSlot(c)
    BY <2>2, <1>1 DEF RequestReturns, RemoveUpdated, ReleaseSlot, scheduleVars, loopVars
  <2>3. QED
    BY <1>8, <2>1, <2>2 DEF UpdateRoutine
<1>9. CASE Caller
  <2>1. UNCHANGED scheduleLoop
    BY <1>9 DEF Caller, UpdateFromDiff, UpdateOnce, EnsureScheduled, PrioritiseUncloned, loopVars
  <2>2. ASSUME NEW r \in Synced, NEW part, UpdateFromDiff(r, part)
        PROVE  TimerInv'
    BY <2>1, <2>2, <1>2, <1>3 DEF UpdateFromDiff
  <2>3. ASSUME NEW S \in SUBSET Uncloned \ {{}}, EnsureScheduled(S) \/ PrioritiseUncloned(S)
        PROVE  TimerInv'
    BY <2>1, <2>3, <1>2 DEF EnsureScheduled, PrioritiseUncloned
  <2>4. ASSUME NEW r \in Manual, UpdateOnce(r)
        PROVE  TimerInv'
    BY <2>1, <2>4, <1>1 DEF UpdateOnce, scheduleVars
  <2>5. QED
    BY <1>9, <2>2, <2>3, <2>4 DEF Caller
<1>10. CASE RunScheduler
  <2>1. /\ gen \in 0 .. MaxGenerations /\ gen < MaxGenerations
        /\ UNCHANGED <<schedule, timer, firing, wakeup>>
        /\ \/ scheduleLoop' = [scheduleLoop EXCEPT ![gen + 1] = LoopStart]
           \/ scheduleLoop' = scheduleLoop
    BY <1>10 DEF RunScheduler, scheduleVars, LoopsInv
  <2>2. scheduleLoop[gen + 1].pc = "off"
    BY <2>1 DEF LoopsInv, FutureOff, Generations
  <2>3. \A g \in Generations : g # gen + 1 => scheduleLoop'[g] = scheduleLoop[g]
    BY <2>1, <1>l
  <2>4. QED
    BY <2>1, <2>2, <2>3, <1>0
<1>11. ASSUME NEW g \in Generations, UpdateLoop(g) \/ ConfiguredLimiter(g)
       PROVE  TimerInv'
  BY <1>11, <1>1 DEF UpdateLoop, ConfiguredLimiter, UpdateLoopSelects, UpdateLoopWakes,
     UpdateLoopStops, UpdateLoopAcquires, LimiterGrants, UpdateLoopGivesUp, AcquireNext,
     scheduleVars, loopVars
<1>12. CASE ConfigChanges \/ RelayQueues \/ UNCHANGED schedulerVars
  BY <1>12, <1>1 DEF ConfigChanges, RelayQueues, schedulerVars, scheduleVars, loopVars
<1>13. QED
  BY <1>4, <1>5, <1>6, <1>7, <1>8, <1>9, <1>10, <1>11, <1>12 DEF SchedulerNext
----------------------------------------------------------------------------
(***************************************************************************)
(* The queue, the update goroutines and the relay.                         *)
(***************************************************************************)
UpdateRecord ==
  [pc : {"idle", "requesting", "interval", "removing", "releasing"},
   repo : Repos \cup {NoRepo}, interval : Int]

RoutineInv ==
  /\ update \in [Calls -> UpdateRecord]
  /\ relay \in [pc : {"idle", "enqueue", "remove"}, repo : Repos \cup {NoRepo}]
  /\ RelayInv

QueuePlaces == notifyEnqueue \in Channel /\ queue \in Seq(Entry) /\ OnePlace(queue)

LEMMA EnqueueKeeps ==
  ASSUME QueuePlaces, NEW r \in Repos, NEW p \in {Low, High}, Enqueue(r, p)
  PROVE  QueuePlaces'
<1>1. Enqueued(r, p) \in Seq(Entry) /\ OnePlace(Enqueued(r, p))
  BY EnqueuedEffect DEF QueuePlaces
<1>2. notify(notifyEnqueue) \in Channel
  BY DEF QueuePlaces, Channel, notify
<1>3. /\ queue' = Enqueued(r, p)
      /\ notifyEnqueue' = notifyEnqueue \/ notifyEnqueue' = notify(notifyEnqueue)
  BY DEF Enqueue
<1>4. QED
  BY <1>1, <1>2, <1>3 DEF QueuePlaces

LEMMA QueueKept ==
  ASSUME QueuePlaces, RoutineInv, [SchedulerNext]_schedulerVars
  PROVE  QueuePlaces'
<1>0. CASE UNCHANGED queueVars
  BY <1>0 DEF queueVars, QueuePlaces
<1>1. ASSUME NEW g \in Generations, ScheduleLoop(g)
      PROVE  QueuePlaces'
  <2>1. ASSUME NEW r \in Repos, RunScheduleEnqueues(g, r)
        PROVE  QueuePlaces'
    BY <2>1, EnqueueKeeps DEF RunScheduleEnqueues
  <2>2. QED
    BY <1>1, <2>1, <1>0 DEF ScheduleLoop, ScheduleLoopSelects, ScheduleLoopWakes,
       ScheduleLoopStops, RunScheduleLocks, RunScheduleEnds
<1>2. ASSUME NEW g \in Generations, UpdateLoop(g)
      PROVE  QueuePlaces'
  <2>1. CASE UpdateLoopWakes(g)
    <3>1. /\ notifyEnqueue' = Receive(notifyEnqueue, updateLoop[g].ch) /\ UNCHANGED queue
      BY <2>1 DEF UpdateLoopWakes
    <3>2. notifyEnqueue' \in Channel
      BY <3>1 DEF QueuePlaces, Channel, Receive
    <3>3. QED
      BY <3>1, <3>2 DEF QueuePlaces
  <2>2. CASE UpdateLoopStops(g)
    <3>1. /\ notifyEnqueue' = Replace(notifyEnqueue, updateLoop') /\ queue' = << >>
      BY <2>2 DEF UpdateLoopStops
    <3>2. notifyEnqueue' \in Channel
      BY <3>1 DEF QueuePlaces, Channel, Replace
    <3>3. queue' \in Seq(Entry) /\ OnePlace(queue')
      BY <3>1 DEF OnePlace
    <3>4. QED
      BY <3>2, <3>3 DEF QueuePlaces
  <2>3. ASSUME NEW c \in Calls, AcquireNext(g, c)
        PROVE  QueuePlaces'
    <3>1. UNCHANGED queue \/ \E i \in NextIndexes : queue' = [queue EXCEPT ![i].updating = TRUE]
      BY <2>3 DEF AcquireNext
    <3>2. queue' \in Seq(Entry) /\ OnePlace(queue')
      BY <3>1, MarkedEffect DEF QueuePlaces, NextIndexes
    <3>3. UNCHANGED notifyEnqueue
      BY <2>3 DEF AcquireNext
    <3>4. QED
      BY <3>2, <3>3 DEF QueuePlaces
  <2>4. QED
    BY <1>2, <2>1, <2>2, <2>3, <1>0
       DEF UpdateLoop, UpdateLoopSelects, UpdateLoopAcquires, LimiterGrants, UpdateLoopGivesUp
<1>3. ASSUME NEW r, NEW u \in BOOLEAN, queue' = Removed(r, u), UNCHANGED notifyEnqueue
      PROVE  QueuePlaces'
  BY <1>3, RemovedEffect DEF QueuePlaces
<1>4. ASSUME NEW c \in Calls, UpdateRoutine(c)
      PROVE  QueuePlaces'
  BY <1>4, <1>3, <1>0 DEF UpdateRoutine, RequestReturns, UpdateInterval, RemoveUpdated, ReleaseSlot,
     queueVars
<1>5. CASE RelayQueues
  <2>1. CASE relay.pc = "enqueue" /\ Enqueue(relay.repo, Low)
    BY <2>1, EnqueueKeeps DEF RoutineInv, RelayInv
  <2>2. CASE queue' = Removed(relay.repo, FALSE) /\ UNCHANGED notifyEnqueue
    BY <2>2, <1>3
  <2>3. QED
    BY <1>5, <2>1, <2>2 DEF RelayQueues
<1>6. CASE Caller
  <2>1. ASSUME NEW r \in Manual, UpdateOnce(r)
        PROVE  QueuePlaces'
    BY <2>1, EnqueueKeeps DEF UpdateOnce
  <2>2. QED
    BY <1>6, <2>1, <1>0 DEF Caller, UpdateFromDiff, EnsureScheduled, PrioritiseUncloned
<1>7. ASSUME \/ ConfigChanges \/ RunScheduler \/ Tick \/ TimerExpires \/ TimerNotifies
             \/ \E g \in Generations : ConfiguredLimiter(g)
             \/ UNCHANGED schedulerVars
      PROVE  UNCHANGED queueVars
  BY <1>7 DEF ConfigChanges, RunScheduler, Tick, TimerExpires, TimerNotifies, ConfiguredLimiter,
     schedulerVars, queueVars
<1>8. QED
  BY <1>0, <1>1, <1>2, <1>4, <1>5, <1>6, <1>7 DEF SchedulerNext

LEMMA RoutinesKept ==
  ASSUME RoutineInv, Sound(schedule), QueuePlaces, [SchedulerNext]_schedulerVars
  PROVE  RoutineInv'
<1>t. /\ update \in [Calls -> UpdateRecord]
      /\ relay \in [pc : {"idle", "enqueue", "remove"}, repo : Repos \cup {NoRepo}]
      /\ relay.pc # "idle" => relay.repo \in Repos
  BY DEF RoutineInv, RelayInv
<1>0. CASE UNCHANGED <<update, relay>>
  BY <1>0, <1>t DEF RoutineInv, RelayInv
<1>1. ASSUME UNCHANGED relay, update' \in [Calls -> UpdateRecord]
      PROVE  RoutineInv'
  BY <1>1, <1>t DEF RoutineInv, RelayInv
<1>2. ASSUME UNCHANGED update, NEW r \in Repos,
             \/ relay' = [pc |-> "remove", repo |-> r] \/ relay' = [pc |-> "enqueue", repo |-> r]
             \/ relay' = [pc |-> "idle", repo |-> NoRepo]
      PROVE  RoutineInv'
  BY <1>2, <1>t DEF RoutineInv, RelayInv
<1>3. ASSUME NEW c \in Calls, UpdateRoutine(c)
      PROVE  RoutineInv'
  <2>1. UNCHANGED relay
    BY <1>3 DEF UpdateRoutine, RequestReturns, UpdateInterval, RemoveUpdated, ReleaseSlot
  <2>2. CASE RequestReturns(c)
    <3>1. \A v \in Wanted \cup (IF update[c].repo \in DOMAIN schedule
                                THEN {2 * schedule[update[c].repo].interval} ELSE {}) : v \in Int
      BY DEF Sound
    <3>2. \/ \E v \in Int : update' = [update EXCEPT ![c].pc = "interval", ![c].interval = v]
          \/ update' = [update EXCEPT ![c].pc = "removing"]
      BY <2>2, <3>1 DEF RequestReturns
    <3>3. update' \in [Calls -> UpdateRecord]
      BY ONLY <1>t, <3>2, c \in Calls DEF UpdateRecord
    <3>4. QED
      BY <1>1, <2>1, <3>3
  <2>3. CASE UpdateInterval(c)
    <3> DEFINE u == [update[c] EXCEPT !.pc = "removing"]
    <3>1. u \in UpdateRecord
      BY <1>t DEF UpdateRecord
    <3>2. update' = [update EXCEPT ![c] = [u EXCEPT !.interval = 0]]
      BY <2>3 DEF UpdateInterval
    <3> HIDE DEF u
    <3>3. [u EXCEPT !.interval = 0] \in UpdateRecord
      BY <3>1 DEF UpdateRecord
    <3>4. update' \in [Calls -> UpdateRecord]
      BY <1>t, <3>2, <3>3
    <3>5. QED
      BY <1>1, <2>1, <3>4
  <2>4. CASE RemoveUpdated(c)
    <3> DEFINE u == [[update[c] EXCEPT !.pc = "releasing"] EXCEPT !.repo = NoRepo]
    <3>1. update' = [update EXCEPT ![c] = u]
      BY <1>t, <2>4 DEF RemoveUpdated
    <3>2. update' \in [Calls -> UpdateRecord]
      <4>0. update[c] \in UpdateRecord
        BY <1>t
      <4>1. u \in UpdateRecord
        BY <4>0 DEF UpdateRecord
      <4>2. QED
        BY <1>t, <3>1, <4>1
    <3>3. QED
      BY <1>1, <2>1, <3>2
  <2>5. CASE ReleaseSlot(c)
    <3>1. update' = [update EXCEPT ![c].pc = "idle"]
      BY <2>5 DEF ReleaseSlot
    <3>2. update' \in [Calls -> UpdateRecord]
      BY <1>t, <3>1 DEF UpdateRecord
    <3>3. QED
      BY <1>1, <2>1, <3>2
  <2>6. QED
    BY <1>3, <2>2, <2>3, <2>4, <2>5 DEF UpdateRoutine
<1>4. ASSUME NEW g \in Generations, UpdateLoop(g)
      PROVE  RoutineInv'
  <2>1. ASSUME NEW c \in Calls, AcquireNext(g, c)
        PROVE  RoutineInv'
    <3>1. UNCHANGED relay
      BY <2>1 DEF AcquireNext
    <3>2. \/ UNCHANGED update
          \/ \E i \in NextIndexes :
               update' = [update EXCEPT ![c].pc = "requesting", ![c].repo = queue[i].repo]
      BY <2>1 DEF AcquireNext
    <3>3. \A i \in NextIndexes : queue[i].repo \in Repos
      BY PlacesOfQueue DEF QueuePlaces, NextIndexes, Entry
    <3>4. \/ UNCHANGED update
          \/ \E r \in Repos : update' = [update EXCEPT ![c].pc = "requesting", ![c].repo = r]
      BY <3>2, <3>3
    <3>5. update' \in [Calls -> UpdateRecord]
      BY <1>t, <3>4 DEF UpdateRecord
    <3>6. QED
      BY <1>1, <3>1, <3>5
  <2>2. QED
    BY <1>4, <2>1, <1>0 DEF UpdateLoop, UpdateLoopSelects, UpdateLoopWakes, UpdateLoopStops,
       UpdateLoopAcquires, LimiterGrants, UpdateLoopGivesUp
<1>5. CASE Caller
  <2>1. ASSUME NEW r \in Synced, NEW part, UpdateFromDiff(r, part)
        PROVE  RoutineInv'
    BY <2>1, <1>0, <1>2 DEF UpdateFromDiff
  <2>2. QED
    BY <1>5, <2>1, <1>0 DEF Caller, UpdateOnce, EnsureScheduled, PrioritiseUncloned
<1>6. CASE RelayQueues
  <2>1. relay' = [pc |-> "idle", repo |-> NoRepo] /\ UNCHANGED update
    BY <1>6 DEF RelayQueues
  <2>2. relay' \in [pc : {"idle", "enqueue", "remove"}, repo : Repos \cup {NoRepo}]
    BY <2>1
  <2>3. QED
    BY <1>t, <2>1, <2>2 DEF RoutineInv, RelayInv
<1>7. ASSUME \/ ConfigChanges \/ RunScheduler \/ Tick \/ TimerExpires \/ TimerNotifies
             \/ \E g \in Generations : ConfiguredLimiter(g) \/ ScheduleLoop(g)
             \/ UNCHANGED schedulerVars
      PROVE  UNCHANGED <<update, relay>>
  BY <1>7 DEF ConfigChanges, RunScheduler, Tick, TimerExpires, TimerNotifies, ConfiguredLimiter,
     ScheduleLoop, ScheduleLoopSelects, ScheduleLoopWakes, ScheduleLoopStops, RunScheduleLocks,
     RunScheduleEnds, RunScheduleEnqueues, schedulerVars
<1>8. QED
  BY <1>0, <1>3, <1>4, <1>5, <1>6, <1>7 DEF SchedulerNext
----------------------------------------------------------------------------
(***************************************************************************)
(* The invariant that holds through all generations of the loops.          *)
(***************************************************************************)
ScheduleInv ==
  /\ LimiterInv /\ LoopsInv /\ ChannelsInv
  /\ Sound(schedule) /\ TimerInv
  /\ RoutineInv /\ QueuePlaces

LEMMA ScheduleInvSays ==
  ASSUME ScheduleInv
  PROVE  SchedulerTypeOK /\ ScheduleAwake /\ LoopCanWake /\ IntervalsBounded
<1>1. SchedulerTypeOK
  BY DEF ScheduleInv, LimiterInv, LoopsInv, Sound, TimerInv, RoutineInv, QueuePlaces,
     SchedulerTypeOK, Loops, InScheduleLoop, InUpdateLoop, UpdateRecord, Entry
<1>2. CanWake(scheduleLoop, wakeup) /\ CanWake(updateLoop, notifyEnqueue)
  <2>1. scheduleLoop \in Loops(InScheduleLoop) /\ updateLoop \in Loops(InUpdateLoop)
    BY DEF ScheduleInv, LoopsInv, Loops
  <2>2. QED
    BY <2>1, WaitsOnLatest DEF ScheduleInv, LoopsInv, ChannelsInv
<1>3. ScheduleAwake
  BY <1>1, <1>2 DEF ScheduleInv, TimerInv, Awake, ScheduleAwake
<1>4. IntervalsBounded
  BY DEF ScheduleInv, Sound, Bounded, IntervalsBounded
<1>5. QED
  BY <1>1, <1>2, <1>3, <1>4 DEF LoopCanWake

LEMMA ScheduleStarts ==
  ASSUME SchedulerInit
  PROVE  ScheduleInv
<1>1. LimiterInv
  BY LimiterStarts DEF SchedulerInit
<1>2. LoopsInv
  <2>1. /\ LoopOff \in [pc : InScheduleLoop, ch : Nat] /\ LoopOff \in [pc : InUpdateLoop, ch : Nat]
        /\ LoopOff.pc = "off"
    BY DEF LoopOff, InScheduleLoop, InUpdateLoop
  <2>2. auto \in BOOLEAN /\ have \in BOOLEAN /\ gen \in 0 .. MaxGenerations
    <3>1. auto \in BOOLEAN /\ have = FALSE /\ gen = 0
      BY DEF SchedulerInit
    <3>2. gen \in 0 .. MaxGenerations
      BY <3>1
    <3>3. QED
      BY <3>1, <3>2
  <2>3. /\ scheduleLoop = [g \in Generations |-> LoopOff]
        /\ updateLoop = [g \in Generations |-> LoopOff]
    BY DEF SchedulerInit
  <2>4. QED
    BY <2>1, <2>2, <2>3 DEF LoopsInv, FutureOff
<1>3. schedule = << >> /\ DOMAIN schedule = {}
  BY DEF SchedulerInit
<1>4. Sound(schedule)
  BY <1>3 DEF Sound
<1>c. FirstChannel \in Channel
  BY DEF FirstChannel, Channel
<1>5. TimerInv
  BY <1>3, <1>c DEF SchedulerInit, TimerInv, Awake
<1>6. RoutineInv
  BY DEF SchedulerInit, RoutineInv, RelayInv, UpdateRecord
<1>7. QueuePlaces
  <2>1. queue \in Seq(Entry) /\ OnePlace(queue)
    BY DEF SchedulerInit, OnePlace
  <2>2. QED
    BY <2>1, <1>c DEF SchedulerInit, QueuePlaces
<1>8. ChannelsInv
  <2>1. /\ scheduleLoop = [g \in Generations |-> LoopOff] /\ wakeup.ch = 0
        /\ updateLoop = [g \in Generations |-> LoopOff] /\ notifyEnqueue.ch = 0
    BY DEF SchedulerInit, FirstChannel
  <2>2. \A g \in Generations : scheduleLoop[g].pc = "off" /\ updateLoop[g].pc = "off"
    BY <2>1 DEF LoopOff
  <2>3. EndedLoops(scheduleLoop) = {} /\ EndedLoops(updateLoop) = {}
    BY <2>2 DEF EndedLoops
  <2>4. Cardinality({}) = 0
    BY FS_EmptySet
  <2>5. QED
    BY <2>1, <2>2, <2>3, <2>4 DEF ChannelsInv, ChannelInv
<1>9. QED
  BY <1>1, <1>2, <1>4, <1>5, <1>6, <1>7, <1>8 DEF ScheduleInv

LEMMA ScheduleInvKept ==
  ASSUME ScheduleInv, [SchedulerNext]_schedulerVars
  PROVE  ScheduleInv'
<1>1. LimiterInv'
  BY SchedulerUsesLimiter, LimiterStepKeeps DEF ScheduleInv, LoopsInv
<1>2. LoopsInv'
  BY LoopsKept DEF ScheduleInv, TimerInv, QueuePlaces
<1>3. Sound(schedule')
  <2>1. \A c \in Calls : update[c].interval \in Int
    BY DEF ScheduleInv, RoutineInv, UpdateRecord
  <2>2. QED
    BY <2>1, ScheduleSound DEF ScheduleInv
<1>4. TimerInv'
  BY <1>3, TimerKept DEF ScheduleInv
<1>5. RoutineInv' /\ QueuePlaces'
  BY RoutinesKept, QueueKept DEF ScheduleInv
<1>6. Sound(schedule)'
  BY <1>3 DEF Sound, Bounded
<1>7. ChannelsInv'
  BY <1>2, ChannelsKept DEF ScheduleInv, TimerInv, QueuePlaces
<1>8. QED
  BY <1>1, <1>2, <1>4, <1>5, <1>6, <1>7 DEF ScheduleInv

(***************************************************************************)
(* The loops, the schedule with its timer, the queue and the goroutines    *)
(* stay consistent through every restart of the loops.                     *)
(***************************************************************************)
THEOREM ScheduleInvariant == SchedulerSpec => []ScheduleInv
<1>1. SchedulerInit => ScheduleInv
  BY ScheduleStarts
<1>2. ScheduleInv /\ [SchedulerNext]_schedulerVars => ScheduleInv'
  BY ScheduleInvKept
<1>3. QED
  BY <1>1, <1>2, PTL DEF SchedulerSpec

(***************************************************************************)
(* The schedule never falls asleep: the timer expires no later than any    *)
(* repository is due, or a wakeup or a run of the loop is on its way, for  *)
(* any number of repositories, callers, updates and restarts; and the      *)
(* latest schedule loop waits on the channel that the wakeup will be in,   *)
(* unless it began to wait before every older one had reset the schedule.  *)
(***************************************************************************)
THEOREM NeverAsleep == SchedulerSpec => []ScheduleAwake
<1>1. ScheduleInv => ScheduleAwake
  BY ScheduleInvSays
<1>2. QED
  BY <1>1, ScheduleInvariant, PTL

(***************************************************************************)
(* After any number of restarts the latest update loop, if it waits, waits *)
(* on the channel that enqueue notifies, unless it began to wait before    *)
(* every older one had reset the queue or given up.                        *)
(***************************************************************************)
THEOREM LatestLoopNotified == SchedulerSpec => []LoopCanWake
<1>1. ScheduleInv => LoopCanWake
  BY ScheduleInvSays
<1>2. QED
  BY <1>1, ScheduleInvariant, PTL

(***************************************************************************)
(* However intervals are doubled, halved, jittered and reset, they stay    *)
(* within the jitter of minDelay and maxDelay, and no repository waits     *)
(* longer: for all delays that are at least the divisor of the jitter      *)
(* (else the jitter is empty, where the code would panic).                 *)
(***************************************************************************)
THEOREM IntervalsStayBounded == SchedulerSpec => []IntervalsBounded
<1>1. ScheduleInv => IntervalsBounded
  BY ScheduleInvSays
<1>2. QED
  BY <1>1, ScheduleInvariant, PTL
----------------------------------------------------------------------------
(***************************************************************************)
(* One generation of the loops: the configuration does not change.         *)
(***************************************************************************)
\* A repository is marked in the queue while one goroutine updates it.
Marked(r) == \E i \in DOMAIN queue : queue[i].repo = r /\ queue[i].updating

UpdatesInv ==
  \A r \in Repos :
    /\ Marked(r) <=> Updates(r) # {}
    /\ \A c, d \in Updates(r) : c = d

\* Nobody cancels a context that is given to Acquire.
Uncanceled == \A c \in Calls : call[c].pc = "acquiring" => ~call[c].canceled

QueueInv == UpdatesInv /\ Uncanceled /\ NotifyLossless

LEMMA OneGeneration ==
  ASSUME ScheduleInv, MaxGenerations = 1
  PROVE  /\ Generations = {1} /\ \A g \in Generations : ~Stopped(g)
         /\ gen < MaxGenerations => gen = 0
<1>1. gen \in 0 .. 1
  BY DEF ScheduleInv, LoopsInv
<1>2. Generations = {1}
  BY DEF Generations
<1>3. QED
  BY <1>1, <1>2 DEF Stopped

\* Only holders are canceled, when the limit is lowered.
LEMMA UncanceledKept ==
  ASSUME ScheduleInv, Uncanceled, MaxGenerations = 1, [SchedulerNext]_schedulerVars
  PROVE  Uncanceled'
<1>t. call \in [Calls -> Call] /\ Limiters = Generations
  BY DEF ScheduleInv, LimiterInv, LimiterTypeOK, Generations
<1>0. CASE UNCHANGED limiterVars
  BY <1>0 DEF limiterVars, Uncanceled
<1>1. CASE RunScheduler
  <2> DEFINE S == {c \in Calls : call[c].pc # "idle" /\ call[c].limiter = gen}
  <2>1. CancelAll(S) /\ gen < MaxGenerations
    BY <1>1 DEF RunScheduler
  <2>2. gen = 0
    BY <2>1, OneGeneration
  <2>3. \A c \in Calls : call[c].limiter \in Limiters
    BY <1>t DEF Call
  <2>4. 0 \notin Limiters
    BY <1>t, OneGeneration
  <2>5. S = {}
    BY <2>2, <2>3, <2>4
  <2>6. \A c \in Calls : call'[c] = call[c]
    BY <2>1, <2>5 DEF CancelAll
  <2>7. QED
    BY <2>6 DEF Uncanceled
<1>2. ASSUME NEW g \in Generations, UpdateLoopAcquires(g)
      PROVE  Uncanceled'
  <2> DEFINE x == CHOOSE c \in Calls : Free(c)
  <2>1. x \in Calls /\ call' = [call EXCEPT ![x] = [pc |-> "acquiring", limiter |-> g,
                                                    canceled |-> Stopped(g)]]
    BY <1>2 DEF UpdateLoopAcquires, Acquire
  <2>2. ~Stopped(g)
    BY OneGeneration
  <2> HIDE DEF x
  <2>3. ~call'[x].canceled /\ \A c \in Calls \ {x} : call'[c] = call[c]
    BY <1>t, <2>1, <2>2
  <2>4. QED
    BY <2>3 DEF Uncanceled
<1>3. ASSUME NEW c \in Calls, call' = [call EXCEPT ![c] = NoCall]
      PROVE  Uncanceled'
  <2>1. call'[c].pc = "idle" /\ \A d \in Calls \ {c} : call'[d] = call[d]
    BY <1>3, <1>t DEF NoCall
  <2>2. QED
    BY <2>1 DEF Uncanceled
<1>4. ASSUME NEW g \in Generations, LimiterGrants(g)
      PROVE  Uncanceled'
  <2> DEFINE x == Head(acquire[g])
  <2>1. call' = [call EXCEPT ![x].pc = "held"]
    BY <1>4 DEF LimiterGrants, Grant
  <2> HIDE DEF x
  <2>2. \A c \in Calls : call'[c] = call[c] \/ call'[c].pc = "held"
    BY <1>t, <2>1 DEF Call
  <2>3. QED
    BY <2>2 DEF Uncanceled
<1>5. ASSUME NEW g \in Generations, ConfiguredLimiter(g)
      PROVE  Uncanceled'
  <2>1. PICK n \in Limits : SetLimit(g, n)
    BY <1>5 DEF ConfiguredLimiter
  <2> DEFINE S == ToSet(cancelFuncs[g]) \ ToSet(Newest(cancelFuncs[g], n))
  <2>2. CancelAll(S)
    BY <2>1 DEF SetLimit
  <2>3. cancelFuncs \in [Limiters -> Seq(Calls)] /\ HoldersListed
    BY DEF ScheduleInv, LimiterInv, LimiterTypeOK
  <2>4. \A c \in S : call[c].pc = "held"
    BY <1>t, <2>3, HoldersAreListed DEF Listed
  <2> HIDE DEF S
  <2>5. ASSUME NEW c \in Calls
        PROVE  call'[c] = call[c] \/ call'[c].pc = "held"
    <3>1. CASE c \notin S
      BY <2>2, <3>1 DEF CancelAll
    <3>2. CASE c \in S
      <4>1. call'[c] = [call[c] EXCEPT !.canceled = TRUE] /\ call[c] \in Call
        BY <1>t, <2>2, <3>2 DEF CancelAll
      <4>2. call'[c].pc = call[c].pc
        BY <4>1 DEF Call
      <4>3. QED
        BY <2>4, <3>2, <4>2
    <3>3. QED
      BY <3>1, <3>2
  <2>6. QED
    BY <2>5 DEF Uncanceled
<1>6. ASSUME NEW g \in Generations, UpdateLoop(g)
      PROVE  Uncanceled'
  <2>1. ASSUME NEW c \in Calls, AcquireNext(g, c)
        PROVE  Uncanceled'
    BY <2>1, <1>0, <1>3 DEF AcquireNext, Release
  <2>2. CASE UpdateLoopGivesUp(g)
    BY <2>2, <1>3 DEF UpdateLoopGivesUp, AcquireFails
  <2>3. QED
    BY <1>6, <1>0, <1>2, <1>4, <2>1, <2>2, LimiterLeftAlone DEF UpdateLoop
<1>7. ASSUME NEW c \in Calls, UpdateRoutine(c)
      PROVE  Uncanceled'
  <2>1. CASE ReleaseSlot(c)
    BY <2>1, <1>3 DEF ReleaseSlot, Release
  <2>2. QED
    BY <1>7, <1>0, <2>1, LimiterLeftAlone DEF UpdateRoutine
<1>8. CASE \/ ConfigChanges \/ Tick \/ TimerExpires \/ TimerNotifies \/ Caller \/ RelayQueues
           \/ \E g \in Generations : ScheduleLoop(g)
  BY <1>8, <1>0, LimiterLeftAlone
<1>9. CASE UNCHANGED schedulerVars
  BY <1>9, <1>0 DEF schedulerVars
<1>10. QED
  BY <1>1, <1>5, <1>6, <1>7, <1>8, <1>9 DEF SchedulerNext

\* What a change of the queue does to its marks.
LEMMA MarksOfQueue ==
  ASSUME NEW r, queue \in Seq(Entry), queue' \in Seq(Entry)
  PROVE  /\ Marked(r) <=> \E x \in ToSet(queue) : x.repo = r /\ x.updating
         /\ Marked(r)' <=> \E x \in ToSet(queue') : x.repo = r /\ x.updating
         /\ Waiting(r) <=> \E x \in ToSet(queue) : x.repo = r /\ ~x.updating
         /\ Waiting(r)' <=> \E x \in ToSet(queue') : x.repo = r /\ ~x.updating
         /\ ToSet(queue) \subseteq Entry /\ ToSet(queue') \subseteq Entry
<1>1. ASSUME NEW s \in Seq(Entry)
      PROVE  /\ (\E i \in DOMAIN s : s[i].repo = r /\ s[i].updating)
                  <=> \E x \in ToSet(s) : x.repo = r /\ x.updating
             /\ (\E i \in DOMAIN s : s[i].repo = r /\ ~s[i].updating)
                  <=> \E x \in ToSet(s) : x.repo = r /\ ~x.updating
             /\ ToSet(s) \subseteq Entry
  <2>1. (\E i \in DOMAIN s : s[i].repo = r /\ s[i].updating)
        <=> \E x \in ToSet(s) : x.repo = r /\ x.updating
    <3>1. DOMAIN s = 1 .. Len(s)
      BY LenProperties
    <3>2. \A x : x \in ToSet(s) <=> \E i \in DOMAIN s : s[i] = x
      BY <3>1, MembersOfList
    <3>3. QED
      BY <3>2
  <2>2. (\E i \in DOMAIN s : s[i].repo = r /\ ~s[i].updating)
        <=> \E x \in ToSet(s) : x.repo = r /\ ~x.updating
    <3>1. DOMAIN s = 1 .. Len(s)
      BY LenProperties
    <3>2. \A x : x \in ToSet(s) <=> \E i \in DOMAIN s : s[i] = x
      BY <3>1, MembersOfList
    <3>3. QED
      BY <3>2
  <2>3. ToSet(s) \subseteq Entry
    BY MembersOfQueue
  <2>4. QED
    BY <2>1, <2>2, <2>3
<1>2. QED
  BY <1>1 DEF Marked, Waiting

LEMMA EnqueueMarks ==
  ASSUME QueuePlaces, QueuePlaces', NEW q \in Repos, NEW p \in {Low, High}, Enqueue(q, p), NEW r
  PROVE  Marked(r)' <=> Marked(r)
<1>1. \A x \in Entry : x.updating => (x \in ToSet(Enqueued(q, p)) <=> x \in ToSet(queue))
  BY EnqueuedEffect DEF QueuePlaces
<1>2. queue' = Enqueued(q, p)
  BY DEF Enqueue
<1>3. \A x \in Entry : x.updating => (x \in ToSet(queue') <=> x \in ToSet(queue))
  BY <1>1, <1>2
<1>4. QED
  BY <1>3, MarksOfQueue DEF QueuePlaces

LEMMA RemoveMarks ==
  ASSUME QueuePlaces, QueuePlaces', NEW q, NEW u \in BOOLEAN, queue' = Removed(q, u), NEW r
  PROVE  /\ u = FALSE \/ r # q => (Marked(r)' <=> Marked(r))
         /\ u = TRUE => ~Marked(q)'
         /\ Waiting(r)' => Waiting(r)
<1>1. ToSet(queue') = {x \in ToSet(queue) : ~(x.repo = q /\ x.updating = u)}
  BY RemovedEffect DEF QueuePlaces
<1>2. \A x \in ToSet(queue) : x.updating \in BOOLEAN
  BY MarksOfQueue DEF QueuePlaces, Entry
<1>3. /\ Marked(r) <=> \E x \in ToSet(queue) : x.repo = r /\ x.updating
      /\ Marked(r)' <=> \E x \in ToSet(queue') : x.repo = r /\ x.updating
      /\ Waiting(r) <=> \E x \in ToSet(queue) : x.repo = r /\ ~x.updating
      /\ Waiting(r)' <=> \E x \in ToSet(queue') : x.repo = r /\ ~x.updating
      /\ Marked(q)' <=> \E x \in ToSet(queue') : x.repo = q /\ x.updating
  BY MarksOfQueue DEF QueuePlaces
<1>4. QED
  BY <1>1, <1>2, <1>3, Zenon

\* acquireNext marks a repository that was not marked, and no other.
LEMMA NextMarks ==
  ASSUME QueuePlaces, NEW i \in NextIndexes, queue' = [queue EXCEPT ![i].updating = TRUE],
         NEW q, q = queue[i].repo
  PROVE  ~Marked(q) /\ Marked(q)' /\ \A r : r # q => (Marked(r)' <=> Marked(r))
<1>1. i \in DOMAIN queue /\ ~queue[i].updating
  BY DEF NextIndexes
<1>2. /\ DOMAIN queue' = DOMAIN queue /\ queue'[i].updating
      /\ \A k \in DOMAIN queue : queue'[k].repo = queue[k].repo
      /\ \A k \in DOMAIN queue : k # i => queue'[k] = queue[k]
  BY <1>1, MarkedEffect DEF QueuePlaces
<1>3. \A k \in DOMAIN queue : queue[k].repo = queue[i].repo => k = i
  BY <1>1, PlacesOfQueue DEF QueuePlaces, OnePlace
<1>4. QED
  BY <1>1, <1>2, <1>3 DEF Marked

\* Of the goroutines.
Updating == {"requesting", "interval", "removing"}

LEMMA UpdatesKept ==
  ASSUME ScheduleInv, ScheduleInv', MaxGenerations = 1, UpdatesInv, [SchedulerNext]_schedulerVars
  PROVE  UpdatesInv'
<1>t. QueuePlaces /\ QueuePlaces' /\ update \in [Calls -> UpdateRecord]
  BY DEF ScheduleInv, RoutineInv
<1>0. ASSUME \A r \in Repos : (Marked(r)' <=> Marked(r)) /\ Updates(r)' = Updates(r)
      PROVE  UpdatesInv'
  BY <1>0 DEF UpdatesInv
<1>u. UNCHANGED update => \A r \in Repos : Updates(r)' = Updates(r)
  BY DEF Updates
<1>q. UNCHANGED queue => \A r \in Repos : Marked(r)' <=> Marked(r)
  BY DEF Marked
<1>1. ASSUME NEW q \in Repos, NEW p \in {Low, High}, Enqueue(q, p), UNCHANGED update
      PROVE  UpdatesInv'
  BY <1>t, <1>0, <1>u, <1>1, EnqueueMarks
<1>2. ASSUME NEW q, queue' = Removed(q, FALSE), UNCHANGED update
      PROVE  UpdatesInv'
  BY <1>t, <1>0, <1>u, <1>2, RemoveMarks
<1>3. CASE UNCHANGED <<queue, update>>
  BY <1>3, <1>0, <1>u, <1>q
<1>4. ASSUME NEW c \in Calls, UpdateRoutine(c)
      PROVE  UpdatesInv'
  <2>1. CASE RequestReturns(c) \/ UpdateInterval(c) \/ ReleaseSlot(c)
    <3>1. UNCHANGED queue
      BY <2>1 DEF RequestReturns, UpdateInterval, ReleaseSlot, queueVars
    <3>2. /\ \A d \in Calls \ {c} : update'[d] = update[d]
          /\ update'[c].repo = update[c].repo
          /\ update'[c].pc \in Updating <=> update[c].pc \in Updating
      <4>1. CASE RequestReturns(c)
        BY <1>t, <4>1 DEF RequestReturns, Updating, UpdateRecord
      <4>2. CASE UpdateInterval(c)
        BY <1>t, <4>2 DEF UpdateInterval, Updating, UpdateRecord
      <4>3. CASE ReleaseSlot(c)
        BY <1>t, <4>3 DEF ReleaseSlot, Updating, UpdateRecord
      <4>4. QED
        BY <2>1, <4>1, <4>2, <4>3
    <3>3. \A r \in Repos : Updates(r)' = Updates(r)
      BY <3>2 DEF Updates, Updating
    <3>4. QED
      BY <1>0, <1>q, <3>1, <3>3
  <2>2. CASE RemoveUpdated(c)
    <3>q. PICK q : q = update[c].repo
      OBVIOUS
    <3>1. /\ update[c].pc = "removing" /\ queue' = Removed(q, TRUE)
          /\ update'[c].pc = "releasing" /\ \A d \in Calls \ {c} : update'[d] = update[d]
      BY <1>t, <2>2, <3>q DEF RemoveUpdated, UpdateRecord
    <3>2. \A r \in Repos : Updates(r)' = Updates(r) \ {c}
      BY <3>1 DEF Updates
    <3>3. /\ \A r \in Repos \ {q} : c \notin Updates(r)
          /\ q \in Repos => c \in Updates(q)
      BY <3>1, <3>q DEF Updates
    <3>4. ~Marked(q)' /\ \A r \in Repos \ {q} : Marked(r)' <=> Marked(r)
      BY <1>t, <3>1, RemoveMarks
    <3>5. ASSUME NEW r \in Repos
          PROVE  (Marked(r)' <=> Updates(r)' # {}) /\ \A d, e \in Updates(r)' : d = e
      <4>0. (Marked(r) <=> Updates(r) # {}) /\ \A d, e \in Updates(r) : d = e
        BY DEF UpdatesInv
      <4>1. CASE r = q
        <5>1. Updates(r) = {c}
          BY <3>3, <4>0, <4>1
        <5>2. Updates(r)' = {} /\ ~Marked(r)'
          BY <3>2, <3>4, <4>1, <5>1
        <5>3. QED
          BY <5>2
      <4>2. CASE r # q
        <5>1. Updates(r)' = Updates(r) /\ (Marked(r)' <=> Marked(r))
          BY <3>2, <3>3, <3>4, <4>2
        <5>2. QED
          BY <4>0, <5>1
      <4>3. QED
        BY <4>1, <4>2
    <3>6. QED
      BY <3>5 DEF UpdatesInv
  <2>3. QED
    BY <1>4, <2>1, <2>2 DEF UpdateRoutine
<1>5. ASSUME NEW g \in Generations, UpdateLoop(g)
      PROVE  UpdatesInv'
  <2>1. ~UpdateLoopStops(g)
    BY OneGeneration DEF UpdateLoopStops
  <2>2. ASSUME NEW c \in Calls, AcquireNext(g, c), NextIndexes # {}
        PROVE  UpdatesInv'
    <3>1. PICK i \in NextIndexes :
            /\ queue' = [queue EXCEPT ![i].updating = TRUE]
            /\ update' = [update EXCEPT ![c].pc = "requesting", ![c].repo = queue[i].repo]
      BY <2>2 DEF AcquireNext
    <3>q. PICK q : q = queue[i].repo
      OBVIOUS
    <3>2. ~Marked(q) /\ Marked(q)' /\ \A r : r # q => (Marked(r)' <=> Marked(r))
      BY <1>t, <3>1, <3>q, NextMarks
    <3>3. /\ update[c].pc = "idle" /\ update'[c].pc = "requesting" /\ update'[c].repo = q
          /\ \A d \in Calls \ {c} : update'[d] = update[d]
      BY <1>t, <2>2, <3>1, <3>q DEF AcquireNext, UpdateRecord
    <3>4. \A r \in Repos : c \notin Updates(r)
      BY <3>3 DEF Updates
    <3>5. \A r \in Repos : Updates(r)' = IF r = q THEN Updates(r) \cup {c} ELSE Updates(r)
      BY <3>3, <3>4 DEF Updates
    <3>6. q \in Repos => Updates(q) = {}
      BY <3>2 DEF UpdatesInv
    <3>7. ASSUME NEW r \in Repos
          PROVE  (Marked(r)' <=> Updates(r)' # {}) /\ \A d, e \in Updates(r)' : d = e
      <4>0. (Marked(r) <=> Updates(r) # {}) /\ \A d, e \in Updates(r) : d = e
        BY DEF UpdatesInv
      <4>1. CASE r = q
        <5>1. Updates(r)' = {c} /\ Marked(r)'
          BY <3>2, <3>5, <3>6, <4>1
        <5>2. QED
          BY <5>1
      <4>2. CASE r # q
        <5>1. Updates(r)' = Updates(r) /\ (Marked(r)' <=> Marked(r))
          BY <3>2, <3>5, <4>2
        <5>2. QED
          BY <4>0, <5>1
      <4>3. QED
        BY <4>1, <4>2
    <3>8. QED
      BY <3>7 DEF UpdatesInv
  <2>3. ASSUME NEW c \in Calls, AcquireNext(g, c), NextIndexes = {}
        PROVE  UpdatesInv'
    BY <2>3, <1>3 DEF AcquireNext
  <2>4. QED
    BY <1>5, <1>3, <2>1, <2>2, <2>3 DEF UpdateLoop, UpdateLoopSelects, UpdateLoopWakes,
       UpdateLoopAcquires, LimiterGrants, UpdateLoopGivesUp, queueVars
<1>6. ASSUME NEW g \in Generations, ScheduleLoop(g)
      PROVE  UpdatesInv'
  <2>1. ASSUME NEW r \in Repos, RunScheduleEnqueues(g, r)
        PROVE  UpdatesInv'
    BY <2>1, <1>1 DEF RunScheduleEnqueues
  <2>2. QED
    BY <1>6, <2>1, <1>3 DEF ScheduleLoop, ScheduleLoopSelects, ScheduleLoopWakes,
       ScheduleLoopStops, RunScheduleLocks, RunScheduleEnds, queueVars
<1>7. CASE RelayQueues
  <2>1. CASE relay.pc = "enqueue" /\ Enqueue(relay.repo, Low)
    BY <2>1, <1>7, <1>1 DEF RelayQueues, ScheduleInv, RoutineInv, RelayInv
  <2>2. CASE queue' = Removed(relay.repo, FALSE)
    BY <2>2, <1>7, <1>2 DEF RelayQueues
  <2>3. QED
    BY <1>7, <2>1, <2>2 DEF RelayQueues
<1>8. CASE Caller
  <2>1. ASSUME NEW r \in Manual, UpdateOnce(r)
        PROVE  UpdatesInv'
    BY <2>1, <1>1 DEF UpdateOnce
  <2>2. QED
    BY <1>8, <2>1, <1>3 DEF Caller, UpdateFromDiff, EnsureScheduled, PrioritiseUncloned, queueVars
<1>9. ASSUME \/ ConfigChanges \/ RunScheduler \/ Tick \/ TimerExpires \/ TimerNotifies
             \/ \E g \in Generations : ConfiguredLimiter(g)
             \/ UNCHANGED schedulerVars
      PROVE  UNCHANGED <<queue, update>>
  BY <1>9 DEF ConfigChanges, RunScheduler, Tick, TimerExpires, TimerNotifies, ConfiguredLimiter,
     schedulerVars, queueVars
<1>10. QED
  BY <1>3, <1>4, <1>5, <1>6, <1>7, <1>8, <1>9 DEF SchedulerNext

LEMMA NotifyKept ==
  ASSUME ScheduleInv, ScheduleInv', MaxGenerations = 1, Uncanceled, NotifyLossless,
         [SchedulerNext]_schedulerVars
  PROVE  NotifyLossless'
<1>t. /\ QueuePlaces /\ QueuePlaces' /\ queue \in Seq(Entry) /\ notifyEnqueue \in Channel
      /\ updateLoop \in [Generations -> [pc : InUpdateLoop, ch : Nat]]
  BY DEF ScheduleInv, LoopsInv, QueuePlaces
<1>0. ASSUME \A r \in Repos : Waiting(r)' => Waiting(r), UNCHANGED notifyEnqueue,
             \A g \in Generations : updateLoop[g].pc \in {"next", "acquiring"}
                                      => updateLoop'[g].pc \in {"next", "acquiring"}
      PROVE  NotifyLossless'
  BY <1>0 DEF NotifyLossless
<1>q. UNCHANGED queue => \A r \in Repos : Waiting(r)' => Waiting(r)
  BY DEF Waiting
<1>1. CASE UNCHANGED <<queue, notifyEnqueue, updateLoop>>
  BY <1>1, <1>0, <1>q
<1>2. ASSUME NEW g \in Generations, updateLoop'[g].pc \in {"next", "acquiring"}
      PROVE  NotifyLossless'
  BY <1>2 DEF NotifyLossless
<1>3. ASSUME NEW r \in Repos, NEW p \in {Low, High}, Enqueue(r, p), UNCHANGED updateLoop
      PROVE  NotifyLossless'
  <2>1. CASE queue' = queue
    BY <1>1, <1>3, <2>1 DEF Enqueue
  <2>2. CASE queue' # queue
    <3>1. notifyEnqueue' = notify(notifyEnqueue)
      BY <1>3, <2>2 DEF Enqueue
    <3>2. notifyEnqueue'.ch \in notifyEnqueue'.full
      BY <1>t, <3>1 DEF notify, Channel
    <3>3. QED
      BY <3>2 DEF NotifyLossless
  <2>3. QED
    BY <2>1, <2>2
<1>4. ASSUME NEW r, NEW u \in BOOLEAN, queue' = Removed(r, u), UNCHANGED <<notifyEnqueue, updateLoop>>
      PROVE  NotifyLossless'
  BY <1>t, <1>4, <1>0, RemoveMarks
<1>5. ASSUME NEW g \in Generations, UpdateLoop(g)
      PROVE  NotifyLossless'
  <2>1. CASE UpdateLoopSelects(g)
    <3>1. UNCHANGED <<queue, notifyEnqueue>> /\ updateLoop[g].pc = "top"
      BY <2>1 DEF UpdateLoopSelects, queueVars
    <3>2. \A h \in Generations \ {g} : updateLoop'[h] = updateLoop[h]
      BY <1>t, <2>1 DEF UpdateLoopSelects
    <3>3. QED
      BY <3>1, <3>2, <1>0, <1>q
  <2>2. CASE UpdateLoopWakes(g) \/ UpdateLoopAcquires(g)
    <3>1. updateLoop'[g].pc \in {"next", "acquiring"}
      BY <1>t, <2>2 DEF UpdateLoopWakes, UpdateLoopAcquires
    <3>2. QED
      BY <3>1, <1>2
  <2>3. ~UpdateLoopStops(g)
    BY OneGeneration DEF UpdateLoopStops
  <2>4. ~UpdateLoopGivesUp(g)
    BY DEF UpdateLoopGivesUp, AcquireFails, Uncanceled
  <2>5. CASE LimiterGrants(g)
    BY <2>5, <1>1 DEF LimiterGrants, loopVars, queueVars
  <2>6. ASSUME NEW c \in Calls, AcquireNext(g, c), NextIndexes # {}
        PROVE  NotifyLossless'
    <3>1. updateLoop'[g].pc = "next"
      BY <1>t, <2>6 DEF AcquireNext
    <3>2. QED
      BY <3>1, <1>2
  <2>7. ASSUME NEW c \in Calls, AcquireNext(g, c), NextIndexes = {}
        PROVE  NotifyLossless'
    <3>1. UNCHANGED queue
      BY <2>7 DEF AcquireNext
    <3>2. \A r \in Repos : ~Waiting(r)
      BY <1>t, <2>7, NextIsFound
    <3>3. QED
      BY <3>1, <3>2, <1>q DEF NotifyLossless
  <2>8. QED
    BY <1>5, <2>1, <2>2, <2>3, <2>4, <2>5, <2>6, <2>7 DEF UpdateLoop
<1>6. CASE RunScheduler
  <2>1. /\ UNCHANGED <<queue, notifyEnqueue>>
        /\ updateLoop' = [updateLoop EXCEPT ![gen + 1] = LoopStart]
        /\ gen \in 0 .. MaxGenerations /\ gen < MaxGenerations
    BY <1>6 DEF RunScheduler, queueVars, ScheduleInv, LoopsInv
  <2>2. updateLoop[gen + 1].pc = "off"
    BY <2>1 DEF ScheduleInv, LoopsInv, FutureOff, Generations
  <2>3. \A h \in Generations : h # gen + 1 => updateLoop'[h] = updateLoop[h]
    BY <1>t, <2>1
  <2>4. QED
    BY <2>1, <2>2, <2>3, <1>0, <1>q
<1>7. ASSUME NEW g \in Generations, ScheduleLoop(g)
      PROVE  NotifyLossless'
  <2>1. ASSUME NEW r \in Repos, RunScheduleEnqueues(g, r)
        PROVE  NotifyLossless'
    BY <2>1, <1>3 DEF RunScheduleEnqueues, loopVars
  <2>2. QED
    BY <1>7, <2>1, <1>1 DEF ScheduleLoop, ScheduleLoopSelects, ScheduleLoopWakes,
       ScheduleLoopStops, RunScheduleLocks, RunScheduleEnds, queueVars
<1>8. ASSUME NEW c \in Calls, UpdateRoutine(c)
      PROVE  NotifyLossless'
  <2>1. CASE RemoveUpdated(c)
    BY <2>1, <1>4 DEF RemoveUpdated, loopVars
  <2>2. QED
    BY <1>8, <2>1, <1>1 DEF UpdateRoutine, RequestReturns, UpdateInterval, ReleaseSlot,
       loopVars, queueVars
<1>9. CASE RelayQueues
  <2>1. CASE relay.pc = "enqueue" /\ Enqueue(relay.repo, Low)
    BY <2>1, <1>9, <1>3 DEF RelayQueues, ScheduleInv, RoutineInv, RelayInv, loopVars
  <2>2. CASE queue' = Removed(relay.repo, FALSE) /\ UNCHANGED notifyEnqueue
    BY <2>2, <1>9, <1>4 DEF RelayQueues, loopVars
  <2>3. QED
    BY <1>9, <2>1, <2>2 DEF RelayQueues
<1>10. CASE Caller
  <2>1. ASSUME NEW r \in Manual, UpdateOnce(r)
        PROVE  NotifyLossless'
    BY <2>1, <1>3 DEF UpdateOnce, loopVars
  <2>2. QED
    BY <1>10, <2>1, <1>1 DEF Caller, UpdateFromDiff, EnsureScheduled, PrioritiseUncloned,
       queueVars, loopVars
<1>11. CASE \/ ConfigChanges \/ Tick \/ TimerExpires \/ TimerNotifies
            \/ \E g \in Generations : ConfiguredLimiter(g)
            \/ UNCHANGED schedulerVars
  BY <1>11, <1>1 DEF ConfigChanges, Tick, TimerExpires, TimerNotifies, ConfiguredLimiter,
     schedulerVars, queueVars, loopVars
<1>12. QED
  BY <1>5, <1>6, <1>7, <1>8, <1>9, <1>10, <1>11 DEF SchedulerNext

(***************************************************************************)
(* Without a change of the configuration, no goroutine updates a           *)
(* repository that another one updates, and the update loop is told of     *)
(* every repository that waits.                                            *)
(***************************************************************************)
THEOREM QueueInvariant ==
  ASSUME MaxGenerations = 1
  PROVE  SchedulerSpec => []QueueInv
<1>1. SchedulerInit => QueueInv
  <2>1. SUFFICES ASSUME SchedulerInit
                 PROVE  QueueInv
    OBVIOUS
  <2>2. queue = << >> /\ \A c \in Calls : update[c].pc = "idle" /\ call[c] = NoCall
    BY <2>1 DEF SchedulerInit, LimiterInit
  <2>3. DOMAIN queue = {} /\ NoCall.pc = "idle"
    BY <2>2 DEF NoCall
  <2>4. UpdatesInv
    BY <2>2, <2>3 DEF UpdatesInv, Marked, Updates
  <2>5. Uncanceled /\ NotifyLossless
    BY <2>2, <2>3 DEF Uncanceled, NotifyLossless, Waiting
  <2>6. QED
    BY <2>4, <2>5 DEF QueueInv
<1>2. ScheduleInv /\ ScheduleInv' /\ QueueInv /\ [SchedulerNext]_schedulerVars => QueueInv'
  BY UncanceledKept, UpdatesKept, NotifyKept DEF QueueInv
<1>3. QED
  BY <1>1, <1>2, ScheduleInvariant, PTL DEF SchedulerSpec

(***************************************************************************)
(* "lossless non-blocking sends": as long as the configuration does not    *)
(* change, a repository never waits in the queue of a loop that was not    *)
(* notified, for any number of repositories, callers and updates.          *)
(***************************************************************************)
THEOREM LoopIsNotified ==
  ASSUME MaxGenerations = 1
  PROVE  SchedulerSpec => []NotifyLossless
<1>1. QueueInv => NotifyLossless
  BY DEF QueueInv
<1>2. QED
  BY <1>1, QueueInvariant, PTL

(***************************************************************************)
(* As long as the configuration does not change, a repository has one      *)
(* place in the queue and is updated by at most one goroutine, exactly     *)
(* while that place is marked: whatever order enqueue, acquireNext, the    *)
(* removal by a diff and the deferred removal of the update come in.       *)
(***************************************************************************)
THEOREM RepositoryUpdatedOnce ==
  ASSUME MaxGenerations = 1
  PROVE  SchedulerSpec => []OneUpdate
<1>1. ScheduleInv /\ QueueInv => OneUpdate
  <2>1. SUFFICES ASSUME ScheduleInv, QueueInv
                 PROVE  OneUpdate
    OBVIOUS
  <2>2. queue \in Seq(Entry) /\ DOMAIN queue = 1 .. Len(queue) /\ OnePlace(queue)
    BY <2>1, LenProperties DEF ScheduleInv, QueuePlaces
  <2>3. \A i, k \in DOMAIN queue : queue[i].repo = queue[k].repo => i = k
    BY <2>2 DEF OnePlace
  <2>4. ASSUME NEW r \in Repos
        PROVE  Cardinality(Updates(r)) =
                 Cardinality({i \in DOMAIN queue : queue[i].repo = r /\ queue[i].updating})
    <3> DEFINE I == {i \in DOMAIN queue : queue[i].repo = r /\ queue[i].updating}
    <3>1. (Marked(r) <=> Updates(r) # {}) /\ \A c, d \in Updates(r) : c = d
      BY <2>1 DEF QueueInv, UpdatesInv
    <3>2. I # {} <=> Updates(r) # {}
      BY <3>1 DEF Marked
    <3>3. \A i, k \in I : i = k
      BY <2>3
    <3>s. SUFFICES Cardinality(Updates(r)) = Cardinality(I)
      OBVIOUS
    <3> HIDE DEF I
    <3>4. CASE I = {}
      BY <3>2, <3>4
    <3>5. CASE I # {}
      <4>1. PICK i, c : I = {i} /\ Updates(r) = {c}
        <5>1. PICK i : i \in I
          BY <3>5
        <5>2. PICK c : c \in Updates(r)
          BY <3>2, <3>5
        <5>3. I = {i} /\ Updates(r) = {c}
          BY <3>1, <3>3, <5>1, <5>2
        <5>4. QED
          BY <5>3
      <4>2. Cardinality({i}) = 1 /\ Cardinality({c}) = 1
        BY FS_Singleton
      <4>3. QED
        BY <4>1, <4>2
    <3>6. QED
      BY <3>4, <3>5
  <2>5. QED
    BY <2>3, <2>4 DEF OneUpdate
<1>2. QED
  BY <1>1, ScheduleInvariant, QueueInvariant, PTL
=============================================================================
