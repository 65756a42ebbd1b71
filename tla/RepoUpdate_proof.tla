-------------------------- MODULE RepoUpdate_proof --------------------------
(***************************************************************************)
(* Proofs about the updates of gitserver and its limiter, for every number *)
(* of repositories, updates, clones and pushes, and all limits.            *)
(***************************************************************************)
EXTENDS RepoUpdate, MutableLimiter_proof

USE LimiterAssumption, UpdateAssumption

----------------------------------------------------------------------------
(***************************************************************************)
(* An update has a context of the server, and a call of Acquire.           *)
(***************************************************************************)
Running == {"limited", "fetching", "fetched"}

\* The updates whose context is to be returned.
Owing == {u \in Updates : update[u].owes}

Types ==
  /\ update \in [Updates -> Update]
  /\ mu \in [Repos -> Updates \cup {Nobody}]
  /\ stop \in {"running", "canceled", "flagged", "stopped"}
  /\ upstream \in [Repos -> 0 .. MaxPushes] /\ disk \in [Repos -> 0 .. MaxPushes]

\* The WaitGroup counts the contexts that are to be returned.
CountInv ==
  /\ IsFiniteSet(Owing) /\ wg = Cardinality(Owing)
  /\ \A u \in Updates : update[u].owes => update[u].pc \in Running

\* Who has a context that Stop does not wait for was refused before.
StopInv ==
  /\ \A u \in Updates :
       update[u].pc \in Running /\ ~update[u].owes =>
         Flagged /\ update[u].pc = "limited" /\ call[u].canceled
  /\ stop = "stopped" => wg = 0

MutexInv == \A u \in Updates : update[u].pc \in InMutex => mu[update[u].repo] = u

(***************************************************************************)
(* Whoever shares the Once of a fetch called before the fetch looked at    *)
(* the code host.                                                          *)
(***************************************************************************)
VersionsInv ==
  /\ \A r \in Repos : disk[r] <= upstream[r]
  /\ \A u \in Updates :
       /\ update[u].wanted <= upstream[update[u].repo]
       /\ update[u].pc \in Running \cup {"renewed"} => update[u].once = "replaced"
       /\ update[u].once = "ok" => disk[update[u].repo] >= update[u].wanted
  /\ \A u, v \in Updates :
       update[u].pc = "fetched" /\ update[v].once = "replaced"
         /\ update[v].repo = update[u].repo
         => disk[update[u].repo] >= update[v].wanted

UpdateInv ==
  LimiterInv /\ Types /\ CountInv /\ StopInv /\ MutexInv /\ VersionsInv
----------------------------------------------------------------------------
(***************************************************************************)
(* The server uses the limiter as it is meant to be used: its steps are    *)
(* steps of the limiter and its callers.                                   *)
(***************************************************************************)
LEMMA UsesLimiter ==
  ASSUME LimiterInv, [UpdateNext]_updateVars
  PROVE  [LimiterNext]_limiterVars
<1> USE DEF updateVars
<1>l. CloneLimiter \in Limiters
  BY DEF CloneLimiter
<1>1. ASSUME NEW u \in Updates, BackgroundUpdate(u) \/ RefusedPlace(u) \/ UpdateEnds(u) \/ Timeout(u)
      PROVE  LimiterNext
  <2>1. Canceled \in BOOLEAN /\ u \in Calls /\ {u} \in SUBSET Calls
    BY DEF Canceled
  <2>2. QED
    BY <1>1, <1>l, <2>1 DEF BackgroundUpdate, RefusedPlace, UpdateEnds, Timeout, LimiterNext
<1>2. ASSUME LimiterStep
      PROVE  LimiterNext
  <2>1. \A c \in Others : c \in Calls /\ {c} \in SUBSET Calls
    BY DEF Others
  <2>2. QED
    BY <1>2, <1>l, <2>1 DEF LimiterStep, LimiterNext
<1>3. ASSUME StopCancels
      PROVE  [LimiterNext]_limiterVars
  <2> DEFINE S == {u \in Updates : call[u].pc # "idle"}
  <2>1. CancelAll(S) /\ UNCHANGED <<limit, cancelFuncs, acquire>> /\ S \in SUBSET Calls
    BY <1>3 DEF StopCancels
  <2>2. QED
    BY <2>1, CancelIsStep
<1>4. CASE UNCHANGED limiterVars
  BY <1>4
<1>5. ASSUME NEW u \in Updates,
             \/ \E r \in Repos : DoRepoUpdate(u, r)
             \/ OnceDo(u) \/ LockMu(u) \/ RenewOnce(u) \/ FetchStarts(u) \/ Fetch(u)
      PROVE  UNCHANGED limiterVars
  BY <1>5 DEF DoRepoUpdate, OnceDo, LockMu, RenewOnce, FetchStarts, Fetch
<1>6. ASSUME StopFlags \/ StopReturns \/ \E r \in Repos : Push(r)
      PROVE  UNCHANGED limiterVars
  BY <1>6 DEF StopFlags, StopReturns, Push
<1>7. QED
  BY <1>1, <1>2, <1>3, <1>4, <1>5, <1>6 DEF UpdateNext, UpdateStep

(***************************************************************************)
(* What the ways to move an update do.                                     *)
(***************************************************************************)
LEMMA GotoEffect ==
  ASSUME Types, NEW u \in Updates,
         NEW pc \in {"idle", "called", "locking", "done"} \cup InMutex, Goto(u, pc)
  PROVE  /\ update' \in [Updates -> Update] /\ update'[u].pc = pc
         /\ \A v \in Updates : /\ v # u => update'[v].pc = update[v].pc
                               /\ update'[v].repo = update[v].repo
                               /\ update'[v].once = update[v].once
                               /\ update'[v].wanted = update[v].wanted
                               /\ update'[v].owes = update[v].owes
BY DEF Goto, Types, Update

LEMMA SetOnceEffect ==
  ASSUME Types, NEW u \in Updates, NEW state \in {"current", "replaced", "ok", "failed"},
         NEW pc \in {"idle", "called", "locking", "done"} \cup InMutex,
         update[u].pc \notin {"idle", "done"}, SetOnce(u, state, pc)
  PROVE  /\ update' \in [Updates -> Update]
         /\ update'[u].pc = pc /\ update'[u].owes = FALSE /\ update'[u].once = state
         /\ \A v \in Updates :
              /\ v # u => update'[v].pc = update[v].pc /\ update'[v].owes = update[v].owes
              /\ update'[v].repo = update[v].repo
              /\ update'[v].wanted = update[v].wanted
              /\ update'[v].once = IF v \in Sharing(u) THEN state ELSE update[v].once
<1>1. u \in Sharing(u)
  BY DEF Sharing
<1> DEFINE own == [update[u] EXCEPT !.once = state, !.pc = pc, !.owes = FALSE]
           shared(v) == [update[v] EXCEPT !.once = state]
<1>2. /\ own \in Update /\ own.pc = pc /\ own.owes = FALSE /\ own.once = state
      /\ own.repo = update[u].repo /\ own.wanted = update[u].wanted
  <2>1. update[u] \in Update
    BY DEF Types
  <2>2. QED
    BY <2>1 DEF Update
<1>3. \A v \in Updates :
        /\ shared(v) \in Update /\ shared(v).once = state /\ shared(v).pc = update[v].pc
        /\ shared(v).owes = update[v].owes /\ shared(v).repo = update[v].repo
        /\ shared(v).wanted = update[v].wanted
  BY DEF Types, Update
<1>4. update' = [v \in Updates |-> IF v \notin Sharing(u) THEN update[v]
                                   ELSE IF v = u THEN own ELSE shared(v)]
  BY DEF SetOnce
<1> HIDE DEF own, shared
<1>5. update' \in [Updates -> Update]
  BY <1>2, <1>3, <1>4 DEF Types
<1>6. update'[u] = own
  BY <1>1, <1>4
<1>7. \A v \in Updates : v # u => update'[v] = IF v \in Sharing(u) THEN shared(v) ELSE update[v]
  BY <1>4
<1>8. QED
  BY <1>1, <1>2, <1>3, <1>5, <1>6, <1>7

\* A new call of doRepoUpdate.
LEMMA CallEffect ==
  ASSUME Types, NEW u \in Updates, NEW r \in Repos, DoRepoUpdate(u, r)
  PROVE  /\ update' \in [Updates -> Update]
         /\ update'[u].pc = "called" /\ update'[u].repo = r /\ update'[u].once = "current"
         /\ update'[u].wanted = upstream[r] /\ update'[u].owes = FALSE
         /\ \A v \in Updates : v # u => update'[v] = update[v]
<1> DEFINE new == [NoUpdate EXCEPT !.pc = "called", !.repo = r, !.wanted = upstream[r]]
<1>1. /\ new \in Update /\ new.pc = "called" /\ new.repo = r /\ new.once = "current"
      /\ new.wanted = upstream[r] /\ new.owes = FALSE
  BY DEF NoUpdate, Update, Types
<1>2. update' = [update EXCEPT ![u] = new]
  BY DEF DoRepoUpdate
<1> HIDE DEF new
<1>3. QED
  BY <1>1, <1>2 DEF Types

LEMMA ContextEffect ==
  ASSUME Types, NEW u \in Updates, ServerContext(u, "limited")
  PROVE  /\ update' \in [Updates -> Update]
         /\ update'[u].pc = "limited" /\ update'[u].owes = ~Flagged
         /\ update'[u].repo = update[u].repo /\ update'[u].once = update[u].once
         /\ update'[u].wanted = update[u].wanted
         /\ \A v \in Updates : v # u => update'[v] = update[v]
         /\ wg' = IF Flagged THEN wg ELSE wg + 1
<1> DEFINE f == ~Flagged
           new == [update[u] EXCEPT !.pc = "limited", !.owes = f]
<1>0. f \in BOOLEAN
  BY DEF Flagged
<1> HIDE DEF f
<1>1. /\ new \in Update /\ new.pc = "limited" /\ new.owes = f
      /\ new.repo = update[u].repo /\ new.once = update[u].once
      /\ new.wanted = update[u].wanted
  BY <1>0 DEF Update, Types, InMutex
<1>2. update' = [update EXCEPT ![u] = new] /\ wg' = IF Flagged THEN wg ELSE wg + 1
  BY DEF ServerContext, f
<1> HIDE DEF new
<1>3. QED
  BY <1>1, <1>2 DEF Types, f

(***************************************************************************)
(* A context that is done stays done, while its update does nothing.       *)
(***************************************************************************)
LEMMA StaysCanceled ==
  ASSUME LimiterInv, NEW u \in Updates, call[u].canceled,
         \/ UNCHANGED call \/ StopCancels \/ LimiterStep
         \/ \E v \in Updates : Timeout(v)
         \/ \E v \in Updates : v # u /\ (BackgroundUpdate(v) \/ RefusedPlace(v) \/ UpdateEnds(v))
  PROVE  call'[u].canceled
<1>1. call \in [Calls -> Call] /\ u \in Calls /\ CloneLimiter \in Limiters
  BY DEF LimiterInv, LimiterTypeOK, CloneLimiter
<1>2. ASSUME NEW S, CancelAll(S)
      PROVE  call'[u].canceled
  <2>1. call'[u] = IF u \in S THEN [call[u] EXCEPT !.canceled = TRUE] ELSE call[u]
    BY <1>1, <1>2 DEF CancelAll
  <2>2. QED
    BY <1>1, <2>1 DEF Call
<1>3. ASSUME NEW c \in Calls, c # u, NEW x, call' = [call EXCEPT ![c] = x]
      PROVE  call'[u].canceled
  BY <1>1, <1>3
<1>4. ASSUME NEW c \in Calls, c # u, AcquireFails(c) \/ Release(c)
      PROVE  call'[u].canceled
  BY <1>3, <1>4 DEF AcquireFails, Release
<1>5. ASSUME NEW c \in Calls, c # u, NEW b, Acquire(c, CloneLimiter, b)
      PROVE  call'[u].canceled
  BY <1>3, <1>5 DEF Acquire
<1>6. ASSUME Grant(CloneLimiter)
      PROVE  call'[u].canceled
  <2>1. PICK c : call' = [call EXCEPT ![c].pc = "held"]
    BY <1>6 DEF Grant
  <2>2. QED
    BY <1>1, <2>1 DEF Call
<1>7. ASSUME NEW n, SetLimit(CloneLimiter, n)
      PROVE  call'[u].canceled
  BY <1>2, <1>7 DEF SetLimit
<1>8. ASSUME LimiterStep
      PROVE  call'[u].canceled
  <2>1. \A c \in Others : c \in Calls /\ c # u
    BY DEF Others
  <2>2. QED
    BY <1>2, <1>4, <1>5, <1>6, <1>7, <1>8, <2>1 DEF LimiterStep, CancelParents
<1>9. ASSUME NEW v \in Updates, v # u, BackgroundUpdate(v) \/ RefusedPlace(v) \/ UpdateEnds(v)
      PROVE  call'[u].canceled
  BY <1>4, <1>5, <1>9 DEF BackgroundUpdate, RefusedPlace, UpdateEnds
<1>10. QED
  BY <1>2, <1>8, <1>9 DEF StopCancels, Timeout, CancelParents

\* The WaitGroup while a context is handed out, or returned.
LEMMA OneMoreOwes ==
  ASSUME CountInv, NEW u \in Updates, ~update[u].owes, wg' = wg + 1, Owing' = Owing \cup {u}
  PROVE  IsFiniteSet(Owing') /\ wg' = Cardinality(Owing')
<1>1. u \notin Owing
  BY DEF Owing
<1>2. QED
  BY <1>1, FS_AddElement DEF CountInv

LEMMA OneLessOwes ==
  ASSUME CountInv, NEW u \in Updates, CancelContext(u), Owing' = Owing \ {u}
  PROVE  /\ IsFiniteSet(Owing') /\ wg' = Cardinality(Owing')
         /\ wg = 0 => wg' = 0
<1>1. CASE update[u].owes
  <2>1. u \in Owing
    BY <1>1 DEF Owing
  <2>2. wg' = wg - 1
    BY <1>1 DEF CancelContext
  <2>3. IsFiniteSet(Owing') /\ wg' = Cardinality(Owing')
    BY <2>1, <2>2, FS_RemoveElement DEF CountInv
  <2>4. wg # 0
    BY <2>1, FS_EmptySet DEF CountInv
  <2>5. QED
    BY <2>3, <2>4
<1>2. CASE ~update[u].owes
  <2>1. Owing' = Owing /\ wg' = wg
    BY <1>2 DEF Owing, CancelContext
  <2>2. QED
    BY <2>1 DEF CountInv
<1>3. QED
  BY <1>1, <1>2

(***************************************************************************)
(* Steps of an update that move it without touching its context, its Once  *)
(* and the mutex, and steps of the others.                                 *)
(***************************************************************************)
StateInv == Types /\ CountInv /\ StopInv /\ MutexInv /\ VersionsInv

LEMMA MovesKeep ==
  ASSUME StateInv, NEW u \in Updates, UNCHANGED <<mu, wg, stop, upstream, disk, call>>,
         NEW pc \in {"idle", "called", "locking", "done"} \cup InMutex, Goto(u, pc),
         \/ update[u].pc \notin InMutex /\ pc \notin InMutex
         \/ update[u].pc = "limited" /\ pc = "fetching" /\ ~call[u].canceled
  PROVE  StateInv'
<1> USE DEF StateInv
<1>1. /\ update' \in [Updates -> Update] /\ update'[u].pc = pc
      /\ \A v \in Updates : /\ v # u => update'[v].pc = update[v].pc
                            /\ update'[v].repo = update[v].repo
                            /\ update'[v].once = update[v].once
                            /\ update'[v].wanted = update[v].wanted
                            /\ update'[v].owes = update[v].owes
  BY GotoEffect
<1>2. Types'
  BY <1>1 DEF Types
<1>3. CountInv'
  <2>1. Owing' = Owing
    BY <1>1 DEF Owing
  <2>2. QED
    BY <1>1, <2>1 DEF CountInv, Running, InMutex
<1>4. StopInv'
  BY <1>1 DEF StopInv, Running, InMutex, Flagged
<1>5. MutexInv'
  BY <1>1 DEF MutexInv, InMutex
<1>6. VersionsInv'
  BY <1>1 DEF VersionsInv, Running, InMutex
<1>7. QED
  BY <1>2, <1>3, <1>4, <1>5, <1>6

\* A step after which only contexts may be done that were not.
LEMMA OthersKeep ==
  ASSUME StateInv, LimiterInv, UNCHANGED <<update, mu, wg, stop, upstream, disk>>,
         \/ UNCHANGED call \/ LimiterStep \/ \E v \in Updates : Timeout(v)
  PROVE  StateInv'
<1> USE DEF StateInv
<1>1. \A u \in Updates : call[u].canceled => call'[u].canceled
  BY StaysCanceled
<1>2. Owing' = Owing
  BY DEF Owing
<1>3. Types' /\ CountInv' /\ MutexInv' /\ VersionsInv'
  BY <1>2 DEF Types, CountInv, MutexInv, VersionsInv
<1>4. StopInv'
  BY <1>1 DEF StopInv, Flagged
<1>5. QED
  BY <1>3, <1>4

LEMMA CallKeeps ==
  ASSUME StateInv, NEW u \in Updates, NEW r \in Repos, DoRepoUpdate(u, r)
  PROVE  StateInv'
<1> USE DEF StateInv
<1>1. /\ update[u].pc \in {"idle", "done"}
      /\ UNCHANGED <<mu, wg, stop, upstream, disk, call>>
  BY DEF DoRepoUpdate, serverVars, dataVars, limiterVars
<1>2. /\ update' \in [Updates -> Update]
      /\ update'[u].pc = "called" /\ update'[u].repo = r /\ update'[u].once = "current"
      /\ update'[u].wanted = upstream[r] /\ update'[u].owes = FALSE
      /\ \A v \in Updates : v # u => update'[v] = update[v]
  BY CallEffect
<1>3. Types'
  BY <1>1, <1>2 DEF Types
<1>4. CountInv'
  <2>1. Owing' = Owing
    BY <1>1, <1>2 DEF Owing, CountInv, Running
  <2>2. QED
    BY <1>1, <1>2, <2>1 DEF CountInv, Running
<1>5. StopInv'
  BY <1>1, <1>2 DEF StopInv, Running, Flagged
<1>6. MutexInv'
  BY <1>1, <1>2 DEF MutexInv, InMutex
<1>7. VersionsInv'
  <2>1. \A x \in Repos : upstream[x] \in Nat /\ upstream[x] <= upstream[x]
    BY DEF Types
  <2>2. QED
    BY <1>1, <1>2, <2>1 DEF VersionsInv, Running
<1>8. QED
  BY <1>3, <1>4, <1>5, <1>6, <1>7

LEMMA LockKeeps ==
  ASSUME StateInv, NEW u \in Updates, LockMu(u)
  PROVE  StateInv'
<1> USE DEF StateInv
<1>1. /\ update[u].pc = "locking" /\ mu[update[u].repo] = Nobody
      /\ mu' = [mu EXCEPT ![update[u].repo] = u]
      /\ Goto(u, "locked") /\ UNCHANGED <<wg, stop, upstream, disk, call>>
  BY DEF LockMu, serverVars, dataVars, limiterVars
<1>2. /\ update' \in [Updates -> Update] /\ update'[u].pc = "locked"
      /\ \A v \in Updates : /\ v # u => update'[v].pc = update[v].pc
                            /\ update'[v].repo = update[v].repo
                            /\ update'[v].once = update[v].once
                            /\ update'[v].wanted = update[v].wanted
                            /\ update'[v].owes = update[v].owes
  BY <1>1, GotoEffect DEF InMutex
<1>r. \A v \in Updates : update[v].repo \in Repos
  BY DEF Types, Update
<1>3. Types'
  BY <1>1, <1>2, <1>r DEF Types
<1>4. CountInv'
  <2>1. Owing' = Owing
    BY <1>2 DEF Owing
  <2>2. QED
    BY <1>1, <1>2, <2>1 DEF CountInv, Running
<1>5. StopInv'
  BY <1>1, <1>2 DEF StopInv, Running, Flagged
<1>6. MutexInv'
  <2>1. \A v \in Updates : v # u /\ update[v].pc \in InMutex => update[v].repo # update[u].repo
    BY <1>1 DEF MutexInv
  <2>2. \A x \in Repos : mu'[x] = IF x = update[u].repo THEN u ELSE mu[x]
    BY <1>1, <1>r DEF Types
  <2>3. QED
    BY <1>2, <1>r, <2>1, <2>2 DEF MutexInv
<1>7. VersionsInv'
  BY <1>1, <1>2 DEF VersionsInv, Running
<1>8. QED
  BY <1>3, <1>4, <1>5, <1>6, <1>7

\* Nobody else is in the mutex of the repository.
LEMMA AloneInMutex ==
  ASSUME MutexInv, NEW u \in Updates, update[u].pc \in InMutex,
         NEW v \in Updates, update[v].pc \in InMutex, update[v].repo = update[u].repo
  PROVE  v = u
BY DEF MutexInv

LEMMA RenewKeeps ==
  ASSUME StateInv, NEW u \in Updates, RenewOnce(u)
  PROVE  StateInv'
<1> USE DEF StateInv
<1>1. /\ update[u].pc = "locked" /\ SetOnce(u, "replaced", "renewed")
      /\ UNCHANGED <<mu, wg, stop, upstream, disk, call>>
  BY DEF RenewOnce, serverVars, dataVars, limiterVars
<1>2. /\ update' \in [Updates -> Update]
      /\ update'[u].pc = "renewed" /\ update'[u].owes = FALSE /\ update'[u].once = "replaced"
      /\ \A v \in Updates :
           /\ v # u => update'[v].pc = update[v].pc /\ update'[v].owes = update[v].owes
           /\ update'[v].repo = update[v].repo
           /\ update'[v].wanted = update[v].wanted
           /\ update'[v].once = IF v \in Sharing(u) THEN "replaced" ELSE update[v].once
  BY <1>1, SetOnceEffect DEF InMutex
<1>3. Types'
  BY <1>1, <1>2 DEF Types
<1>4. CountInv'
  <2>1. Owing' = Owing
    BY <1>1, <1>2 DEF Owing, CountInv, Running
  <2>2. QED
    BY <1>1, <1>2, <2>1 DEF CountInv, Running
<1>5. StopInv'
  BY <1>1, <1>2 DEF StopInv, Running, Flagged
<1>6. MutexInv'
  BY <1>1, <1>2 DEF MutexInv, InMutex
<1>7. VersionsInv'
  <2>1. ASSUME NEW x \in Updates, NEW v \in Updates, update'[x].pc = "fetched",
               update'[v].once = "replaced", update'[v].repo = update'[x].repo
        PROVE  disk'[update'[x].repo] >= update'[v].wanted
    <3>1. update[x].pc = "fetched" /\ x # u /\ update[v].repo = update[x].repo
      BY <1>2, <2>1
    <3>2. update[u].repo # update[x].repo
      BY <1>1, <3>1, AloneInMutex DEF InMutex
    <3>3. v \notin Sharing(u)
      BY <3>1, <3>2 DEF Sharing
    <3>4. QED
      BY <1>1, <1>2, <2>1, <3>1, <3>3 DEF VersionsInv
  <2>2. ASSUME NEW v \in Updates
        PROVE  /\ update'[v].wanted <= upstream'[update'[v].repo]
               /\ update'[v].pc \in Running \cup {"renewed"} => update'[v].once = "replaced"
               /\ update'[v].once = "ok" => disk'[update'[v].repo] >= update'[v].wanted
    BY <1>1, <1>2 DEF VersionsInv
  <2>3. \A x \in Repos : disk'[x] <= upstream'[x]
    BY <1>1 DEF VersionsInv
  <2>4. QED
    BY <2>1, <2>2, <2>3 DEF VersionsInv
<1>8. QED
  BY <1>3, <1>4, <1>5, <1>6, <1>7

LEMMA BackgroundKeeps ==
  ASSUME StateInv, LimiterInv, NEW u \in Updates, BackgroundUpdate(u)
  PROVE  StateInv'
<1> USE DEF StateInv
<1>1. /\ update[u].pc = "renewed" /\ ServerContext(u, "limited")
      /\ Acquire(u, CloneLimiter, Canceled)
      /\ UNCHANGED <<mu, stop, upstream, disk>>
  BY DEF BackgroundUpdate, dataVars
<1>2. /\ update' \in [Updates -> Update]
      /\ update'[u].pc = "limited" /\ update'[u].owes = ~Flagged
      /\ update'[u].repo = update[u].repo /\ update'[u].once = update[u].once
      /\ update'[u].wanted = update[u].wanted
      /\ \A v \in Updates : v # u => update'[v] = update[v]
      /\ wg' = IF Flagged THEN wg ELSE wg + 1
  BY <1>1, ContextEffect
<1>3. Types'
  BY <1>1, <1>2 DEF Types
<1>4. ~update[u].owes
  BY <1>1 DEF CountInv, Running
<1>5. CountInv'
  <2>1. CASE Flagged
    <3>1. Owing' = Owing /\ wg' = wg
      BY <1>2, <1>4, <2>1 DEF Owing
    <3>2. QED
      BY <1>2, <2>1, <3>1 DEF CountInv, Running
  <2>2. CASE ~Flagged
    <3>1. Owing' = Owing \cup {u} /\ wg' = wg + 1
      BY <1>2, <1>4, <2>2 DEF Owing
    <3>2. IsFiniteSet(Owing') /\ wg' = Cardinality(Owing')
      BY <1>4, <3>1, OneMoreOwes
    <3>3. QED
      BY <1>2, <3>2 DEF CountInv, Running
  <2>3. QED
    BY <2>1, <2>2
<1>6. StopInv'
  <2>1. call'[u].canceled = Canceled
    BY <1>1 DEF Acquire, LimiterInv, LimiterTypeOK
  <2>2. Flagged => Canceled
    BY DEF Flagged, Canceled
  <2>3. \A v \in Updates : v # u /\ call[v].canceled => call'[v].canceled
    BY StaysCanceled
  <2>4. Flagged' = Flagged /\ (stop = "stopped" => Flagged)
    BY <1>1 DEF Flagged
  <2>5. QED
    BY <1>1, <1>2, <2>1, <2>2, <2>3, <2>4 DEF StopInv
<1>7. MutexInv'
  BY <1>1, <1>2 DEF MutexInv, InMutex
<1>8. VersionsInv'
  BY <1>1, <1>2 DEF VersionsInv, Running
<1>9. QED
  BY <1>3, <1>5, <1>6, <1>7, <1>8

LEMMA FetchKeeps ==
  ASSUME StateInv, NEW u \in Updates, Fetch(u)
  PROVE  StateInv'
<1> USE DEF StateInv
<1>1. /\ update[u].pc = "fetching"
      /\ disk' = [disk EXCEPT ![update[u].repo] = upstream[update[u].repo]]
      /\ Goto(u, "fetched") /\ UNCHANGED <<mu, wg, stop, upstream, call>>
  BY DEF Fetch, serverVars, limiterVars
<1>2. /\ update' \in [Updates -> Update] /\ update'[u].pc = "fetched"
      /\ \A v \in Updates : /\ v # u => update'[v].pc = update[v].pc
                            /\ update'[v].repo = update[v].repo
                            /\ update'[v].once = update[v].once
                            /\ update'[v].wanted = update[v].wanted
                            /\ update'[v].owes = update[v].owes
  BY <1>1, GotoEffect DEF InMutex
<1>r. \A v \in Updates : update[v].repo \in Repos /\ update[v].wanted \in Nat
  BY DEF Types, Update
<1>3. Types'
  BY <1>1, <1>2, <1>r DEF Types
<1>4. CountInv'
  <2>1. Owing' = Owing
    BY <1>2 DEF Owing
  <2>2. QED
    BY <1>1, <1>2, <2>1 DEF CountInv, Running
<1>5. StopInv'
  BY <1>1, <1>2 DEF StopInv, Running, Flagged
<1>6. MutexInv'
  BY <1>1, <1>2 DEF MutexInv, InMutex
<1>7. VersionsInv'
  <2>1. \A x \in Repos : /\ disk'[x] = IF x = update[u].repo THEN upstream[x] ELSE disk[x]
                         /\ disk[x] \in Nat /\ upstream[x] \in Nat
    BY <1>1, <1>r DEF Types
  <2>2. \A x \in Repos : disk[x] <= disk'[x] /\ disk'[x] <= upstream'[x]
    BY <1>1, <2>1 DEF VersionsInv
  <2>3. ASSUME NEW v \in Updates
        PROVE  /\ update'[v].wanted <= upstream'[update'[v].repo]
               /\ update'[v].pc \in Running \cup {"renewed"} => update'[v].once = "replaced"
    BY <1>1, <1>2 DEF VersionsInv, Running
  <2>4. ASSUME NEW v \in Updates, update'[v].once = "ok"
        PROVE  disk'[update'[v].repo] >= update'[v].wanted
    <3>1. disk[update[v].repo] >= update[v].wanted
      BY <1>2, <2>4 DEF VersionsInv
    <3>2. QED
      BY <1>2, <1>r, <2>1, <2>2, <3>1
  <2>5. ASSUME NEW x \in Updates, NEW v \in Updates, update'[x].pc = "fetched",
               update'[v].once = "replaced", update'[v].repo = update'[x].repo
        PROVE  disk'[update'[x].repo] >= update'[v].wanted
    <3>1. update[v].once = "replaced" /\ update[v].repo = update[x].repo
      BY <1>2, <2>5
    <3>2. CASE update[x].repo = update[u].repo
      <4>1. update[v].wanted <= upstream[update[v].repo]
        BY DEF VersionsInv
      <4>2. QED
        BY <1>2, <1>r, <2>1, <3>1, <3>2, <4>1
    <3>3. CASE update[x].repo # update[u].repo
      <4>1. update[x].pc = "fetched"
        BY <1>2, <2>5, <3>3
      <4>2. disk[update[x].repo] >= update[v].wanted
        BY <3>1, <4>1 DEF VersionsInv
      <4>3. QED
        BY <1>2, <1>r, <2>1, <3>3, <4>2
    <3>4. QED
      BY <3>2, <3>3
  <2>6. QED
    BY <2>2, <2>3, <2>4, <2>5 DEF VersionsInv
<1>8. QED
  BY <1>3, <1>4, <1>5, <1>6, <1>7

(***************************************************************************)
(* The end of an update.  Those who share its Once called before it        *)
(* fetched; if the fetch succeeded, they find what they wanted.            *)
(***************************************************************************)
LEMMA EndKeeps ==
  ASSUME StateInv, LimiterInv, NEW u \in Updates, RefusedPlace(u) \/ UpdateEnds(u)
  PROVE  StateInv'
<1> USE DEF StateInv
<1>1. PICK ok \in BOOLEAN : (ok => update[u].pc = "fetched") /\ Ended(u, ok)
  BY DEF RefusedPlace, UpdateEnds
<1> DEFINE state == IF ok THEN "ok" ELSE "failed"
<1>2. /\ update[u].pc \in Running /\ SetOnce(u, state, "done") /\ CancelContext(u)
      /\ mu' = [mu EXCEPT ![update[u].repo] = Nobody]
      /\ UNCHANGED <<stop, upstream, disk>>
  BY <1>1 DEF RefusedPlace, UpdateEnds, Ended, Running, dataVars
<1>s. state \in {"ok", "failed"} /\ (state = "ok" => update[u].pc = "fetched")
  BY <1>1
<1> HIDE DEF state
<1>3. /\ update' \in [Updates -> Update]
      /\ update'[u].pc = "done" /\ update'[u].owes = FALSE /\ update'[u].once = state
      /\ \A v \in Updates :
           /\ v # u => update'[v].pc = update[v].pc /\ update'[v].owes = update[v].owes
           /\ update'[v].repo = update[v].repo
           /\ update'[v].wanted = update[v].wanted
           /\ update'[v].once = IF v \in Sharing(u) THEN state ELSE update[v].once
  <2>1. /\ state \in {"current", "replaced", "ok", "failed"}
        /\ "done" \in {"idle", "called", "locking", "done"} \cup InMutex
        /\ update[u].pc \notin {"idle", "done"}
    BY <1>2, <1>s DEF Running
  <2>2. QED
    BY <1>2, <2>1, SetOnceEffect
<1>r. \A v \in Updates : update[v].repo \in Repos
  BY DEF Types, Update
<1>4. Types'
  BY <1>2, <1>3, <1>r DEF Types
<1>5. CountInv' /\ (wg = 0 => wg' = 0)
  <2>1. Owing' = Owing \ {u}
    BY <1>3 DEF Owing
  <2>2. IsFiniteSet(Owing') /\ wg' = Cardinality(Owing') /\ (wg = 0 => wg' = 0)
    BY <1>2, <2>1, OneLessOwes
  <2>3. QED
    BY <1>3, <2>2 DEF CountInv
<1>6. StopInv'
  <2>1. \A v \in Updates : v # u /\ call[v].canceled => call'[v].canceled
    BY StaysCanceled
  <2>2. Flagged' = Flagged
    BY <1>2 DEF Flagged
  <2>3. QED
    BY <1>2, <1>3, <1>5, <2>1, <2>2 DEF StopInv, Running
<1>m. \A v \in Updates : v # u /\ update[v].pc \in InMutex => update[v].repo # update[u].repo
  BY <1>2, AloneInMutex DEF InMutex, Running
<1>7. MutexInv'
  <2>1. \A x \in Repos : x # update[u].repo => mu'[x] = mu[x]
    BY <1>2 DEF Types
  <2>2. QED
    BY <1>3, <1>m, <1>r, <2>1 DEF MutexInv, InMutex
<1>8. VersionsInv'
  <2>1. update[u].once = "replaced"
    BY <1>2 DEF VersionsInv
  <2>2. ASSUME NEW v \in Updates, update'[v].pc \in Running \cup {"renewed"}
        PROVE  update'[v].once = "replaced"
    <3>1. v # u /\ update[v].pc \in Running \cup {"renewed"}
      BY <1>3, <2>2 DEF Running
    <3>2. v \notin Sharing(u)
      BY <1>m, <3>1 DEF Sharing, Running, InMutex
    <3>3. QED
      BY <1>3, <3>1, <3>2 DEF VersionsInv
  <2>3. ASSUME NEW v \in Updates, update'[v].once = "ok"
        PROVE  disk'[update'[v].repo] >= update'[v].wanted
    <3>1. CASE v \in Sharing(u)
      <4>1. /\ update[u].pc = "fetched" /\ update[v].once = "replaced"
            /\ update[v].repo = update[u].repo
        BY <1>3, <1>s, <2>1, <2>3, <3>1 DEF Sharing
      <4>2. QED
        BY <1>2, <1>3, <4>1 DEF VersionsInv
    <3>2. CASE v \notin Sharing(u)
      BY <1>2, <1>3, <2>3, <3>2 DEF VersionsInv
    <3>3. QED
      BY <3>1, <3>2
  <2>4. ASSUME NEW x \in Updates, NEW v \in Updates, update'[x].pc = "fetched",
               update'[v].once = "replaced", update'[v].repo = update'[x].repo
        PROVE  disk'[update'[x].repo] >= update'[v].wanted
    <3>1. /\ update[x].pc = "fetched" /\ update[v].once = "replaced"
          /\ update[v].repo = update[x].repo
      BY <1>3, <1>s, <2>4
    <3>2. QED
      BY <1>2, <1>3, <3>1 DEF VersionsInv
  <2>5. \A v \in Updates : update'[v].wanted <= upstream'[update'[v].repo]
    BY <1>2, <1>3 DEF VersionsInv
  <2>6. \A x \in Repos : disk'[x] <= upstream'[x]
    BY <1>2 DEF VersionsInv
  <2>7. QED
    BY <2>2, <2>3, <2>4, <2>5, <2>6 DEF VersionsInv
<1>9. QED
  BY <1>4, <1>5, <1>6, <1>7, <1>8

LEMMA StopKeeps ==
  ASSUME StateInv, LimiterInv, StopCancels \/ StopFlags \/ StopReturns
  PROVE  StateInv'
<1> USE DEF StateInv
<1>1. /\ UNCHANGED <<update, mu, wg, upstream, disk>>
      /\ stop' \in {"canceled", "flagged", "stopped"} /\ (stop' = "stopped" => wg' = 0)
      /\ \/ stop = "running" /\ stop' = "canceled"
         \/ stop \in {"canceled", "flagged"} /\ stop' \in {"flagged", "stopped"}
  BY DEF StopCancels, StopFlags, StopReturns, dataVars
<1>2. \A u \in Updates : call[u].canceled => call'[u].canceled
  <2>1. UNCHANGED call \/ StopCancels
    BY DEF StopFlags, StopReturns, limiterVars
  <2>2. QED
    BY <2>1, StaysCanceled
<1>3. Owing' = Owing
  BY <1>1 DEF Owing
<1>4. Types' /\ CountInv' /\ MutexInv' /\ VersionsInv'
  BY <1>1, <1>3 DEF Types, CountInv, MutexInv, VersionsInv
<1>5. Flagged => Flagged'
  BY <1>1 DEF Flagged
<1>6. StopInv'
  BY <1>1, <1>2, <1>5 DEF StopInv
<1>7. QED
  BY <1>4, <1>6

LEMMA PushKeeps ==
  ASSUME StateInv, NEW r \in Repos, Push(r)
  PROVE  StateInv'
<1> USE DEF StateInv
<1>1. /\ UNCHANGED <<update, mu, wg, stop, disk, call>>
      /\ upstream[r] < MaxPushes /\ upstream' = [upstream EXCEPT ![r] = upstream[r] + 1]
  BY DEF Push, serverVars, limiterVars
<1>2. \A x \in Repos : /\ upstream[x] \in 0 .. MaxPushes /\ disk[x] \in Nat
                       /\ upstream'[x] = IF x = r THEN upstream[x] + 1 ELSE upstream[x]
  BY <1>1 DEF Types
<1>3. \A x \in Repos : upstream[x] <= upstream'[x]
  BY <1>2
<1>4. \A u \in Updates : update[u].repo \in Repos /\ update[u].wanted \in Nat
  BY DEF Types, Update
<1>5. Owing' = Owing
  BY <1>1 DEF Owing
<1>6. Types'
  <2>1. upstream[r] + 1 \in 0 .. MaxPushes
    BY <1>1, <1>2
  <2>2. QED
    BY <1>1, <2>1 DEF Types
<1>7. CountInv' /\ StopInv' /\ MutexInv'
  BY <1>1, <1>5 DEF CountInv, StopInv, MutexInv, Flagged
<1>8. VersionsInv'
  <2>1. \A u \in Updates : update[u].wanted <= upstream'[update[u].repo]
    BY <1>2, <1>3, <1>4 DEF VersionsInv
  <2>2. \A x \in Repos : disk[x] <= upstream'[x]
    BY <1>2, <1>3 DEF VersionsInv
  <2>3. QED
    BY <1>1, <2>1, <2>2 DEF VersionsInv
<1>9. QED
  BY <1>6, <1>7, <1>8
----------------------------------------------------------------------------
LEMMA UpdateStarts ==
  UpdateInit => UpdateInv
<1> SUFFICES ASSUME UpdateInit
             PROVE  UpdateInv
  OBVIOUS
<1>1. LimiterInv
  BY LimiterStarts DEF UpdateInit
<1>2. /\ NoUpdate \in Update /\ NoUpdate.pc = "idle" /\ NoUpdate.once = "current"
      /\ NoUpdate.wanted = 0 /\ NoUpdate.owes = FALSE /\ NoUpdate.repo \in Repos
  BY DEF NoUpdate, Update
<1>3. \A u \in Updates : update[u] = NoUpdate
  BY DEF UpdateInit
<1>4. \A r \in Repos : upstream[r] = 0 /\ disk[r] = 0
  BY DEF UpdateInit
<1>5. Types
  BY <1>2 DEF Types, UpdateInit
<1>6. CountInv
  <2>1. Owing = {}
    BY <1>2, <1>3 DEF Owing
  <2>2. QED
    BY <1>2, <1>3, <2>1, FS_EmptySet DEF CountInv, UpdateInit
<1>7. StopInv /\ MutexInv
  BY <1>2, <1>3 DEF StopInv, MutexInv, InMutex, Running, UpdateInit
<1>8. VersionsInv
  BY <1>2, <1>3, <1>4 DEF VersionsInv, Running
<1>9. QED
  BY <1>1, <1>5, <1>6, <1>7, <1>8 DEF UpdateInv

LEMMA UpdateStepKeeps ==
  ASSUME UpdateInv, [UpdateNext]_updateVars
  PROVE  UpdateInv'
<1>1. LimiterInv /\ StateInv
  BY DEF UpdateInv, StateInv
<1>2. LimiterInv'
  BY <1>1, UsesLimiter, LimiterStepKeeps
<1>3. StateInv'
  <2>1. ASSUME NEW u \in Updates, NEW r \in Repos, DoRepoUpdate(u, r)
        PROVE  StateInv'
    BY <1>1, <2>1, CallKeeps
  <2>2. ASSUME NEW u \in Updates, OnceDo(u)
        PROVE  StateInv'
    <3>1. /\ update[u].pc = "called" /\ UNCHANGED <<mu, wg, stop, upstream, disk, call>>
          /\ Goto(u, "locking") \/ Goto(u, "done")
      BY <2>2 DEF OnceDo, serverVars, dataVars, limiterVars
    <3>2. update[u].pc \notin InMutex /\ "locking" \notin InMutex /\ "done" \notin InMutex
      BY <3>1 DEF InMutex
    <3>3. QED
      BY <1>1, <3>1, <3>2, MovesKeep
  <2>3. ASSUME NEW u \in Updates, LockMu(u)
        PROVE  StateInv'
    BY <1>1, <2>3, LockKeeps
  <2>4. ASSUME NEW u \in Updates, RenewOnce(u)
        PROVE  StateInv'
    BY <1>1, <2>4, RenewKeeps
  <2>5. ASSUME NEW u \in Updates, BackgroundUpdate(u)
        PROVE  StateInv'
    BY <1>1, <2>5, BackgroundKeeps
  <2>6. ASSUME NEW u \in Updates, FetchStarts(u)
        PROVE  StateInv'
    <3>1. /\ update[u].pc = "limited" /\ ~call[u].canceled /\ Goto(u, "fetching")
          /\ UNCHANGED <<mu, wg, stop, upstream, disk, call>>
      BY <2>6 DEF FetchStarts, serverVars, dataVars, limiterVars
    <3>2. "fetching" \in {"idle", "called", "locking", "done"} \cup InMutex
      BY DEF InMutex
    <3>3. QED
      BY <1>1, <3>1, <3>2, MovesKeep
  <2>7. ASSUME NEW u \in Updates, Fetch(u)
        PROVE  StateInv'
    BY <1>1, <2>7, FetchKeeps
  <2>8. ASSUME NEW u \in Updates, RefusedPlace(u) \/ UpdateEnds(u)
        PROVE  StateInv'
    BY <1>1, <2>8, EndKeeps
  <2>9. ASSUME NEW u \in Updates, Timeout(u)
        PROVE  StateInv'
    <3>1. UNCHANGED <<update, mu, wg, stop, upstream, disk>>
      BY <2>9 DEF Timeout, serverVars, dataVars
    <3>2. QED
      BY <1>1, <2>9, <3>1, OthersKeep
  <2>10. ASSUME StopCancels \/ StopFlags \/ StopReturns
         PROVE  StateInv'
    BY <1>1, <2>10, StopKeeps
  <2>11. ASSUME NEW r \in Repos, Push(r)
         PROVE  StateInv'
    BY <1>1, <2>11, PushKeeps
  <2>12. ASSUME LimiterStep
         PROVE  StateInv'
    <3>1. UNCHANGED <<update, mu, wg, stop, upstream, disk>>
      BY <2>12 DEF LimiterStep, serverVars, dataVars
    <3>2. QED
      BY <1>1, <2>12, <3>1, OthersKeep
  <2>13. ASSUME UNCHANGED updateVars
         PROVE  StateInv'
    <3>1. UNCHANGED <<update, mu, wg, stop, upstream, disk, call>>
      BY <2>13 DEF updateVars, serverVars, dataVars, limiterVars
    <3>2. QED
      BY <1>1, <3>1, OthersKeep
  <2>14. QED
    BY <2>1, <2>2, <2>3, <2>4, <2>5, <2>6, <2>7, <2>8, <2>9, <2>10, <2>11, <2>12, <2>13
    DEF UpdateNext, UpdateStep
<1>4. QED
  BY <1>2, <1>3 DEF UpdateInv, StateInv

\* The inductive invariant holds in every state of the server.
THEOREM UpdateInvariant ==
  UpdateSpec => []UpdateInv
<1>1. UpdateInit => UpdateInv
  BY UpdateStarts
<1>2. UpdateInv /\ [UpdateNext]_updateVars => UpdateInv'
  BY UpdateStepKeeps
<1>3. QED
  BY <1>1, <1>2, PTL DEF UpdateSpec
----------------------------------------------------------------------------
(***************************************************************************)
(* The limiter of the server never has a holder that it does not count,    *)
(* however updates, clones, timeouts and Stop come together.               *)
(***************************************************************************)
THEOREM UpdatesCounted ==
  UpdateSpec => []HoldersListed
<1>1. UpdateInv => HoldersListed
  BY DEF UpdateInv, LimiterInv
<1>2. QED
  BY <1>1, UpdateInvariant, PTL

\* "Prevent multiple updates in parallel" (doBackgroundRepoUpdate).
THEOREM FetchesAlone ==
  UpdateSpec => []OneFetch
<1>1. UpdateInv => OneFetch
  BY DEF UpdateInv, MutexInv, OneFetch
<1>2. QED
  BY <1>1, UpdateInvariant, PTL

(***************************************************************************)
(* Who waited for a fetch that went well finds on disk what was on the     *)
(* code host when it called (doRepoUpdate and its sync.Once).              *)
(***************************************************************************)
THEOREM FetchesFresh ==
  UpdateSpec => []Fresh
<1>1. UpdateInv => Fresh
  BY DEF UpdateInv, VersionsInv, Fresh
<1>2. QED
  BY <1>1, UpdateInvariant, PTL

(***************************************************************************)
(* Once Stop has returned no git command of an update runs, and the        *)
(* WaitGroup never becomes negative.                                       *)
(***************************************************************************)
THEOREM StopWaits ==
  UpdateSpec => []Stopped
<1>1. ASSUME UpdateInv
      PROVE  Stopped
  <2>1. IsFiniteSet(Owing) /\ wg = Cardinality(Owing)
    BY <1>1 DEF UpdateInv, CountInv
  <2>2. wg \in Nat /\ (wg = 0 => Owing = {})
    BY <2>1, FS_CardinalityType, FS_EmptySet
  <2>3. UpdateTypeOK
    BY <1>1, <2>2 DEF UpdateInv, LimiterInv, Types, UpdateTypeOK
  <2>4. ASSUME stop = "stopped", NEW u \in Updates
        PROVE  update[u].pc \notin {"fetching", "fetched"}
    <3>1. ~update[u].owes
      BY <1>1, <2>2, <2>4 DEF UpdateInv, StopInv, Owing
    <3>2. QED
      BY <1>1, <3>1 DEF UpdateInv, StopInv, Running
  <2>5. QED
    BY <2>3, <2>4 DEF Stopped
<1>2. QED
  BY <1>1, UpdateInvariant, PTL
----------------------------------------------------------------------------
(***************************************************************************)
(* The refinement: with the list of contexts seen as the set of holders,   *)
(* a grant takes a place, cancel drops it unless SetLimit already has, and *)
(* SetLimit adjusts.  Everything else leaves the semaphore alone.          *)
(***************************************************************************)
LEMMA SameCardinality ==
  ASSUME NEW S
  PROVE  CloneSemaphore!Cardinality(S) = Cardinality(S)
BY DEF CloneSemaphore!Cardinality, Cardinality

LEMMA GrantTakes ==
  ASSUME LimiterInv, Grant(CloneLimiter)
  PROVE  \E c \in Calls : CloneSemaphore!Take(c)
<1> DEFINE l == CloneLimiter
           c == Head(acquire[l])
           s == cancelFuncs[l]
<1>1. l \in Limiters
  BY DEF CloneLimiter
<1>2. /\ s \in Seq(Calls) /\ acquire[l] \in Seq(Calls) /\ limit[l] \in Int
      /\ limit[l] >= 0 => Len(s) <= limit[l]
      /\ \A d \in ToSet(acquire[l]) : call[d].pc = "acquiring"
  BY <1>1 DEF LimiterInv, LimiterTypeOK, WithinLimit, WaitersListed
<1>3. (\A d \in ToSet(s) : call[d].pc = "held") /\ Distinct(s)
  BY <1>1, HoldersAreListed DEF LimiterInv, LimiterTypeOK, Listed
<1>4. /\ Len(s) # limit[l] /\ acquire[l] # <<>> /\ limit' = limit
      /\ cancelFuncs' = [cancelFuncs EXCEPT ![l] = Append(s, c)]
  BY DEF Grant, AtLimit
<1>5. c \in ToSet(acquire[l]) /\ c \in Calls
  BY <1>2, <1>4, TailOfList, MembersOfList
<1>6. c \notin ToSet(s)
  BY <1>2, <1>3, <1>5
<1>7. /\ Append(s, c) \in Seq(Calls) /\ Distinct(Append(s, c)) /\ Len(Append(s, c)) = Len(s) + 1
      /\ ToSet(Append(s, c)) = ToSet(s) \cup {c}
  BY <1>2, <1>3, <1>5, <1>6, AppendToList
<1>8. cancelFuncs'[l] = Append(s, c)
  BY <1>1, <1>4 DEF LimiterInv, LimiterTypeOK
<1>9. limit[l] < 0 \/ Cardinality(ToSet(s) \cup {c}) <= limit[l]
  <2>1. Cardinality(ToSet(s) \cup {c}) = Len(s) + 1
    BY <1>7, LengthOfList
  <2>2. Len(s) \in Nat
    BY <1>2, LenProperties
  <2>3. QED
    BY <1>2, <1>4, <2>1, <2>2
<1>f. CloneSemaphore!Fits(ToSet(s) \cup {c}, limit[l])
  BY <1>9, SameCardinality DEF CloneSemaphore!Fits
<1>10. CloneSemaphore!Take(c)
  BY <1>f, <1>4, <1>6, <1>7, <1>8, <1>9 DEF CloneSemaphore!Take, CloneSemaphore!Fits
<1>11. QED
  BY <1>5, <1>10

LEMMA ReleaseDrops ==
  ASSUME LimiterInv, NEW c \in Calls, Release(c)
  PROVE  CloneSemaphore!Drop(c) \/ UNCHANGED CloneSemaphore!semaphoreVars
<1> DEFINE l == CloneLimiter
           s == cancelFuncs[l]
<1>1. l \in Limiters
  BY DEF CloneLimiter
<1>2. s \in Seq(Calls) /\ Distinct(s) /\ cancelFuncs \in [Limiters -> Seq(Calls)]
  BY <1>1, HoldersAreListed DEF LimiterInv, LimiterTypeOK, Listed
<1>3. /\ limit' = limit
      /\ cancelFuncs' = [cancelFuncs EXCEPT ![call[c].limiter] = RemoveFirst(@, c)]
  BY DEF Release
<1>4. ToSet(RemoveFirst(s, c)) = ToSet(s) \ {c}
  BY <1>2, RemoveFromList
<1>5. cancelFuncs'[l] = RemoveFirst(s, c) \/ cancelFuncs'[l] = s
  BY <1>1, <1>2, <1>3
<1>6. ToSet(cancelFuncs'[l]) = ToSet(s) \ {c} \/ ToSet(cancelFuncs'[l]) = ToSet(s)
  BY <1>4, <1>5
<1>7. QED
  BY <1>3, <1>6 DEF CloneSemaphore!Drop, CloneSemaphore!semaphoreVars

LEMMA SetLimitAdjusts ==
  ASSUME LimiterInv, NEW n \in Limits, SetLimit(CloneLimiter, n)
  PROVE  CloneSemaphore!Adjust
<1> DEFINE l == CloneLimiter
           s == cancelFuncs[l]
           t == Newest(s, n)
<1>1. l \in Limiters /\ n \in Int
  BY DEF CloneLimiter
<1>2. s \in Seq(Calls) /\ Distinct(s) /\ cancelFuncs \in [Limiters -> Seq(Calls)]
      /\ limit \in [Limiters -> Int]
  BY <1>1, HoldersAreListed DEF LimiterInv, LimiterTypeOK, Listed
<1>3. limit'[l] = n /\ cancelFuncs'[l] = t
  BY <1>1, <1>2 DEF SetLimit
<1>4. /\ t \in Seq(Calls) /\ ToSet(t) \subseteq ToSet(s) /\ Distinct(t)
      /\ n < 0 \/ Len(s) <= n => t = s
      /\ n >= 0 /\ Len(s) > n => Len(t) = n
  BY <1>1, <1>2, NewestOfList
<1>5. Cardinality(ToSet(s)) = Len(s) /\ Cardinality(ToSet(t)) = Len(t) /\ Len(s) \in Nat
  BY <1>2, <1>4, LengthOfList, LenProperties
<1> HIDE DEF t
<1>6. IF n < 0 \/ Cardinality(ToSet(s)) <= n
      THEN ToSet(t) = ToSet(s) ELSE Cardinality(ToSet(t)) = n
  BY <1>1, <1>4, <1>5
<1>7. IF CloneSemaphore!Fits(ToSet(s), n)
      THEN ToSet(t) = ToSet(s) ELSE CloneSemaphore!Cardinality(ToSet(t)) = n
  BY <1>6, SameCardinality DEF CloneSemaphore!Fits
<1>8. QED
  BY <1>1, <1>3, <1>4, <1>7 DEF CloneSemaphore!Adjust

LEMMA StepsRefine ==
  ASSUME LimiterInv, [UpdateNext]_updateVars
  PROVE  [CloneSemaphore!SemaphoreNext]_(CloneSemaphore!semaphoreVars)
<1>1. ASSUME UNCHANGED <<limit, cancelFuncs>>
      PROVE  UNCHANGED CloneSemaphore!semaphoreVars
  BY <1>1 DEF CloneSemaphore!semaphoreVars
<1>2. ASSUME NEW c \in Calls, Release(c)
      PROVE  CloneSemaphore!SemaphoreNext \/ UNCHANGED CloneSemaphore!semaphoreVars
  BY <1>2, ReleaseDrops DEF CloneSemaphore!SemaphoreNext
<1>3. ASSUME Grant(CloneLimiter)
      PROVE  CloneSemaphore!SemaphoreNext
  BY <1>3, GrantTakes DEF CloneSemaphore!SemaphoreNext
<1>4. ASSUME NEW n \in Limits, SetLimit(CloneLimiter, n)
      PROVE  CloneSemaphore!SemaphoreNext
  BY <1>4, SetLimitAdjusts DEF CloneSemaphore!SemaphoreNext
<1>5. ASSUME NEW u \in Updates, NEW r \in Repos, DoRepoUpdate(u, r)
      PROVE  UNCHANGED <<limit, cancelFuncs>>
  BY <1>5 DEF DoRepoUpdate, limiterVars
<1>6. ASSUME NEW u \in Updates,
             \/ OnceDo(u) \/ LockMu(u) \/ RenewOnce(u) \/ BackgroundUpdate(u)
             \/ FetchStarts(u) \/ Fetch(u) \/ RefusedPlace(u) \/ Timeout(u)
      PROVE  UNCHANGED <<limit, cancelFuncs>>
  BY <1>6 DEF OnceDo, LockMu, RenewOnce, BackgroundUpdate, FetchStarts, Fetch, RefusedPlace,
              Timeout, Acquire, AcquireFails, CancelParents, limiterVars
<1>7. ASSUME NEW u \in Updates, UpdateEnds(u)
      PROVE  Release(u) /\ u \in Calls
  BY <1>7 DEF UpdateEnds
<1>8. ASSUME StopCancels \/ StopFlags \/ StopReturns \/ \E r \in Repos : Push(r)
      PROVE  UNCHANGED <<limit, cancelFuncs>>
  BY <1>8 DEF StopCancels, StopFlags, StopReturns, Push, limiterVars
<1>9. ASSUME LimiterStep
      PROVE  CloneSemaphore!SemaphoreNext \/ UNCHANGED CloneSemaphore!semaphoreVars
  <2>1. \A c \in Others : c \in Calls
    BY DEF Others
  <2>2. ASSUME NEW c \in Others,
               Acquire(c, CloneLimiter, FALSE) \/ AcquireFails(c) \/ CancelParents({c})
        PROVE  UNCHANGED <<limit, cancelFuncs>>
    BY <2>2 DEF Acquire, AcquireFails, CancelParents
  <2>3. QED
    BY <1>1, <1>2, <1>3, <1>4, <1>9, <2>1, <2>2 DEF LimiterStep
<1>10. ASSUME UNCHANGED updateVars
       PROVE  UNCHANGED <<limit, cancelFuncs>>
  BY <1>10 DEF updateVars, limiterVars
<1>11. QED
  BY <1>1, <1>2, <1>5, <1>6, <1>7, <1>8, <1>9, <1>10 DEF UpdateNext, UpdateStep

(***************************************************************************)
(* Among updates, clones and a server that stops, the limiter is the       *)
(* semaphore that it promises to be: places are given out only within the  *)
(* limit, and SetLimit takes away no more places than it must.             *)
(***************************************************************************)
THEOREM LimiterIsSemaphore ==
  UpdateSpec => ImplementsSemaphore
<1>1. UpdateInit => CloneSemaphore!SemaphoreInit
  <2> SUFFICES ASSUME UpdateInit
               PROVE  CloneSemaphore!SemaphoreInit
    OBVIOUS
  <2>1. CloneLimiter \in Limiters
    BY DEF CloneLimiter
  <2>2. limit[CloneLimiter] = StartLimit /\ cancelFuncs[CloneLimiter] = <<>>
    BY <2>1 DEF UpdateInit, LimiterInit
  <2>3. QED
    BY <2>2, EmptyList DEF CloneSemaphore!SemaphoreInit
<1>2. UpdateInv /\ [UpdateNext]_updateVars
        => [CloneSemaphore!SemaphoreNext]_(CloneSemaphore!semaphoreVars)
  BY StepsRefine DEF UpdateInv
<1>3. QED
  BY <1>1, <1>2, UpdateInvariant, PTL
  DEF UpdateSpec, ImplementsSemaphore, CloneSemaphore!SemaphoreSpec
=============================================================================
