----------------------------- MODULE RepoUpdate -----------------------------
(***************************************************************************)
(* How gitserver fetches into the repositories it has cloned, and how it   *)
(* stops (cmd/gitserver/server/server.go: repoUpdate, doRepoUpdate,        *)
(* doBackgroundRepoUpdate, serverContext and Stop), composed with the      *)
(* limiter that bounds its clones and fetches (MutableLimiter).            *)
(*                                                                         *)
(* An update is one call of doRepoUpdate together with the goroutine that  *)
(* it starts.  Updates of one repository share fetches: they carry the     *)
(* sync.Once that was in repoUpdateLocks when they came, the first one to  *)
(* run it (its leader) waits for the mutex of the repository, replaces the *)
(* Once and fetches, the others wait for the Once.  The caller waits for   *)
(* its goroutine; it may give up before when its context is done, which    *)
(* changes nothing here: the goroutine goes on.                            *)
(*                                                                         *)
(* The other callers of the limiter are clones.  Calls of repoUpdate that  *)
(* debounce turns away do nothing.                                         *)
(***************************************************************************)
EXTENDS MutableLimiter

CONSTANTS
  Repos,      \* repositories that are cloned
  Updates,    \* calls of doRepoUpdate
  Nobody,     \* no update
  MaxPushes   \* bound on the changes of each repository on the code host

ASSUME UpdateAssumption ==
  /\ Repos # {}
  /\ Updates \subseteq Calls
  /\ Nobody \notin Updates
  /\ MaxPushes \in Nat

VARIABLES
  update,    \* where each update is (see Update)
  mu,        \* repoUpdateLocks[repo].mu: who has locked it
  wg,        \* Server.wg: how many contexts of the server are in use
  stop,      \* how far Stop has come
  upstream,  \* the version of each repository on the code host
  disk       \* the version of each repository on disk

serverVars == <<wg, stop>>
dataVars   == <<upstream, disk>>
updateVars == <<update, mu, serverVars, dataVars, limiterVars>>
----------------------------------------------------------------------------
Others == Calls \ Updates

CloneLimiter == CHOOSE l \in Limiters : TRUE

\* The mutex of the repository is locked by the update.
InMutex == {"locked", "renewed", "limited", "fetching", "fetched"}

(***************************************************************************)
(* pc is where the goroutine is; "done": it has closed the channel the     *)
(* caller waits on.  once is the sync.Once it has: the one that is in      *)
(* repoUpdateLocks, the one whose leader has the mutex and has replaced    *)
(* it, or one that has run, with a fetch that succeeded or failed.  wanted *)
(* (history) is the version on the code host when the call was made.  owes *)
(* is whether the cancel function of its context is to call wg.Done.       *)
(***************************************************************************)
Update ==
  [pc : {"idle", "called", "locking", "done"} \cup InMutex,
   repo : Repos,
   once : {"current", "replaced", "ok", "failed"},
   wanted : 0 .. MaxPushes,
   owes : BOOLEAN]

NoUpdate == [pc |-> "idle", repo |-> CHOOSE r \in Repos : TRUE,
             once |-> "current", wanted |-> 0, owes |-> FALSE]

Goto(u, pc) == update' = [update EXCEPT ![u].pc = pc]

\* The updates that have the Once of u; it is being run by one of them.
Sharing(u) ==
  {v \in Updates : /\ update[v].repo = update[u].repo /\ update[v].once = update[u].once
                   /\ update[v].pc \notin {"idle", "done"}}
OnceRuns(u) == \E v \in Sharing(u) : update[v].pc # "called"

\* The Once of u becomes what state says, while u goes on to pc.
SetOnce(u, state, pc) ==
  update' = [v \in Updates |->
    IF v \notin Sharing(u) THEN update[v]
    ELSE IF v = u THEN [update[v] EXCEPT !.once = state, !.pc = pc, !.owes = FALSE]
    ELSE [update[v] EXCEPT !.once = state]]

(***************************************************************************)
(* serverContext and Stop.                                                 *)
(***************************************************************************)
Canceled == stop # "running"       \* s.ctx is done
Flagged  == stop \in {"flagged", "stopped"}  \* s.canceled

\* Mutant: a context is counted also when s.canceled is set.
ServerContextAlways(u, pc) ==
  /\ wg' = wg + 1
  /\ update' = [update EXCEPT ![u].pc = pc, ![u].owes = ~Flagged]

\* The update gets a context and goes on to pc.
ServerContext(u, pc) ==
  /\ wg' = IF Flagged THEN wg ELSE wg + 1
  /\ update' = [update EXCEPT ![u].pc = pc, ![u].owes = ~Flagged]

\* The cancel function.
CancelContext(u) == wg' = IF update[u].owes THEN wg - 1 ELSE wg
----------------------------------------------------------------------------
UpdateInit ==
  /\ LimiterInit
  /\ update = [u \in Updates |-> NoUpdate]
  /\ mu = [r \in Repos |-> Nobody]
  /\ wg = 0 /\ stop = "running"
  /\ upstream = [r \in Repos |-> 0] /\ disk = [r \in Repos |-> 0]

\* The call reads the Once of the repository and starts a goroutine.
DoRepoUpdate(u, r) ==
  /\ update[u].pc \in {"idle", "done"}
  /\ update' = [update EXCEPT ![u] =
       [NoUpdate EXCEPT !.pc = "called", !.repo = r, !.wanted = upstream[r]]]
  /\ UNCHANGED <<mu, serverVars, dataVars, limiterVars>>

\* once.Do: the first caller runs the function, callers that come while it
\* runs wait, later ones return.
OnceDo(u) ==
  /\ update[u].pc = "called"
  /\ \/ update[u].once = "current" /\ ~OnceRuns(u) /\ Goto(u, "locking")
     \/ update[u].once \in {"ok", "failed"} /\ Goto(u, "done")
  /\ UNCHANGED <<mu, serverVars, dataVars, limiterVars>>

\* Mutant: no mutex.
LockMuAnyway(u) ==
  /\ update[u].pc = "locking"
  /\ mu' = [mu EXCEPT ![update[u].repo] = u]
  /\ Goto(u, "locked")
  /\ UNCHANGED <<serverVars, dataVars, limiterVars>>

LockMu(u) ==
  /\ update[u].pc = "locking"
  /\ mu[update[u].repo] = Nobody
  /\ mu' = [mu EXCEPT ![update[u].repo] = u]
  /\ Goto(u, "locked")
  /\ UNCHANGED <<serverVars, dataVars, limiterVars>>

\* Mutant: the Once is kept, so that new requests join this update.
KeepOnce(u) ==
  /\ update[u].pc = "locked"
  /\ Goto(u, "renewed")
  /\ UNCHANGED <<mu, serverVars, dataVars, limiterVars>>

\* "Make new requests wait for next update."
RenewOnce(u) ==
  /\ update[u].pc = "locked"
  /\ SetOnce(u, "replaced", "renewed")
  /\ UNCHANGED <<mu, serverVars, dataVars, limiterVars>>

\* doBackgroundRepoUpdate gets a context of the server with a timeout, and
\* asks the limiter for a place.
BackgroundUpdate(u) ==
  /\ update[u].pc = "renewed"
  /\ ServerContext(u, "limited")
  /\ Acquire(u, CloneLimiter, Canceled)
  /\ UNCHANGED <<mu, stop, dataVars>>

\* The timeout of the context.
Timeout(u) ==
  /\ CancelParents({u})
  /\ UNCHANGED <<update, mu, serverVars, dataVars>>

\* The limiter has granted a place, and neither rpsLimiter.Wait nor what
\* comes before the fetch fails.
FetchStarts(u) ==
  /\ update[u].pc = "limited"
  /\ call[u].pc = "held" /\ ~call[u].canceled
  /\ Goto(u, "fetching")
  /\ UNCHANGED <<mu, serverVars, dataVars, limiterVars>>

\* git fetch gets what is on the code host.
Fetch(u) ==
  /\ update[u].pc = "fetching"
  /\ disk' = [disk EXCEPT ![update[u].repo] = upstream[update[u].repo]]
  /\ Goto(u, "fetched")
  /\ UNCHANGED <<mu, serverVars, upstream, limiterVars>>

\* Mutant: the mutex stays locked after an error.
EndedLocked(u, ok) ==
  /\ SetOnce(u, IF ok THEN "ok" ELSE "failed", "done")
  /\ CancelContext(u)
  /\ mu' = IF ok THEN [mu EXCEPT ![update[u].repo] = Nobody] ELSE mu

\* The deferred calls: cancel1, the unlock of the mutex, the end of the
\* Once and of the goroutine.
Ended(u, ok) ==
  /\ SetOnce(u, IF ok THEN "ok" ELSE "failed", "done")
  /\ CancelContext(u)
  /\ mu' = [mu EXCEPT ![update[u].repo] = Nobody]

\* Acquire returns the error of the context.
RefusedPlace(u) ==
  /\ update[u].pc = "limited"
  /\ AcquireFails(u)
  /\ Ended(u, FALSE)
  /\ UNCHANGED <<stop, dataVars>>

\* A step on the way fails, or everything succeeded; the place is returned.
UpdateEnds(u) ==
  /\ update[u].pc \in {"limited", "fetching", "fetched"}
  /\ Release(u)
  /\ \E ok \in BOOLEAN : (ok => update[u].pc = "fetched") /\ Ended(u, ok)
  /\ UNCHANGED <<stop, dataVars>>

----------------------------------------------------------------------------
\* Stop: s.cancel cancels what the updates do ...
StopCancels ==
  /\ stop = "running"
  /\ stop' = "canceled"
  /\ CancelAll({u \in Updates : call[u].pc # "idle"})
  /\ UNCHANGED <<update, mu, wg, dataVars, limit, cancelFuncs, acquire>>

\* ... s.canceled is set ...
StopFlags ==
  /\ stop = "canceled"
  /\ stop' = "flagged"
  /\ UNCHANGED <<update, mu, wg, dataVars, limiterVars>>

\* Mutant: Stop does not wait.
StopReturnsEarly ==
  /\ stop = "flagged"
  /\ stop' = "stopped"
  /\ UNCHANGED <<update, mu, wg, dataVars, limiterVars>>

\* ... and wg.Wait returns.
StopReturns ==
  /\ stop = "flagged"
  /\ wg = 0
  /\ stop' = "stopped"
  /\ UNCHANGED <<update, mu, wg, dataVars, limiterVars>>

\* Someone pushes to the code host.
Push(r) ==
  /\ upstream[r] < MaxPushes
  /\ upstream' = [upstream EXCEPT ![r] = @ + 1]
  /\ UNCHANGED <<update, mu, serverVars, disk, limiterVars>>

\* The goroutine of the limiter, and its other callers.
LimiterStep ==
  /\ \/ \E c \in Others :
          \/ Acquire(c, CloneLimiter, FALSE)
          \/ AcquireFails(c) \/ Release(c) \/ CancelParents({c})
     \/ Grant(CloneLimiter) \/ \E n \in Limits : SetLimit(CloneLimiter, n)
  /\ UNCHANGED <<update, mu, serverVars, dataVars>>

UpdateStep(u) ==
  \/ OnceDo(u) \/ LockMu(u) \/ RenewOnce(u) \/ BackgroundUpdate(u)
  \/ FetchStarts(u) \/ Fetch(u) \/ RefusedPlace(u) \/ UpdateEnds(u)

UpdateNext ==
  \/ \E u \in Updates :
       \/ \E r \in Repos : DoRepoUpdate(u, r)
       \/ UpdateStep(u) \/ Timeout(u)
  \/ StopCancels \/ StopFlags \/ StopReturns
  \/ \E r \in Repos : Push(r)
  \/ LimiterStep

UpdateSpec == UpdateInit /\ [][UpdateNext]_updateVars

(***************************************************************************)
(* Goroutines that can run do run, the limiter serves its channels, other  *)
(* holders of a place return it, and a context with a timeout is done some *)
(* day ("ensure the background update doesn't hang forever").  Nothing     *)
(* makes a caller give up, the code host change, or Stop be called.        *)
(***************************************************************************)
UpdateFairness ==
  /\ \A u \in Updates :
       WF_updateVars(UpdateStep(u)) /\ WF_updateVars(Timeout(u))
  /\ WF_updateVars(StopFlags \/ StopReturns)
  /\ WF_updateVars(Grant(CloneLimiter) /\ LimiterStep)
  /\ \A c \in Others :
       WF_updateVars((Release(c) \/ AcquireFails(c)) /\ LimiterStep)

FairUpdateSpec == UpdateSpec /\ UpdateFairness
----------------------------------------------------------------------------
\* The updates, the server and the limiter are well formed; in particular the
\* WaitGroup does not become negative, where Go would panic.
UpdateTypeOK ==
  /\ LimiterTypeOK
  /\ update \in [Updates -> Update]
  /\ mu \in [Repos -> Updates \cup {Nobody}]
  /\ wg \in Nat
  /\ stop \in {"running", "canceled", "flagged", "stopped"}
  /\ upstream \in [Repos -> 0 .. MaxPushes] /\ disk \in [Repos -> 0 .. MaxPushes]

(***************************************************************************)
(* A caller that waited for the update, not for its context, finds on disk *)
(* what the code host had when it called, if the fetch it waited for went  *)
(* well: joining a fetch never means joining one that looked at the code   *)
(* host before.                                                            *)
(***************************************************************************)
Fresh ==
  \A u \in Updates :
    update[u].pc = "done" /\ update[u].once = "ok"
      => disk[update[u].repo] >= update[u].wanted

(***************************************************************************)
(* "Prevent multiple updates in parallel": a repository is fetched into by *)
(* one update at a time, across all the Onces it has had.                  *)
(***************************************************************************)
OneFetch ==
  \A u, v \in Updates :
    /\ u # v /\ update[u].repo = update[v].repo
    /\ update[u].pc \in InMutex
    => update[v].pc \notin InMutex

(***************************************************************************)
(* "Stop cancels the running background jobs and returns when done": when  *)
(* it has returned, no git command of an update runs and none will be      *)
(* started, whoever asked for a context between its steps.  (With the      *)
(* types: the WaitGroup does not become negative.)                         *)
(***************************************************************************)
Stopped ==
  /\ UpdateTypeOK
  /\ stop = "stopped" => \A u \in Updates : update[u].pc \notin {"fetching", "fetched"}

\* Every call is answered, also without a deadline of its own: nobody waits
\* for a Once, a mutex or a place forever, whatever is the limit.
UpdateAnswered == \A u \in Updates : update[u].pc = "called" ~> update[u].pc = "done"

\* Stop returns: every context of the server is returned, also by updates
\* that the limiter turned away.
StopEnds == Canceled ~> stop = "stopped"

\* The limiter, seen as a semaphore.
CloneSemaphore == INSTANCE Semaphore WITH
  Holders <- Calls, First <- StartLimit,
  bound <- limit[CloneLimiter], held <- ToSet(cancelFuncs[CloneLimiter])

(***************************************************************************)
(* The limiter is the semaphore it claims to be, among updates and clones: *)
(* a place is given out only when there is one, and a lower limit takes    *)
(* away as many places as it must and no more.                             *)
(***************************************************************************)
ImplementsSemaphore == CloneSemaphore!SemaphoreSpec
=============================================================================
