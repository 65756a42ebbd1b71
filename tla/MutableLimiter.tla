--------------------------- MODULE MutableLimiter ---------------------------
(***************************************************************************)
(* The semaphores with an adjustable limit of internal/limiter/mutable.go. *)
(* Each limiter is a goroutine (do) that owns a list of the contexts that  *)
(* are acquired.  Limiters is the set of limiters: the update scheduler    *)
(* makes a new one whenever its loops are restarted.                       *)
(*                                                                         *)
(* Acquire sends a request on an unbuffered channel, whose senders Go      *)
(* serves in the order in which they came, and reads the response.  One    *)
(* turn of do is atomic: it talks to nobody else meanwhile.                *)
(***************************************************************************)
EXTENDS Integers, Sequences, FiniteSets, SequencesExt

CONSTANTS
  Limiters,    \* the limiters
  Calls,       \* the callers of Acquire
  Limits,      \* the arguments of SetLimit; a negative limit is none
  StartLimit   \* the argument of NewMutable

ASSUME LimiterAssumption ==
  /\ Limiters # {}
  /\ Limits \subseteq Int
  /\ StartLimit \in Int

VARIABLES
  limit,        \* the limit of each limiter
  cancelFuncs,  \* its list of acquired contexts, oldest first
  acquire,      \* the requests that wait on its channel, in order
  call          \* where each caller is, with which limiter, and its context

limiterVars == <<limit, cancelFuncs, acquire, call>>
----------------------------------------------------------------------------
\* "acquiring" is inside Acquire, "held" has not called cancel yet.  A
\* context that is canceled: the parent while acquiring, then the child.
Call == [pc : {"idle", "acquiring", "held"}, limiter : Limiters, canceled : BOOLEAN]

\* Before the first call (any limiter will do).
NoCall == [pc |-> "idle", limiter |-> CHOOSE l \in Limiters : TRUE, canceled |-> FALSE]

\* Mutant: the last place is never given out.
AtLimitEarly(l) == limit[l] >= 0 /\ Len(cancelFuncs[l]) + 1 >= limit[l]

\* The acquire channel is hidden.
AtLimit(l) == Len(cancelFuncs[l]) = limit[l]

\* Mutant: one context too many stays.
NewestOneMore(list, n) ==
  IF n >= 0 /\ Len(list) > n + 1 THEN SubSeq(list, Len(list) - n, Len(list)) ELSE list

\* The contexts that stay when the limit becomes n.
Newest(list, n) ==
  IF n >= 0 /\ Len(list) > n THEN SubSeq(list, Len(list) - n + 1, Len(list)) ELSE list

CancelAll(S) ==
  call' = [c \in Calls |-> IF c \in S THEN [call[c] EXCEPT !.canceled = TRUE]
                           ELSE call[c]]
----------------------------------------------------------------------------
LimiterInit ==
  /\ limit = [l \in Limiters |-> StartLimit]
  /\ cancelFuncs = [l \in Limiters |-> <<>>]
  /\ acquire = [l \in Limiters |-> <<>>]
  /\ call = [c \in Calls |-> NoCall]

\* Acquire blocks on the channel; its context may be canceled already.
Acquire(c, l, canceled) ==
  /\ call[c].pc = "idle"
  /\ acquire' = [acquire EXCEPT ![l] = Append(@, c)]
  /\ call' = [call EXCEPT ![c] = [pc |-> "acquiring", limiter |-> l,
                                  canceled |-> canceled]]
  /\ UNCHANGED <<limit, cancelFuncs>>

\* ctx.Done wins the select: Acquire returns the context's error.
AcquireFails(c) ==
  /\ call[c].pc = "acquiring" /\ call[c].canceled
  /\ acquire' = [acquire EXCEPT ![call[c].limiter] = RemoveFirst(@, c)]
  /\ call' = [call EXCEPT ![c] = NoCall]
  /\ UNCHANGED <<limit, cancelFuncs>>

\* do takes a request and responds with a child context and its cancel.
Grant(l) ==
  /\ ~AtLimit(l)
  /\ acquire[l] # <<>>
  /\ LET c == Head(acquire[l])
     IN  /\ cancelFuncs' = [cancelFuncs EXCEPT ![l] = Append(@, c)]
         /\ call' = [call EXCEPT ![c].pc = "held"]
  /\ acquire' = [acquire EXCEPT ![l] = Tail(@)]
  /\ UNCHANGED limit

\* The holder calls cancel.  Its element may have been removed by SetLimit;
\* then, as in a second call of cancel, the list stays as it is.
Release(c) ==
  /\ call[c].pc = "held"
  /\ cancelFuncs' = [cancelFuncs EXCEPT ![call[c].limiter] = RemoveFirst(@, c)]
  /\ call' = [call EXCEPT ![c] = NoCall]
  /\ UNCHANGED <<limit, acquire>>

\* Mutant: the oldest context is canceled, and the newest removed.
SetLimitSwapped(l, n) ==
  /\ limit' = [limit EXCEPT ![l] = n]
  /\ LET list == cancelFuncs[l]
         kept == Newest(list, n)
     IN  /\ cancelFuncs' = [cancelFuncs EXCEPT ![l] = SubSeq(list, 1, Len(kept))]
         /\ CancelAll(ToSet(list) \ ToSet(kept))
  /\ UNCHANGED acquire

\* SetLimit cancels the oldest contexts until the rest is within the limit.
SetLimit(l, n) ==
  /\ limit' = [limit EXCEPT ![l] = n]
  /\ LET list == cancelFuncs[l]
         kept == Newest(list, n)
     IN  /\ cancelFuncs' = [cancelFuncs EXCEPT ![l] = kept]
         /\ CancelAll(ToSet(list) \ ToSet(kept))
  /\ UNCHANGED acquire

\* The contexts that the callers S passed to Acquire are canceled.
CancelParents(S) ==
  /\ S # {}
  /\ \A c \in S : call[c].pc # "idle" /\ ~call[c].canceled
  /\ CancelAll(S)
  /\ UNCHANGED <<limit, cancelFuncs, acquire>>

LimiterNext ==
  \/ \E c \in Calls :
       \/ \E l \in Limiters, canceled \in BOOLEAN : Acquire(c, l, canceled)
       \/ AcquireFails(c) \/ Release(c)
  \/ \E l \in Limiters : Grant(l) \/ \E n \in Limits : SetLimit(l, n)
  \/ \E S \in SUBSET Calls : CancelParents(S)

LimiterSpec == LimiterInit /\ [][LimiterNext]_limiterVars

\* do serves its channels, and holders call cancel ("must be called").
LimiterFairness ==
  /\ \A l \in Limiters : WF_limiterVars(Grant(l))
  /\ \A c \in Calls : WF_limiterVars(Release(c)) /\ WF_limiterVars(AcquireFails(c))

FairLimiterSpec == LimiterSpec /\ LimiterFairness
----------------------------------------------------------------------------
\* The lists and the callers are well formed.
LimiterTypeOK ==
  /\ limit \in [Limiters -> Int]
  /\ cancelFuncs \in [Limiters -> Seq(Calls)]
  /\ acquire \in [Limiters -> Seq(Calls)]
  /\ call \in [Calls -> Call]

(***************************************************************************)
(* Never more contexts than the limit, also right after it was lowered.    *)
(* do only compares with ==, so a list that is once longer than the limit  *)
(* would never stop growing.                                               *)
(***************************************************************************)
WithinLimit ==
  \A l \in Limiters : limit[l] >= 0 => Len(cancelFuncs[l]) <= limit[l]

(***************************************************************************)
(* The list is the set of holders: a holder that may go on working counts  *)
(* against the limit, whatever contexts were canceled in between, and a    *)
(* place in the list is taken once, by a caller that will still give it    *)
(* back.                                                                   *)
(***************************************************************************)
HoldersListed ==
  \A l \in Limiters :
    /\ \A c \in Calls :
         call[c].pc = "held" /\ call[c].limiter = l /\ ~call[c].canceled
           => c \in ToSet(cancelFuncs[l])
    /\ \A i \in 1 .. Len(cancelFuncs[l]) :
         LET c == cancelFuncs[l][i]
         IN  call[c].pc = "held" /\ call[c].limiter = l
    /\ \A i, k \in 1 .. Len(cancelFuncs[l]) :
         cancelFuncs[l][i] = cancelFuncs[l][k] => i = k

(***************************************************************************)
(* Nobody waits in Acquire forever, unless the limit stays 0: places come  *)
(* back however limits and contexts change, and are given out in order.    *)
(***************************************************************************)
AcquireReturns ==
  \A c \in Calls :
    call[c].pc = "acquiring" ~> \/ call[c].pc # "acquiring"
                                \/ limit[call[c].limiter] = 0
=============================================================================
