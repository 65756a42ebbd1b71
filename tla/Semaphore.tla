------------------------------ MODULE Semaphore ------------------------------
(***************************************************************************)
(* What a limiter of internal/limiter promises, without the goroutine, the *)
(* channels and the contexts: a set of holders that stays within an        *)
(* adjustable limit.  MutableLimiter implements it.                        *)
(***************************************************************************)
EXTENDS Integers, FiniteSets

CONSTANTS
  Holders,  \* who may hold a place
  First     \* the limit to begin with

VARIABLES
  bound,    \* the limit; a negative one is none
  held      \* who holds a place

semaphoreVars == <<bound, held>>

Fits(S, n) == n < 0 \/ Cardinality(S) <= n

SemaphoreInit == bound = First /\ held = {}

\* A place is given out only if there is one.
Take(h) ==
  /\ h \notin held
  /\ Fits(held \cup {h}, bound)
  /\ held' = held \cup {h}
  /\ UNCHANGED bound

Drop(h) ==
  /\ h \in held
  /\ held' = held \ {h}
  /\ UNCHANGED bound

\* A new limit takes places away, but only as many as it must.
Adjust ==
  /\ bound' \in Int
  /\ held' \subseteq held
  /\ IF Fits(held, bound') THEN held' = held ELSE Cardinality(held') = bound'

SemaphoreNext ==
  \/ \E h \in Holders : Take(h) \/ Drop(h)
  \/ Adjust

SemaphoreSpec == SemaphoreInit /\ [][SemaphoreNext]_semaphoreVars
==============================================================================
