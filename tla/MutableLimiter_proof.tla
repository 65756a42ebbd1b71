------------------------ MODULE MutableLimiter_proof ------------------------
(***************************************************************************)
(* Proofs about the limiters, for every number of limiters and callers,    *)
(* and all limits.                                                         *)
(***************************************************************************)
EXTENDS MutableLimiter, SequenceTheorems, FiniteSetTheorems, WellFoundedInduction, TLAPS

USE LimiterAssumption

----------------------------------------------------------------------------
(***************************************************************************)
(* The lists of contexts and requests.                                     *)
(***************************************************************************)
\* No element is in the list twice.
Distinct(s) == \A i, k \in 1 .. Len(s) : s[i] = s[k] => i = k

LEMMA MembersOfList ==
  ASSUME NEW S, NEW s \in Seq(S)
  PROVE  /\ ToSet(s) \subseteq S
         /\ \A x : x \in ToSet(s) <=> \E i \in 1 .. Len(s) : s[i] = x
BY DEF ToSet

LEMMA EmptyList ==
  ToSet(<<>>) = {} /\ Distinct(<<>>)
BY DEF ToSet, Distinct

LEMMA AppendToList ==
  ASSUME NEW S, NEW s \in Seq(S), NEW e \in S
  PROVE  /\ Append(s, e) \in Seq(S) /\ Len(Append(s, e)) = Len(s) + 1
         /\ ToSet(Append(s, e)) = ToSet(s) \cup {e}
         /\ Distinct(s) /\ e \notin ToSet(s) => Distinct(Append(s, e))
<1> DEFINE t == Append(s, e)
<1>1. /\ t \in Seq(S) /\ Len(t) = Len(s) + 1 /\ Len(s) \in Nat
      /\ \A i \in 1 .. Len(s) : t[i] = s[i]
      /\ t[Len(s) + 1] = e
  BY AppendProperties, LenProperties
<1> HIDE DEF t
<1>2. ToSet(t) = ToSet(s) \cup {e}
  <2>1. ASSUME NEW x \in ToSet(t)
        PROVE  x \in ToSet(s) \cup {e}
    <3>1. PICK i \in 1 .. Len(t) : t[i] = x
      BY <1>1, <2>1, MembersOfList
    <3>2. CASE i <= Len(s)
      BY <1>1, <3>1, <3>2, MembersOfList
    <3>3. CASE i = Len(s) + 1
      BY <1>1, <3>1, <3>3
    <3>4. QED
      BY <1>1, <3>2, <3>3
  <2>2. ASSUME NEW x \in ToSet(s)
        PROVE  x \in ToSet(t)
    <3>1. PICK i \in 1 .. Len(s) : s[i] = x
      BY <2>2, MembersOfList
    <3>2. i \in 1 .. Len(t) /\ t[i] = x
      BY <1>1, <3>1
    <3>3. QED
      BY <1>1, <3>2, MembersOfList
  <2>3. e \in ToSet(t)
    BY <1>1, MembersOfList
  <2>4. QED
    BY <2>1, <2>2, <2>3
<1>3. ASSUME Distinct(s), e \notin ToSet(s)
      PROVE  Distinct(t)
  <2>1. \A i \in 1 .. Len(s) : s[i] # e
    BY <1>3, MembersOfList
  <2>2. QED
    BY <1>1, <1>3, <2>1 DEF Distinct
<1>4. QED
  BY <1>1, <1>2, <1>3 DEF t

LEMMA TailOfList ==
  ASSUME NEW S, NEW s \in Seq(S), s # <<>>
  PROVE  /\ Head(s) \in ToSet(s) /\ Tail(s) \in Seq(S)
         /\ ToSet(Tail(s)) \subseteq ToSet(s)
         /\ Distinct(s) => Distinct(Tail(s)) /\ Head(s) \notin ToSet(Tail(s))
<1> DEFINE t == Tail(s)
<1>1. /\ t \in Seq(S) /\ Len(t) = Len(s) - 1 /\ Len(s) \in Nat \ {0}
      /\ \A i \in 1 .. Len(t) : t[i] = s[i + 1]
  BY HeadTailProperties, EmptySeq
<1>2. Head(s) = s[1]
  OBVIOUS
<1> HIDE DEF t
<1>3. Head(s) \in ToSet(s)
  BY <1>1, <1>2, MembersOfList
<1>4. ASSUME NEW x \in ToSet(t)
      PROVE  x \in ToSet(s)
  <2>1. PICK i \in 1 .. Len(t) : t[i] = x
    BY <1>1, <1>4, MembersOfList
  <2>2. i + 1 \in 1 .. Len(s) /\ s[i + 1] = x
    BY <1>1, <2>1
  <2>3. QED
    BY <2>2, MembersOfList
<1>5. ASSUME Distinct(s)
      PROVE  Distinct(t) /\ Head(s) \notin ToSet(t)
  <2>1. Distinct(t)
    <3>1. ASSUME NEW i \in 1 .. Len(t), NEW k \in 1 .. Len(t), t[i] = t[k]
          PROVE  i = k
      <4>1. i + 1 \in 1 .. Len(s) /\ k + 1 \in 1 .. Len(s) /\ s[i + 1] = s[k + 1]
        BY <1>1, <3>1
      <4>2. i + 1 = k + 1
        BY <1>5, <4>1 DEF Distinct
      <4>3. QED
        BY <4>2
    <3>2. QED
      BY <3>1 DEF Distinct
  <2>2. ASSUME Head(s) \in ToSet(t)
        PROVE  FALSE
    <3>1. PICK i \in 1 .. Len(t) : t[i] = Head(s)
      BY <1>1, <2>2, MembersOfList
    <3>2. i + 1 \in 1 .. Len(s) /\ 1 \in 1 .. Len(s) /\ s[i + 1] = s[1]
      BY <1>1, <1>2, <3>1
    <3>3. i + 1 = 1
      BY <1>5, <3>2 DEF Distinct
    <3>4. QED
      BY <3>1, <3>3
  <2>3. QED
    BY <2>1, <2>2
<1>6. QED
  BY <1>1, <1>3, <1>4, <1>5 DEF t

\* What RemoveFirst finds.
LEMMA LeastOfNats ==
  ASSUME NEW I, I \subseteq Nat, I # {}
  PROVE  Min(I) \in I /\ \A y \in I : Min(I) =< y
<1>1. PICK x \in I : \A y \in I : ~(<<y, x>> \in OpToRel(<, Nat))
  BY WFMin, NatLessThanWellFounded
<1>2. \A y \in I : ~(y < x)
  BY <1>1 DEF OpToRel
<1>3. \A y \in I : x =< y
  BY <1>2
<1>4. QED
  BY <1>3 DEF Min

LEMMA FirstInList ==
  ASSUME NEW S, NEW s \in Seq(S), NEW e \in ToSet(s)
  PROVE  \E j \in 1 .. Len(s) : s[j] = e /\ RemoveFirst(s, e) = RemoveAt(s, j)
<1> DEFINE I == {i \in 1 .. Len(s) : s[i] = e}
<1>1. I \subseteq Nat /\ I # {}
  BY LenProperties, MembersOfList
<1>2. RemoveFirst(s, e) = RemoveAt(s, Min(I))
  BY <1>1 DEF RemoveFirst, SelectInSeq
<1>3. Min(I) \in I
  BY <1>1, LeastOfNats
<1>4. QED
  BY <1>2, <1>3

LEMMA RemoveAtPlace ==
  ASSUME NEW S, NEW s \in Seq(S), NEW j \in 1 .. Len(s)
  PROVE  /\ RemoveAt(s, j) \in Seq(S) /\ Len(RemoveAt(s, j)) = Len(s) - 1
         /\ \A i \in 1 .. Len(s) - 1 : RemoveAt(s, j)[i] = IF i < j THEN s[i] ELSE s[i + 1]
<1> DEFINE a == SubSeq(s, 1, j - 1)
           b == SubSeq(s, j + 1, Len(s))
<1>2. Len(s) \in Nat /\ j \in Int /\ \A i \in 1 .. Len(s) : s[i] \in S
  BY LenProperties, ElementOfSeq
<1>3. a \in Seq(S) /\ Len(a) = j - 1 /\ \A i \in 1 .. j - 1 : a[i] = s[i]
  <2>1. \A i \in 1 .. j - 1 : s[i] \in S
    BY <1>2
  <2>2. /\ a \in Seq(S) /\ Len(a) = IF 1 <= j - 1 THEN j - 1 - 1 + 1 ELSE 0
        /\ \A i \in 1 .. j - 1 - 1 + 1 : a[i] = s[1 + i - 1]
    BY <1>2, <2>1, SubSeqProperties
  <2>3. QED
    BY <1>2, <2>2
<1>4. b \in Seq(S) /\ Len(b) = Len(s) - j /\ \A i \in 1 .. Len(s) - j : b[i] = s[j + i]
  <2>1. \A i \in j + 1 .. Len(s) : s[i] \in S
    BY <1>2
  <2>2. /\ b \in Seq(S) /\ Len(b) = IF j + 1 <= Len(s) THEN Len(s) - (j + 1) + 1 ELSE 0
        /\ \A i \in 1 .. Len(s) - (j + 1) + 1 : b[i] = s[j + 1 + i - 1]
    BY <1>2, <2>1, SubSeqProperties
  <2>3. QED
    BY <1>2, <2>2
<1>5. RemoveAt(s, j) = a \o b
  BY DEF RemoveAt
<1> HIDE DEF a, b
<1>6. /\ a \o b \in Seq(S) /\ Len(a \o b) = Len(a) + Len(b)
      /\ \A i \in 1 .. Len(a) + Len(b) : (a \o b)[i] = IF i <= Len(a) THEN a[i] ELSE b[i - Len(a)]
  BY <1>3, <1>4, ConcatProperties
<1>7. QED
  BY <1>2, <1>3, <1>4, <1>5, <1>6

LEMMA RemoveFromList ==
  ASSUME NEW S, NEW s \in Seq(S), NEW e
  PROVE  /\ RemoveFirst(s, e) \in Seq(S) /\ Len(RemoveFirst(s, e)) <= Len(s)
         /\ Distinct(s) => /\ ToSet(RemoveFirst(s, e)) = ToSet(s) \ {e}
                           /\ Distinct(RemoveFirst(s, e))
<1>1. CASE e \notin ToSet(s)
  <2>1. RemoveFirst(s, e) = s
    BY <1>1, MembersOfList DEF RemoveFirst
  <2>2. QED
    BY <1>1, <2>1, LenProperties
<1>2. CASE e \in ToSet(s)
  <2>1. PICK j \in 1 .. Len(s) : s[j] = e /\ RemoveFirst(s, e) = RemoveAt(s, j)
    BY <1>2, FirstInList
  <2> DEFINE t == RemoveAt(s, j)
  <2>2. Len(s) \in Nat /\ j \in Int
    BY LenProperties
  <2>5. /\ t \in Seq(S) /\ Len(t) = Len(s) - 1
        /\ \A i \in 1 .. Len(s) - 1 : t[i] = IF i < j THEN s[i] ELSE s[i + 1]
    BY RemoveAtPlace
  <2>6. RemoveFirst(s, e) = t
    BY <2>1
  <2> HIDE DEF t
  <2>7. ASSUME Distinct(s)
        PROVE  ToSet(t) = ToSet(s) \ {e} /\ Distinct(t)
    <3>1. ASSUME NEW x \in ToSet(t)
          PROVE  x \in ToSet(s) \ {e}
      <4>1. PICK i \in 1 .. Len(t) : t[i] = x
        BY <2>5, <3>1, MembersOfList
      <4>2. PICK k \in 1 .. Len(s) : k # j /\ s[k] = x
        BY <2>2, <2>5, <4>1
      <4>3. x # e
        BY <2>1, <2>7, <4>2 DEF Distinct
      <4>4. QED
        BY <4>2, <4>3, MembersOfList
    <3>2. ASSUME NEW x \in ToSet(s) \ {e}
          PROVE  x \in ToSet(t)
      <4>1. PICK k \in 1 .. Len(s) : s[k] = x /\ k # j
        BY <2>1, <3>2, MembersOfList
      <4>2. CASE k < j
        <5>1. k \in 1 .. Len(t) /\ t[k] = x
          BY <2>2, <2>5, <4>1, <4>2
        <5>2. QED
          BY <2>5, <5>1, MembersOfList
      <4>3. CASE k > j
        <5>1. k - 1 \in 1 .. Len(t) /\ t[k - 1] = x
          BY <2>2, <2>5, <4>1, <4>3
        <5>2. QED
          BY <2>5, <5>1, MembersOfList
      <4>4. QED
        BY <2>2, <4>1, <4>2, <4>3
    <3>3. ASSUME NEW i \in 1 .. Len(t), NEW k \in 1 .. Len(t), t[i] = t[k]
          PROVE  i = k
      <4> DEFINE p == IF i < j THEN i ELSE i + 1
                 q == IF k < j THEN k ELSE k + 1
      <4>1. p \in 1 .. Len(s) /\ q \in 1 .. Len(s) /\ s[p] = s[q]
        BY <2>2, <2>5, <3>3
      <4>2. p = q
        BY <2>7, <4>1 DEF Distinct
      <4>3. QED
        BY <2>2, <2>5, <4>2
    <3>4. QED
      BY <3>1, <3>2, <3>3 DEF Distinct
  <2>8. QED
    BY <2>2, <2>5, <2>6, <2>7
<1>3. QED
  BY <1>1, <1>2

LEMMA NewestOfList ==
  ASSUME NEW S, NEW s \in Seq(S), NEW n \in Int
  PROVE  /\ Newest(s, n) \in Seq(S) /\ ToSet(Newest(s, n)) \subseteq ToSet(s)
         /\ Distinct(s) => Distinct(Newest(s, n))
         /\ n < 0 \/ Len(s) <= n => Newest(s, n) = s
         /\ n >= 0 /\ Len(s) > n => Len(Newest(s, n)) = n
<1>1. Len(s) \in Nat /\ \A i \in 1 .. Len(s) : s[i] \in S
  BY LenProperties, ElementOfSeq
<1>2. CASE ~(n >= 0 /\ Len(s) > n)
  BY <1>1, <1>2 DEF Newest
<1>3. CASE n >= 0 /\ Len(s) > n
  <2> DEFINE t == SubSeq(s, Len(s) - n + 1, Len(s))
  <2>1. Newest(s, n) = t
    BY <1>3 DEF Newest
  <2>2. t \in Seq(S) /\ Len(t) = n /\ \A i \in 1 .. n : t[i] = s[Len(s) - n + i]
    <3>1. /\ \A i \in Len(s) - n + 1 .. Len(s) : s[i] \in S
          /\ Len(s) - n + 1 \in Int /\ Len(s) \in Int
      BY <1>1, <1>3
    <3>2. /\ t \in Seq(S)
          /\ Len(t) = IF Len(s) - n + 1 <= Len(s) THEN Len(s) - (Len(s) - n + 1) + 1 ELSE 0
          /\ \A i \in 1 .. Len(s) - (Len(s) - n + 1) + 1 : t[i] = s[Len(s) - n + 1 + i - 1]
      BY <3>1, SubSeqProperties
    <3>3. QED
      BY <1>1, <1>3, <3>2
  <2> HIDE DEF t
  <2>3. ASSUME NEW x \in ToSet(t)
        PROVE  x \in ToSet(s)
    <3>1. PICK i \in 1 .. n : t[i] = x
      BY <2>2, <2>3, MembersOfList
    <3>2. Len(s) - n + i \in 1 .. Len(s) /\ s[Len(s) - n + i] = x
      BY <1>1, <1>3, <2>2, <3>1
    <3>3. QED
      BY <3>2, MembersOfList
  <2>4. ASSUME Distinct(s)
        PROVE  Distinct(t)
    <3>1. ASSUME NEW i \in 1 .. Len(t), NEW k \in 1 .. Len(t), t[i] = t[k]
          PROVE  i = k
      <4>1. /\ Len(s) - n + i \in 1 .. Len(s) /\ Len(s) - n + k \in 1 .. Len(s)
            /\ s[Len(s) - n + i] = s[Len(s) - n + k]
        BY <1>1, <1>3, <2>2, <3>1
      <4>2. Len(s) - n + i = Len(s) - n + k
        BY <2>4, <4>1 DEF Distinct
      <4>3. QED
        BY <1>1, <4>2
    <3>2. QED
      BY <3>1 DEF Distinct
  <2>5. QED
    BY <1>1, <1>3, <2>1, <2>2, <2>3, <2>4
<1>4. QED
  BY <1>2, <1>3

LEMMA LengthOfList ==
  ASSUME NEW S, NEW s \in Seq(S), Distinct(s)
  PROVE  IsFiniteSet(ToSet(s)) /\ Cardinality(ToSet(s)) = Len(s)
<1>1. Len(s) \in Nat /\ DOMAIN s = 1 .. Len(s) /\ s \in [1 .. Len(s) -> S]
  BY LenProperties
<1>2. s \in [1 .. Len(s) -> ToSet(s)]
  BY <1>1, MembersOfList
<1>3. s \in Injection(1 .. Len(s), ToSet(s))
  BY <1>1, <1>2 DEF Injection, IsInjective, Distinct
<1>4. s \in Surjection(1 .. Len(s), ToSet(s))
  BY <1>2, MembersOfList DEF Surjection
<1>5. ExistsBijection(1 .. Len(s), ToSet(s))
  BY <1>3, <1>4 DEF ExistsBijection, Bijection
<1>6. QED
  BY <1>1, <1>5, FS_NatBijection, FS_CountingElements
----------------------------------------------------------------------------
(***************************************************************************)
(* The inductive invariant: a request waits in the list of the limiter     *)
(* that its caller has called, once; a context is in the list of the       *)
(* limiter that made it, once, unless it is canceled.                      *)
(***************************************************************************)
WaitersListed ==
  \A l \in Limiters :
    /\ Distinct(acquire[l])
    /\ \A c \in ToSet(acquire[l]) : call[c].pc = "acquiring" /\ call[c].limiter = l

LimiterInv == LimiterTypeOK /\ WithinLimit /\ HoldersListed /\ WaitersListed

\* HoldersListed, in terms of the members of the lists.
Listed(l) ==
  /\ \A c \in Calls :
       call[c].pc = "held" /\ call[c].limiter = l /\ ~call[c].canceled
         => c \in ToSet(cancelFuncs[l])
  /\ \A c \in ToSet(cancelFuncs[l]) : call[c].pc = "held" /\ call[c].limiter = l
  /\ Distinct(cancelFuncs[l])

LEMMA HoldersAreListed ==
  ASSUME cancelFuncs \in [Limiters -> Seq(Calls)]
  PROVE  HoldersListed <=> \A l \in Limiters : Listed(l)
<1>1. ASSUME NEW l \in Limiters
      PROVE  (\A c \in ToSet(cancelFuncs[l]) : call[c].pc = "held" /\ call[c].limiter = l)
             <=> \A i \in 1 .. Len(cancelFuncs[l]) :
                   call[cancelFuncs[l][i]].pc = "held" /\ call[cancelFuncs[l][i]].limiter = l
  <2>1. cancelFuncs[l] \in Seq(Calls)
    OBVIOUS
  <2>2. QED
    BY <2>1, MembersOfList
<1>2. QED
  BY <1>1 DEF HoldersListed, Listed, Distinct

(***************************************************************************)
(* Whoever cancels contexts given to Acquire, canceled ones among them,    *)
(* takes a step of the limiter's callers.                                  *)
(***************************************************************************)
LEMMA CancelIsStep ==
  ASSUME LimiterInv, NEW S \in SUBSET Calls, \A c \in S : call[c].pc # "idle",
         CancelAll(S), UNCHANGED <<limit, cancelFuncs, acquire>>
  PROVE  [LimiterNext]_limiterVars
<1> DEFINE T == {u \in S : ~call[u].canceled}
<1>2. call \in [Calls -> Call] /\ T \in SUBSET Calls
  BY DEF LimiterInv, LimiterTypeOK
<1>3. \A c \in Calls : call[c].canceled => [call[c] EXCEPT !.canceled = TRUE] = call[c]
  BY <1>2 DEF Call
<1>4. CancelAll(T)
  <2>1. call' = [c \in Calls |-> IF c \in S THEN [call[c] EXCEPT !.canceled = TRUE] ELSE call[c]]
    BY DEF CancelAll
  <2>2. \A c \in Calls : (IF c \in S THEN [call[c] EXCEPT !.canceled = TRUE] ELSE call[c])
                         = (IF c \in T THEN [call[c] EXCEPT !.canceled = TRUE] ELSE call[c])
    BY <1>2, <1>3
  <2>3. call' = [c \in Calls |-> IF c \in T THEN [call[c] EXCEPT !.canceled = TRUE] ELSE call[c]]
    BY <2>1, <2>2
  <2>4. QED
    BY <2>3 DEF CancelAll
<1>5. CASE T # {}
  <2>1. CancelParents(T)
    BY <1>4, <1>5 DEF CancelParents
  <2>2. QED
    BY <1>2, <2>1 DEF LimiterNext
<1>6. CASE T = {}
  <2>1. call' = call
    BY <1>2, <1>4, <1>6 DEF CancelAll
  <2>2. QED
    BY <2>1 DEF limiterVars
<1>7. QED
  BY <1>5, <1>6

(***************************************************************************)
(* A caller that is neither in the list nor in the queue of a limiter      *)
(* does what it likes with the others.                                     *)
(***************************************************************************)
LEMMA LimiterStepKeeps ==
  ASSUME LimiterInv, [LimiterNext]_limiterVars
  PROVE  LimiterInv'
<1>t. /\ limit \in [Limiters -> Int] /\ cancelFuncs \in [Limiters -> Seq(Calls)]
      /\ acquire \in [Limiters -> Seq(Calls)] /\ call \in [Calls -> Call]
  BY DEF LimiterInv, LimiterTypeOK
<1>h. \A l \in Limiters : Listed(l)
  BY <1>t, HoldersAreListed DEF LimiterInv
<1>w. /\ \A l \in Limiters :
           /\ Distinct(acquire[l])
           /\ \A c \in ToSet(acquire[l]) : call[c].pc = "acquiring" /\ call[c].limiter = l
      /\ \A l \in Limiters : limit[l] >= 0 => Len(cancelFuncs[l]) <= limit[l]
  BY DEF LimiterInv, WaitersListed, WithinLimit
<1>s. \A l \in Limiters : /\ cancelFuncs[l] \in Seq(Calls) /\ acquire[l] \in Seq(Calls)
                          /\ ToSet(cancelFuncs[l]) \subseteq Calls
                          /\ ToSet(acquire[l]) \subseteq Calls
                          /\ Len(cancelFuncs[l]) \in Nat
  BY <1>t, MembersOfList, LenProperties
<1>n. NoCall \in Call /\ NoCall.pc = "idle"
  BY DEF NoCall, Call
<1>q. ASSUME LimiterTypeOK', \A l \in Limiters : Listed(l)', WaitersListed', WithinLimit'
      PROVE  LimiterInv'
  <2>1. HoldersListed' <=> \A l \in Limiters : Listed(l)'
    <3>1. cancelFuncs' \in [Limiters -> Seq(Calls)]
      BY <1>q DEF LimiterTypeOK
    <3>2. ASSUME NEW l \in Limiters
          PROVE  (\A c \in ToSet(cancelFuncs'[l]) : call'[c].pc = "held" /\ call'[c].limiter = l)
                 <=> \A i \in 1 .. Len(cancelFuncs'[l]) :
                       call'[cancelFuncs'[l][i]].pc = "held" /\ call'[cancelFuncs'[l][i]].limiter = l
      <4>1. cancelFuncs'[l] \in Seq(Calls)
        BY <3>1
      <4>2. QED
        BY <4>1, MembersOfList
    <3>3. QED
      BY <3>2 DEF HoldersListed, Listed, Distinct
  <2>2. QED
    BY <1>q, <2>1 DEF LimiterInv
<1>1. ASSUME NEW c \in Calls, NEW l \in Limiters, NEW canceled \in BOOLEAN,
             Acquire(c, l, canceled)
      PROVE  LimiterInv'
  <2>1. /\ call[c].pc = "idle" /\ UNCHANGED <<limit, cancelFuncs>>
        /\ acquire' = [acquire EXCEPT ![l] = Append(acquire[l], c)]
        /\ call' = [call EXCEPT ![c] = [pc |-> "acquiring", limiter |-> l, canceled |-> canceled]]
    BY <1>1 DEF Acquire
  <2>2. call' \in [Calls -> Call] /\ call'[c].pc = "acquiring" /\ call'[c].limiter = l
        /\ \A d \in Calls : d # c => call'[d] = call[d]
    BY <1>t, <2>1 DEF Call
  <2>3. /\ Append(acquire[l], c) \in Seq(Calls)
        /\ ToSet(Append(acquire[l], c)) = ToSet(acquire[l]) \cup {c}
        /\ Distinct(Append(acquire[l], c))
    BY <1>s, <1>w, <2>1, AppendToList
  <2>4. LimiterTypeOK'
    BY <1>t, <2>1, <2>2, <2>3 DEF LimiterTypeOK
  <2>5. WaitersListed'
    BY <1>s, <1>t, <1>w, <2>1, <2>2, <2>3 DEF WaitersListed
  <2>6. \A m \in Limiters : Listed(m)'
    BY <1>h, <1>s, <2>1, <2>2 DEF Listed
  <2>7. WithinLimit'
    BY <1>w, <2>1 DEF WithinLimit
  <2>8. QED
    BY <1>q, <2>4, <2>5, <2>6, <2>7
<1>2. ASSUME NEW c \in Calls, AcquireFails(c)
      PROVE  LimiterInv'
  <2> DEFINE l == call[c].limiter
  <2>1. /\ call[c].pc = "acquiring" /\ UNCHANGED <<limit, cancelFuncs>> /\ l \in Limiters
        /\ acquire' = [acquire EXCEPT ![l] = RemoveFirst(acquire[l], c)]
        /\ call' = [call EXCEPT ![c] = NoCall]
    BY <1>2, <1>t DEF AcquireFails, Call
  <2> HIDE DEF l
  <2>2. call' \in [Calls -> Call] /\ call'[c].pc = "idle"
        /\ \A d \in Calls : d # c => call'[d] = call[d]
    BY <1>n, <1>t, <2>1
  <2>3. /\ RemoveFirst(acquire[l], c) \in Seq(Calls)
        /\ ToSet(RemoveFirst(acquire[l], c)) = ToSet(acquire[l]) \ {c}
        /\ Distinct(RemoveFirst(acquire[l], c))
    BY <1>s, <1>w, <2>1, RemoveFromList
  <2>4. LimiterTypeOK'
    BY <1>t, <2>1, <2>2, <2>3 DEF LimiterTypeOK
  <2>5. WaitersListed'
    <3>1. \A m \in Limiters : m # l => c \notin ToSet(acquire[m])
      BY <1>w DEF l
    <3>2. ASSUME NEW m \in Limiters
          PROVE  /\ Distinct(acquire'[m])
                 /\ \A d \in ToSet(acquire'[m]) : call'[d].pc = "acquiring" /\ call'[d].limiter = m
      BY <1>s, <1>t, <1>w, <2>1, <2>2, <2>3, <3>1
    <3>3. QED
      BY <3>2 DEF WaitersListed
  <2>6. \A m \in Limiters : Listed(m)'
    BY <1>h, <1>s, <2>1, <2>2 DEF Listed
  <2>7. WithinLimit'
    BY <1>w, <2>1 DEF WithinLimit
  <2>8. QED
    BY <1>q, <2>4, <2>5, <2>6, <2>7
<1>3. ASSUME NEW l \in Limiters, Grant(l)
      PROVE  LimiterInv'
  <2> DEFINE c == Head(acquire[l])
  <2>1. acquire[l] # <<>> /\ Len(cancelFuncs[l]) # limit[l] /\ UNCHANGED limit
    BY <1>3 DEF Grant, AtLimit
  <2>2. /\ c \in ToSet(acquire[l]) /\ Tail(acquire[l]) \in Seq(Calls)
        /\ ToSet(Tail(acquire[l])) \subseteq ToSet(acquire[l])
        /\ Distinct(Tail(acquire[l])) /\ c \notin ToSet(Tail(acquire[l]))
    BY <1>s, <1>w, <2>1, TailOfList
  <2>3. /\ cancelFuncs' = [cancelFuncs EXCEPT ![l] = Append(cancelFuncs[l], c)]
        /\ call' = [call EXCEPT ![c].pc = "held"]
        /\ acquire' = [acquire EXCEPT ![l] = Tail(acquire[l])]
    BY <1>3 DEF Grant
  <2> HIDE DEF c
  <2>4. c \in Calls /\ call[c].pc = "acquiring" /\ call[c].limiter = l
    BY <1>s, <1>w, <2>2
  <2>5. /\ call' \in [Calls -> Call] /\ call'[c].pc = "held" /\ call'[c].limiter = l
        /\ \A d \in Calls : d # c => call'[d] = call[d]
    BY <1>t, <2>3, <2>4 DEF Call
  <2>6. \A m \in Limiters : c \notin ToSet(cancelFuncs[m])
    BY <1>h, <2>4 DEF Listed
  <2>7. /\ Append(cancelFuncs[l], c) \in Seq(Calls)
        /\ Len(Append(cancelFuncs[l], c)) = Len(cancelFuncs[l]) + 1
        /\ ToSet(Append(cancelFuncs[l], c)) = ToSet(cancelFuncs[l]) \cup {c}
        /\ Distinct(Append(cancelFuncs[l], c))
    BY <1>h, <1>s, <2>4, <2>6, AppendToList DEF Listed
  <2>8. LimiterTypeOK'
    BY <1>t, <2>1, <2>2, <2>3, <2>5, <2>7 DEF LimiterTypeOK
  <2>9. WaitersListed'
    <3>1. \A m \in Limiters : m # l => c \notin ToSet(acquire[m])
      BY <1>w, <2>4
    <3>2. ASSUME NEW m \in Limiters
          PROVE  /\ Distinct(acquire'[m])
                 /\ \A d \in ToSet(acquire'[m]) : call'[d].pc = "acquiring" /\ call'[d].limiter = m
      <4>1. CASE m = l
        BY <1>s, <1>t, <1>w, <2>2, <2>3, <2>5, <4>1
      <4>2. CASE m # l
        BY <1>s, <1>t, <1>w, <2>3, <2>5, <3>1, <4>2
      <4>3. QED
        BY <4>1, <4>2
    <3>3. QED
      BY <3>2 DEF WaitersListed
  <2>10. ASSUME NEW m \in Limiters
         PROVE  Listed(m)'
    <3>1. CASE m = l
      <4>1. cancelFuncs'[m] = Append(cancelFuncs[l], c)
        BY <1>t, <2>3, <3>1
      <4>2. QED
        BY <1>h, <1>s, <2>5, <2>7, <3>1, <4>1 DEF Listed
    <3>2. CASE m # l
      <4>1. cancelFuncs'[m] = cancelFuncs[m]
        BY <1>t, <2>3, <3>2
      <4>2. QED
        BY <1>h, <1>s, <2>5, <2>6, <3>2, <4>1 DEF Listed
    <3>3. QED
      BY <3>1, <3>2
  <2>11. WithinLimit'
    BY <1>s, <1>t, <1>w, <2>1, <2>3, <2>7 DEF WithinLimit
  <2>12. QED
    BY <1>q, <2>8, <2>9, <2>10, <2>11
<1>4. ASSUME NEW c \in Calls, Release(c)
      PROVE  LimiterInv'
  <2> DEFINE l == call[c].limiter
  <2>1. /\ call[c].pc = "held" /\ UNCHANGED <<limit, acquire>> /\ l \in Limiters
        /\ cancelFuncs' = [cancelFuncs EXCEPT ![l] = RemoveFirst(cancelFuncs[l], c)]
        /\ call' = [call EXCEPT ![c] = NoCall]
    BY <1>4, <1>t DEF Release, Call
  <2>2. \A m \in Limiters : m # l => c \notin ToSet(cancelFuncs[m])
    BY <1>h DEF Listed
  <2> HIDE DEF l
  <2>3. call' \in [Calls -> Call] /\ call'[c].pc = "idle"
        /\ \A d \in Calls : d # c => call'[d] = call[d]
    BY <1>n, <1>t, <2>1
  <2>4. /\ RemoveFirst(cancelFuncs[l], c) \in Seq(Calls)
        /\ Len(RemoveFirst(cancelFuncs[l], c)) <= Len(cancelFuncs[l])
        /\ ToSet(RemoveFirst(cancelFuncs[l], c)) = ToSet(cancelFuncs[l]) \ {c}
        /\ Distinct(RemoveFirst(cancelFuncs[l], c))
    BY <1>h, <1>s, <2>1, RemoveFromList DEF Listed
  <2>5. LimiterTypeOK'
    BY <1>t, <2>1, <2>3, <2>4 DEF LimiterTypeOK
  <2>6. WaitersListed'
    BY <1>s, <1>w, <2>1, <2>3 DEF WaitersListed
  <2>7. ASSUME NEW m \in Limiters
        PROVE  Listed(m)'
    <3>1. CASE m = l
      <4>1. cancelFuncs'[m] = RemoveFirst(cancelFuncs[l], c)
        BY <1>t, <2>1, <3>1
      <4>2. Listed(l) /\ ToSet(cancelFuncs'[m]) = ToSet(cancelFuncs[l]) \ {c}
        BY <1>h, <2>1, <2>4, <4>1
      <4>3. \A d \in ToSet(cancelFuncs'[m]) : call'[d].pc = "held" /\ call'[d].limiter = m
        BY <1>s, <2>3, <3>1, <4>2 DEF Listed
      <4>4. \A d \in Calls : call'[d].pc = "held" /\ call'[d].limiter = m /\ ~call'[d].canceled
                               => d \in ToSet(cancelFuncs'[m])
        BY <2>3, <3>1, <4>2 DEF Listed
      <4>5. QED
        BY <2>4, <4>1, <4>3, <4>4 DEF Listed
    <3>2. CASE m # l
      <4>1. cancelFuncs'[m] = cancelFuncs[m]
        BY <1>t, <2>1, <3>2
      <4>2. QED
        BY <1>h, <1>s, <2>2, <2>3, <3>2, <4>1 DEF Listed
    <3>3. QED
      BY <3>1, <3>2
  <2>8. WithinLimit'
    <3>1. Len(RemoveFirst(cancelFuncs[l], c)) \in Nat
      BY <2>4, LenProperties
    <3>2. QED
      BY <1>s, <1>t, <1>w, <2>1, <2>4, <3>1 DEF WithinLimit
  <2>9. QED
    BY <1>q, <2>5, <2>6, <2>7, <2>8
<1>c. ASSUME NEW S \in SUBSET Calls, CancelAll(S)
      PROVE  /\ call' \in [Calls -> Call]
             /\ \A c \in Calls : /\ call'[c].pc = call[c].pc /\ call'[c].limiter = call[c].limiter
                                 /\ call[c].canceled => call'[c].canceled
                                 /\ c \in S => call'[c].canceled
                                 /\ c \notin S => call'[c] = call[c]
  <2>1. \A c \in Calls : LET r == [call[c] EXCEPT !.canceled = TRUE]
                         IN  r \in Call /\ r.pc = call[c].pc /\ r.limiter = call[c].limiter
                             /\ r.canceled
    BY <1>t DEF Call
  <2>2. \A c \in Calls : call'[c] = IF c \in S THEN [call[c] EXCEPT !.canceled = TRUE] ELSE call[c]
    BY <1>c DEF CancelAll
  <2>3. \A c \in Calls : call'[c] \in Call
    BY <1>t, <2>1, <2>2
  <2>4. call' = [c \in Calls |-> call'[c]]
    BY <1>c DEF CancelAll
  <2>5. call' \in [Calls -> Call]
    BY <2>3, <2>4
  <2>6. QED
    BY <2>1, <2>2, <2>5
<1>5. ASSUME NEW l \in Limiters, NEW n \in Limits, SetLimit(l, n)
      PROVE  LimiterInv'
  <2> DEFINE list == cancelFuncs[l]
             kept == Newest(list, n)
  <2>1. /\ limit' = [limit EXCEPT ![l] = n] /\ UNCHANGED acquire
        /\ cancelFuncs' = [cancelFuncs EXCEPT ![l] = kept]
        /\ CancelAll(ToSet(list) \ ToSet(kept))
    BY <1>5 DEF SetLimit
  <2>2. n \in Int /\ list \in Seq(Calls) /\ Distinct(list) /\ Len(list) \in Nat
        /\ ToSet(list) \subseteq Calls
    BY <1>h, <1>s DEF Listed
  <2>3. /\ kept \in Seq(Calls) /\ ToSet(kept) \subseteq ToSet(list) /\ Distinct(kept)
        /\ n < 0 \/ Len(list) <= n => kept = list
        /\ n >= 0 /\ Len(list) > n => Len(kept) = n
    BY <2>2, NewestOfList
  <2> HIDE DEF kept
  <2>4. ToSet(list) \ ToSet(kept) \in SUBSET Calls
    BY <2>2
  <2>5. /\ call' \in [Calls -> Call]
        /\ \A c \in Calls : /\ call'[c].pc = call[c].pc /\ call'[c].limiter = call[c].limiter
                            /\ call[c].canceled => call'[c].canceled
                            /\ c \in ToSet(list) \ ToSet(kept) => call'[c].canceled
    BY <1>c, <2>1, <2>4
  <2>6. LimiterTypeOK'
    BY <1>t, <2>1, <2>2, <2>3, <2>5 DEF LimiterTypeOK
  <2>7. WaitersListed'
    BY <1>s, <1>w, <2>1, <2>5 DEF WaitersListed
  <2>8. ASSUME NEW m \in Limiters
        PROVE  Listed(m)'
    <3>1. CASE m = l
      <4>1. cancelFuncs'[m] = kept
        BY <1>t, <2>1, <3>1
      <4>2. Listed(l)
        BY <1>h
      <4>3. QED
        BY <1>s, <2>3, <2>5, <3>1, <4>1, <4>2 DEF Listed
    <3>2. CASE m # l
      <4>1. cancelFuncs'[m] = cancelFuncs[m]
        BY <1>t, <2>1, <3>2
      <4>2. QED
        BY <1>h, <1>s, <2>5, <4>1 DEF Listed
    <3>3. QED
      BY <3>1, <3>2
  <2>9. WithinLimit'
    BY <1>t, <1>w, <2>1, <2>2, <2>3 DEF WithinLimit
  <2>10. QED
    BY <1>q, <2>6, <2>7, <2>8, <2>9
<1>6. ASSUME NEW S \in SUBSET Calls, CancelParents(S)
      PROVE  LimiterInv'
  <2>1. CancelAll(S) /\ UNCHANGED <<limit, cancelFuncs, acquire>>
    BY <1>6 DEF CancelParents
  <2>2. /\ call' \in [Calls -> Call]
        /\ \A c \in Calls : /\ call'[c].pc = call[c].pc /\ call'[c].limiter = call[c].limiter
                            /\ call[c].canceled => call'[c].canceled
    BY <1>c, <2>1
  <2>3. LimiterTypeOK' /\ WithinLimit'
    BY <1>t, <1>w, <2>1, <2>2 DEF LimiterTypeOK, WithinLimit
  <2>4. WaitersListed'
    BY <1>s, <1>w, <2>1, <2>2 DEF WaitersListed
  <2>5. \A m \in Limiters : Listed(m)'
    BY <1>h, <1>s, <2>1, <2>2 DEF Listed
  <2>6. QED
    BY <1>q, <2>3, <2>4, <2>5
<1>7. CASE UNCHANGED limiterVars
  BY <1>7 DEF limiterVars, LimiterInv, LimiterTypeOK, WithinLimit, HoldersListed, WaitersListed,
              Distinct
<1>8. QED
  BY <1>1, <1>2, <1>3, <1>4, <1>5, <1>6, <1>7 DEF LimiterNext

LEMMA LimiterStarts ==
  ASSUME LimiterInit
  PROVE  LimiterInv
<1>n. NoCall \in Call /\ NoCall.pc = "idle"
  BY DEF NoCall, Call
<1>1. LimiterTypeOK /\ WithinLimit
  BY <1>n DEF LimiterInit, LimiterTypeOK, WithinLimit
<1>2. WaitersListed
  BY EmptyList DEF LimiterInit, WaitersListed
<1>3. HoldersListed
  BY <1>n DEF LimiterInit, HoldersListed
<1>4. QED
  BY <1>1, <1>2, <1>3 DEF LimiterInv

(***************************************************************************)
(* The list of a limiter is within its limit and is the set of holders     *)
(* that may go on, whatever contexts and limits change.                    *)
(***************************************************************************)
THEOREM LimiterInvariant == LimiterSpec => []LimiterInv
<1>1. LimiterInit => LimiterInv
  BY LimiterStarts
<1>2. LimiterInv /\ [LimiterNext]_limiterVars => LimiterInv'
  BY LimiterStepKeeps
<1>3. QED
  BY <1>1, <1>2, PTL DEF LimiterSpec
=============================================================================
