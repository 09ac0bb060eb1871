------------------------- MODULE RetryBackoffProofs -------------------------
(***************************************************************************)
(* Proofs about RetryBackoff for all constants with the assumptions named  *)
(* there.  TLC evaluates the assumptions for the numbers of the source.    *)
(***************************************************************************)
EXTENDS RetryBackoff, WellFoundedInduction, TLAPS

-----------------------------------------------------------------------------
(* Powers of 2.  Every set of numbers that is not empty has a least one:   *)
(* applied to the set of the counterexamples, this is induction.           *)

LEMMA LeastNumber ==
  ASSUME NEW S \in SUBSET Nat, S # {}
  PROVE  \E n \in S : \A k \in S : n <= k
<1>1. OpToRel(<, Nat) = {p \in Nat \X Nat : p[1] < p[2]}
  BY DEF OpToRel
<1>2. IsWellFoundedOn({p \in Nat \X Nat : p[1] < p[2]}, Nat)
  BY <1>1, NatLessThanWellFounded
<1>3. PICK n \in S : \A k \in S : <<k, n>> \notin {p \in Nat \X Nat : p[1] < p[2]}
  BY <1>2, WFMin
<1>4. ASSUME NEW k \in S
      PROVE  n <= k
  <2>1. k \in Nat /\ n \in Nat
    OBVIOUS
  <2>2. ~(k < n)
    BY <1>3, <2>1
  <2> QED
    BY <2>1, <2>2
<1> QED
  BY <1>4

\* g is the powers of 2 up to n.
PowersUpTo(n, g) ==
  /\ g \in [0..n -> Nat]
  /\ \A k \in 0..n : g[k] = IF k = 0 THEN 1 ELSE 2 * g[k - 1]

LEMMA PowersExist == \A n \in Nat : \E g : PowersUpTo(n, g)
<1> DEFINE Bad == {n \in Nat : ~ \E g : PowersUpTo(n, g)}
<1> SUFFICES ASSUME Bad # {}
             PROVE  FALSE
  OBVIOUS
<1>1. PICK n \in Bad : \A k \in Bad : n <= k
  BY LeastNumber
<1>2. CASE n = 0
  <2>1. PowersUpTo(0, [k \in 0..0 |-> 1])
    BY DEF PowersUpTo
  <2> QED
    BY <1>2, <2>1
<1>3. CASE n # 0
  <2>1. n - 1 \in Nat /\ n - 1 \notin Bad
    BY <1>1, <1>3
  <2>2. PICK g : PowersUpTo(n - 1, g)
    BY <2>1
  <2>3. PowersUpTo(n, [k \in 0..n |-> IF k = n THEN 2 * g[n - 1] ELSE g[k]])
    BY <1>3, <2>1, <2>2 DEF PowersUpTo
  <2> QED
    BY <2>3
<1> QED
  BY <1>2, <1>3

LEMMA PowersUnique ==
  ASSUME NEW n \in Nat, NEW m \in Nat, NEW g, NEW h, PowersUpTo(n, g), PowersUpTo(m, h)
  PROVE  \A k \in Nat : k <= n /\ k <= m => g[k] = h[k]
<1> DEFINE Bad == {k \in Nat : k <= n /\ k <= m /\ g[k] # h[k]}
<1> SUFFICES ASSUME Bad # {}
             PROVE  FALSE
  OBVIOUS
<1>1. PICK k \in Bad : \A j \in Bad : k <= j
  BY LeastNumber
<1>2. k # 0
  BY DEF PowersUpTo
<1>3. g[k - 1] = h[k - 1]
  BY <1>1, <1>2
<1> QED
  BY <1>2, <1>3 DEF PowersUpTo

\* The recursive definition defines a function.
LEMMA PowerExists == \E f : f = [n \in Nat |-> IF n = 0 THEN 1 ELSE 2 * f[n - 1]]
<1> DEFINE G(n) == CHOOSE g : PowersUpTo(n, g)
           f == [n \in Nat |-> G(n)[n]]
<1>1. \A n \in Nat : PowersUpTo(n, G(n))
  BY PowersExist
<1> HIDE DEF G
<1>2. ASSUME NEW n \in Nat
      PROVE  f[n] = IF n = 0 THEN 1 ELSE 2 * f[n - 1]
  <2>1. CASE n = 0
    BY <1>1, <2>1 DEF PowersUpTo
  <2>2. CASE n # 0
    <3>1. n - 1 \in Nat /\ G(n)[n] = 2 * G(n)[n - 1]
      BY <1>1, <2>2 DEF PowersUpTo
    <3>2. G(n)[n - 1] = G(n - 1)[n - 1]
      BY <1>1, <3>1, PowersUnique
    <3> QED
      BY <2>2, <3>1, <3>2
  <2> QED
    BY <2>1, <2>2
<1>3. f = [n \in Nat |-> IF n = 0 THEN 1 ELSE 2 * f[n - 1]]
  BY <1>2
<1> HIDE DEF f
<1> QED
  BY <1>3

LEMMA PowerStep ==
  /\ PowerOf2[0] = 1
  /\ \A n \in Nat : PowerOf2[n + 1] = 2 * PowerOf2[n]
<1>1. PowerOf2 = [n \in Nat |-> IF n = 0 THEN 1 ELSE 2 * PowerOf2[n - 1]]
  BY PowerExists DEF PowerOf2
<1>2. PowerOf2[0] = 1
  BY <1>1
<1>3. ASSUME NEW n \in Nat
      PROVE  PowerOf2[n + 1] = 2 * PowerOf2[n]
  <2>1. n + 1 \in Nat /\ n + 1 # 0 /\ (n + 1) - 1 = n
    OBVIOUS
  <2> QED
    BY <1>1, <2>1
<1> QED
  BY <1>2, <1>3

LEMMA PowerType == \A n \in Nat : PowerOf2[n] \in Nat \ {0}
<1> DEFINE Bad == {n \in Nat : PowerOf2[n] \notin Nat \ {0}}
<1> SUFFICES ASSUME Bad # {}
             PROVE  FALSE
  OBVIOUS
<1>1. PICK n \in Bad : \A k \in Bad : n <= k
  BY LeastNumber
<1>2. n # 0
  BY PowerStep
<1>3. n - 1 \in Nat /\ PowerOf2[n - 1] \in Nat \ {0} /\ (n - 1) + 1 = n
  BY <1>1, <1>2
<1> QED
  BY <1>3, PowerStep

-----------------------------------------------------------------------------
(* The backoffs.                                                           *)

LEMMA BackoffType == \A n \in Nat : BackoffMs(n) \in Nat \ {0}
BY PowerType, BackoffAssumption DEF BackoffMs

\* Each backoff is twice the one before.
LEMMA BackoffStep == \A n \in Nat : BackoffMs(n + 1) = 2 * BackoffMs(n)
<1> SUFFICES ASSUME NEW n \in Nat
             PROVE  BackoffMs(n + 1) = 2 * BackoffMs(n)
  OBVIOUS
<1>1. ASSUME NEW a \in Nat, NEW b \in Nat
      PROVE  a * (2 * b) = 2 * (a * b)
  OBVIOUS
<1> QED
  BY <1>1, PowerStep, PowerType, BackoffAssumption DEF BackoffMs

\* So they grow.
LEMMA BackoffGrows ==
  ASSUME NEW n \in Nat, NEW m \in Nat, n <= m
  PROVE  BackoffMs(n) <= BackoffMs(m)
<1> DEFINE Bad == {k \in Nat : n <= k /\ ~(BackoffMs(n) <= BackoffMs(k))}
<1> SUFFICES ASSUME Bad # {}
             PROVE  FALSE
  OBVIOUS
<1>1. PICK k \in Bad : \A j \in Bad : k <= j
  BY LeastNumber
<1>2. k # n
  BY BackoffType
<1>3. k - 1 \in Nat /\ n <= k - 1 /\ (k - 1) + 1 = k
  BY <1>2
<1>4. BackoffMs(n) <= BackoffMs(k - 1)
  BY <1>1, <1>3
<1>5. BackoffMs(k) = 2 * BackoffMs(k - 1)
  BY <1>3, BackoffStep
<1> QED
  BY <1>3, <1>4, <1>5, BackoffType

\* A delay is the backoff rounded up to a second.
LEMMA DelayBounds ==
  ASSUME NEW n \in Nat
  PROVE  /\ DelaySec(n) \in Nat
         /\ BackoffMs(n) <= DelaySec(n) * 1000
         /\ DelaySec(n) * 1000 <= BackoffMs(n) + 999
BY BackoffType DEF DelaySec

\* The logarithm is well defined: no number but the one that RetriesAssumption names is
\* that of the last backoff within the limit.
LEMMA MaxRetriesCorrect == MaxRetries = MaxDequeueCount - 1
<1> DEFINE Last == MaxDequeueCount - 1
<1>1. Last \in 0..Last /\ Last \in Nat /\ Last + 1 = MaxDequeueCount
  BY BackoffAssumption
<1>2. BackoffMs(Last) <= MaxBackoffMs /\ BackoffMs(Last + 1) > MaxBackoffMs
  BY <1>1, RetriesAssumption
<1>3. ASSUME NEW k \in 0..Last, BackoffMs(k + 1) > MaxBackoffMs
      PROVE  k = Last
  <2>1. CASE k + 1 <= Last
    <3>1. BackoffMs(k + 1) <= BackoffMs(Last)
      BY <1>1, <2>1, BackoffGrows
    <3> QED
      BY <1>1, <1>2, <1>3, <3>1, BackoffType, BackoffAssumption
  <2>2. CASE k + 1 > Last
    BY <1>1, <2>2
  <2> QED
    BY <1>1, <2>1, <2>2
<1> HIDE DEF Last
<1>4. (CHOOSE k \in 0..Last : BackoffMs(k) <= MaxBackoffMs /\ BackoffMs(k + 1) > MaxBackoffMs)
        = Last
  BY <1>1, <1>2, <1>3
<1> QED
  BY <1>4 DEF MaxRetries, Last

LEMMA HasDelayBeforeLast == \A n : HasDelay(n) <=> n <= MaxDequeueCount - 1
BY MaxRetriesCorrect DEF HasDelay

-----------------------------------------------------------------------------
(* The invariant.                                                          *)

BackoffTypeOK ==
  /\ dequeueCount \in 1..MaxDequeueCount
  /\ elapsed \in Nat /\ delay \in Nat /\ skipped \in Nat
  /\ state \in {"running", "hidden", "givenUp"}

\* As long as no visibility update has failed, the time that has passed when attempt n
\* starts is the sum of the backoffs before it, each of them rounded up.
OnTime(n, time) ==
  /\ BackoffMs(n) - BackoffMs(1) <= time * 1000
  /\ time * 1000 <= BackoffMs(n) - BackoffMs(1) + 1000 * n

BackoffInv ==
  /\ BackoffTypeOK
  /\ DelayIsBounded
  /\ state = "hidden" => HasDelay(dequeueCount)
  /\ state = "givenUp" => ~HasDelay(dequeueCount)
  /\ skipped = 0 /\ state \in {"running", "hidden"} => OnTime(dequeueCount, elapsed)
  /\ skipped = 0 /\ state = "hidden" => delay = DelaySec(dequeueCount)

LEMMA OnTimeStep ==
  ASSUME NEW n \in Nat, NEW time \in Nat, OnTime(n, time)
  PROVE  OnTime(n + 1, time + DelaySec(n))
<1>1. /\ BackoffMs(n) \in Nat /\ BackoffMs(1) \in Nat /\ DelaySec(n) \in Nat
      /\ BackoffMs(n) <= DelaySec(n) * 1000
      /\ DelaySec(n) * 1000 <= BackoffMs(n) + 999
  BY BackoffType, DelayBounds
<1>2. BackoffMs(n + 1) = 2 * BackoffMs(n)
  BY BackoffStep
<1> QED
  BY <1>1, <1>2 DEF OnTime

LEMMA DelayIsShort ==
  ASSUME NEW n \in 1..MaxDequeueCount, HasDelay(n)
  PROVE  DelaySec(n) \in Nat /\ DelaySec(n) * 1000 < MaxBackoffMs
<1>1. n \in Nat /\ MaxDequeueCount - 1 \in Nat /\ n <= MaxDequeueCount - 1
  BY HasDelayBeforeLast, BackoffAssumption
<1>2. BackoffMs(n) <= BackoffMs(MaxDequeueCount - 1)
  BY <1>1, BackoffGrows
<1>3. DelaySec(n) \in Nat /\ DelaySec(n) * 1000 <= BackoffMs(n) + 999
  BY <1>1, DelayBounds
<1> QED
  BY <1>1, <1>2, <1>3, BackoffType, BackoffAssumption, RoundingAssumption

LEMMA BackoffInvInit == Init => BackoffInv
<1> SUFFICES ASSUME Init
             PROVE  BackoffInv
  OBVIOUS
<1>1. BackoffTypeOK /\ DelayIsBounded
  BY BackoffAssumption DEF Init, BackoffTypeOK, DelayIsBounded
<1>2. OnTime(1, 0)
  BY BackoffType DEF OnTime
<1> QED
  BY <1>1, <1>2 DEF Init, BackoffInv

LEMMA BackoffInvStep == BackoffInv /\ [Next]_vars => BackoffInv'
<1> SUFFICES ASSUME BackoffInv, [Next]_vars
             PROVE  BackoffInv'
  OBVIOUS
<1> USE DEF BackoffInv, BackoffTypeOK, DelayIsBounded
<1>1. CASE Postpone
  <2>1. delay' \in Nat /\ delay' * 1000 < MaxBackoffMs
    BY <1>1, DelayIsShort DEF Postpone
  <2>2. /\ HasDelay(dequeueCount)'
        /\ OnTime(dequeueCount, elapsed)' <=> OnTime(dequeueCount, elapsed)
    BY <1>1 DEF Postpone, HasDelay, OnTime
  <2> QED
    BY <1>1, <2>1, <2>2 DEF Postpone
<1>2. CASE SkipPostpone
  BY <1>2, BackoffAssumption, RoundingAssumption DEF SkipPostpone, HasDelay
<1>3. CASE GiveUp
  BY <1>3 DEF GiveUp, HasDelay
<1>4. CASE Dequeue
  <2>1. dequeueCount \in Nat /\ dequeueCount < MaxDequeueCount
    BY <1>4, HasDelayBeforeLast, BackoffAssumption DEF Dequeue
  <2>2. /\ dequeueCount' = dequeueCount + 1 /\ state' = "running"
        /\ elapsed' = elapsed + delay /\ delay' = delay /\ skipped' = skipped
    BY <1>4, <2>1 DEF Dequeue
  <2>3. skipped = 0 => OnTime(dequeueCount + 1, elapsed + delay)
    BY <1>4, <2>1, OnTimeStep DEF Dequeue
  <2>4. skipped' = 0 => OnTime(dequeueCount, elapsed)'
    BY <2>2, <2>3 DEF OnTime
  <2> QED
    BY <2>1, <2>2, <2>4, BackoffAssumption
<1>5. CASE UNCHANGED vars
  BY <1>5 DEF vars, HasDelay, OnTime
<1> QED
  BY <1>1, <1>2, <1>3, <1>4, <1>5 DEF Next

LEMMA BackoffInvariant == Spec => []BackoffInv
BY BackoffInvInit, BackoffInvStep, PTL DEF Spec

-----------------------------------------------------------------------------
(* The theorems.                                                           *)

\* No delay reaches the limit of the queue: see DelayIsBounded.
THEOREM DelayIsBoundedCorrect == Spec => []DelayIsBounded
<1>1. BackoffInv => DelayIsBounded
  BY DEF BackoffInv
<1> QED
  BY <1>1, BackoffInvariant, PTL

\* The delays last exactly as long as the host dequeues: see RetriesMatchDequeues.
THEOREM RetriesMatchDequeuesCorrect == Spec => []RetriesMatchDequeues
<1>1. BackoffInv => RetriesMatchDequeues
  <2> SUFFICES ASSUME BackoffInv
               PROVE  RetriesMatchDequeues
    OBVIOUS
  <2>1. state = "givenUp" => ~(dequeueCount <= MaxDequeueCount - 1)
    BY HasDelayBeforeLast DEF BackoffInv
  <2> QED
    BY <2>1, BackoffAssumption DEF BackoffInv, BackoffTypeOK, RetriesMatchDequeues
<1> QED
  BY <1>1, BackoffInvariant, PTL

\* The last attempt, and no other, comes after the longest time to live: see
\* LastAttemptIsTooLate.
THEOREM LastAttemptIsTooLateCorrect == Spec => []LastAttemptIsTooLate
<1>1. BackoffInv => LastAttemptIsTooLate
  <2> SUFFICES ASSUME BackoffInv, skipped = 0, state = "running"
               PROVE  /\ dequeueCount = MaxDequeueCount => elapsed > MaxTimeToLive
                      /\ dequeueCount < MaxDequeueCount => elapsed < MaxTimeToLive
    BY DEF LastAttemptIsTooLate
  <2> DEFINE sum == BackoffMs(dequeueCount) - BackoffMs(1)
  <2>1. /\ dequeueCount \in 1..MaxDequeueCount /\ dequeueCount \in Nat /\ elapsed \in Nat
        /\ sum <= elapsed * 1000 /\ elapsed * 1000 <= sum + 1000 * dequeueCount
    BY BackoffAssumption DEF BackoffInv, BackoffTypeOK, OnTime
  <2>2. CASE dequeueCount = MaxDequeueCount
    BY <2>1, <2>2, BackoffType, BackoffAssumption, TimeToLiveAssumption
  <2>3. CASE dequeueCount < MaxDequeueCount
    <3>1. MaxDequeueCount - 1 \in Nat /\ dequeueCount <= MaxDequeueCount - 1
      BY <2>1, <2>3, BackoffAssumption
    <3>2. BackoffMs(dequeueCount) <= BackoffMs(MaxDequeueCount - 1)
      BY <2>1, <3>1, BackoffGrows
    <3> QED
      BY <2>1, <2>3, <3>1, <3>2, BackoffType, BackoffAssumption, TimeToLiveAssumption
  <2> QED
    BY <2>1, <2>2, <2>3
<1> QED
  BY <1>1, BackoffInvariant, PTL
=============================================================================
