---------------------------- MODULE RetryBackoff ----------------------------
(***************************************************************************)
(* The numbers of the retries (lib/utils/azure_queues.ts), which           *)
(* QueueDelivery leaves out: one message whose every attempt meets a       *)
(* transient error, the delays between the attempts, and the time it all   *)
(* takes.  Time is in seconds unless a name says Ms.                       *)
(***************************************************************************)
EXTENDS Naturals

CONSTANTS MaxBackoffMs,       \* azure_queues.ts: MAX_BACKOFF_MS
          MinBackoffMs,       \* azure_queues.ts: MIN_BACKOFF_MS
          MaxDequeueCount,    \* host.json: queues.maxDequeueCount
          VisibilityTimeout,  \* host.json: queues.visibilityTimeout
          MaxTimeToLive,      \* the longest time to live a sender may ask for
          MaxSkipped          \* a bound on the visibility updates that fail

ASSUME BackoffAssumption ==
  /\ {MinBackoffMs, MaxBackoffMs, MaxDequeueCount, VisibilityTimeout} \subseteq Nat \ {0}
  /\ MinBackoffMs <= MaxBackoffMs
  /\ {MaxTimeToLive, MaxSkipped} \subseteq Nat

\* Math.pow(2, n).
PowerOf2[n \in Nat] == IF n = 0 THEN 1 ELSE 2 * PowerOf2[n - 1]

\* The backoff, before it is rounded.
BackoffMs(retries) == MinBackoffMs * PowerOf2[retries]

\* "MAX_RETRIES *must* equal (maxDequeueCount - 1)", of which the source has the
\* logarithm of a ratio and host.json has a number.
ASSUME RetriesAssumption ==
  /\ BackoffMs(MaxDequeueCount - 1) <= MaxBackoffMs
  /\ BackoffMs(MaxDequeueCount) > MaxBackoffMs

\* Rounded up to a second, the longest backoff stays within its limit, and so does
\* the timeout of the host.
ASSUME RoundingAssumption ==
  /\ BackoffMs(MaxDequeueCount - 1) + 1000 <= MaxBackoffMs
  /\ VisibilityTimeout * 1000 < MaxBackoffMs

\* The longest time to live ends between the last two attempts: the backoffs before
\* attempt n add up to BackoffMs(n) - BackoffMs(1), each one rounded up by less than a
\* second.
ASSUME TimeToLiveAssumption ==
  /\ MaxTimeToLive * 1000 < BackoffMs(MaxDequeueCount) - BackoffMs(1)
  /\ MaxTimeToLive * 1000 >
       BackoffMs(MaxDequeueCount - 1) - BackoffMs(1) + 1000 * MaxDequeueCount

VARIABLES
  dequeueCount,  \* the number of the attempt
  elapsed,       \* the time since the message was queued
  delay,         \* the last delay
  skipped,       \* how many visibility updates failed
  state          \* "running", "hidden", "givenUp" or "poisoned"

vars == <<dequeueCount, elapsed, delay, skipped, state>>

\* Variant: rounds up instead of down.
MaxRetriesRoundedUp ==
  CHOOSE k \in 1..MaxDequeueCount :
    /\ BackoffMs(k) >= MaxBackoffMs
    /\ BackoffMs(k - 1) < MaxBackoffMs

\* MAX_RETRIES: the logarithm to base 2 of the ratio, rounded down.  (It is
\* known to be below maxDequeueCount; a larger range would overflow.)
MaxRetries ==
  CHOOSE k \in 0..(MaxDequeueCount - 1) :
    /\ BackoffMs(k) <= MaxBackoffMs
    /\ BackoffMs(k + 1) > MaxBackoffMs

\* getDelaySecForRetries: is there a delay, and which; rounded up to a second.
HasDelay(retries) == retries <= MaxRetries

\* Variant: counts the retries from zero.
DelaySecFromZero(retries) == (BackoffMs(retries - 1) + 999) \div 1000

DelaySec(retries) == (BackoffMs(retries) + 999) \div 1000

Init ==
  /\ dequeueCount = 1
  /\ elapsed = 0
  /\ delay = 0
  /\ skipped = 0
  /\ state = "running"

\* The visibility update succeeds: the message is hidden for the delay.
Postpone ==
  /\ state = "running"
  /\ HasDelay(dequeueCount)
  /\ delay' = DelaySec(dequeueCount)
  /\ state' = "hidden"
  /\ UNCHANGED <<dequeueCount, elapsed, skipped>>

\* The visibility update fails: the host's timeout applies.
SkipPostpone ==
  /\ state = "running"
  /\ HasDelay(dequeueCount)
  /\ skipped < MaxSkipped
  /\ delay' = VisibilityTimeout
  /\ skipped' = skipped + 1
  /\ state' = "hidden"
  /\ UNCHANGED <<dequeueCount, elapsed>>

\* No delay is left: the handler stops processing.
GiveUp ==
  /\ state = "running"
  /\ ~HasDelay(dequeueCount)
  /\ state' = "givenUp"
  /\ UNCHANGED <<dequeueCount, elapsed, delay, skipped>>

\* The delay is over: the host dequeues the message again, or puts it into the
\* poison queue when it was dequeued often enough.
Dequeue ==
  /\ state = "hidden"
  /\ elapsed' = elapsed + delay
  /\ IF dequeueCount < MaxDequeueCount
     THEN dequeueCount' = dequeueCount + 1 /\ state' = "running"
     ELSE state' = "poisoned" /\ UNCHANGED dequeueCount
  /\ UNCHANGED <<delay, skipped>>

Next == Postpone \/ SkipPostpone \/ GiveUp \/ Dequeue

Spec == Init /\ [][Next]_vars

-----------------------------------------------------------------------------
(* Properties.                                                             *)

\* "Any delay must be less than 7 days": a longer one is refused by the queue,
\* and the message would be retried at once.
DelayIsBounded == delay * 1000 < MaxBackoffMs

\* The delays last exactly until the host stops dequeuing: no message runs out of
\* delays early, and none is poisoned while the handler still asks for retries
\* (the unit test "should have MAX_RETRIES = maxDequeueCount - 1").
RetriesMatchDequeues ==
  /\ state = "givenUp" => dequeueCount = MaxDequeueCount
  /\ state # "poisoned"

\* The backoff outlasts the message: when no visibility update fails, the last
\* attempt comes when the longest time to live is over, so that it finds the
\* message expired, and the one before it while the message is still alive.
LastAttemptIsTooLate ==
  skipped = 0 /\ state = "running" =>
    /\ dequeueCount = MaxDequeueCount => elapsed > MaxTimeToLive
    /\ dequeueCount < MaxDequeueCount => elapsed < MaxTimeToLive
=============================================================================
