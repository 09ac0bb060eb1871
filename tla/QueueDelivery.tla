--------------------------- MODULE QueueDelivery ---------------------------
(***************************************************************************)
(* One Azure storage queue, the Functions host that runs a handler for     *)
(* every message it dequeues, and the failure handling every queue handler *)
(* delegates to (lib/utils/azure_queues.ts).                               *)
(*                                                                         *)
(* An attempt is one invocation of the handler: attempt n of message m is  *)
(* the one that dequeued m with dequeueCount = n.  Attempts of different   *)
(* messages, and of the same message, run concurrently.  What a handler    *)
(* does between the dequeue and its outcome is left open here; the handler *)
(* modules refine it.                                                      *)
(*                                                                         *)
(* The queue and the host are not in the repository.  They are modelled    *)
(* from how the code uses them: host.json ("queues"), the pop receipt      *)
(* passed to updateMessage, and the comment on MAX_RETRIES.                *)
(***************************************************************************)
EXTENDS Naturals

CONSTANTS Msgs,             \* the messages that are ever sent to the queue
          MaxDequeueCount,  \* host.json: queues.maxDequeueCount
          MaxRetries        \* azure_queues.ts: MAX_RETRIES

(***************************************************************************)
(* The comment on MAX_RETRIES asks for MaxRetries = MaxDequeueCount - 1    *)
(* and a unit test checks it; only the inequality matters for safety.      *)
(***************************************************************************)
ASSUME QueueAssumption == /\ MaxDequeueCount \in Nat \ {0}
                          /\ MaxRetries \in Nat
                          /\ MaxRetries < MaxDequeueCount

Attempts == 1..MaxDequeueCount

VARIABLES
  visibility,    \* visibility[m]: where the message is in the queue's eyes
  dequeueCount,  \* dequeueCount[m]: how often m was dequeued
  owner,         \* owner[m]: the attempt whose pop receipt is valid, 0 if none
  pc,            \* pc[m][n]: where attempt n of m is
  outcome,       \* outcome[m][n]: the error attempt n is dealing with, or "ok"
  poisoned       \* poisoned[m]: copies of m put into the poison queue

queueVars == <<visibility, dequeueCount, owner, pc, outcome, poisoned>>

Visibility == {"absent", "visible", "leased", "delayed", "gone"}
Stage == {"idle", "handle", "update", "onTransient", "onPermanent",
          "return", "throw", "over"}
WorkStage == {"handle", "update", "onPermanent", "return"}
Outcome == {"none", "ok", "transient", "permanent"}

Running(m, n) == pc[m][n] \notin {"idle", "over"}

QueueInit ==
  /\ visibility = [m \in Msgs |-> "absent"]
  /\ dequeueCount = [m \in Msgs |-> 0]
  /\ owner = [m \in Msgs |-> 0]
  /\ pc = [m \in Msgs |-> [n \in Attempts |-> "idle"]]
  /\ outcome = [m \in Msgs |-> [n \in Attempts |-> "none"]]
  /\ poisoned = [m \in Msgs |-> 0]

Goto(m, n, stage) == pc' = [pc EXCEPT ![m][n] = stage]

-----------------------------------------------------------------------------
(* The queue and the host.                                                 *)

\* An output binding puts m on the queue.
Enqueue(m) ==
  /\ visibility[m] = "absent"
  /\ visibility' = [visibility EXCEPT ![m] = "visible"]
  /\ UNCHANGED <<dequeueCount, owner, pc, outcome, poisoned>>

\* The visibility timeout of m ends: m can be dequeued again.
BecomeVisible(m) ==
  /\ visibility[m] = "delayed"
  /\ visibility' = [visibility EXCEPT ![m] = "visible"]
  /\ UNCHANGED <<dequeueCount, owner, pc, outcome, poisoned>>

\* Variant: the host does not look at maxDequeueCount.
UnboundedDequeue(m) ==
  /\ visibility[m] = "visible"
  /\ LET n == dequeueCount[m] + 1
     IN  /\ visibility' = [visibility EXCEPT ![m] = "leased"]
         /\ dequeueCount' = [dequeueCount EXCEPT ![m] = n]
         /\ owner' = [owner EXCEPT ![m] = n]
         /\ Goto(m, n, "handle")
  /\ UNCHANGED <<outcome, poisoned>>

\* The host dequeues m and starts an attempt, with a fresh pop receipt.  It
\* keeps renewing the lease until the attempt ends.
Dequeue(m) ==
  /\ visibility[m] = "visible"
  /\ dequeueCount[m] < MaxDequeueCount
  /\ LET n == dequeueCount[m] + 1
     IN  /\ visibility' = [visibility EXCEPT ![m] = "leased"]
         /\ dequeueCount' = [dequeueCount EXCEPT ![m] = n]
         /\ owner' = [owner EXCEPT ![m] = n]
         /\ Goto(m, n, "handle")
  /\ UNCHANGED <<outcome, poisoned>>

\* The host dequeues m once too often (an earlier attempt died without
\* settling it): m goes to the poison queue without being handled.
DeadLetter(m) ==
  /\ visibility[m] = "visible"
  /\ dequeueCount[m] = MaxDequeueCount
  /\ dequeueCount' = [dequeueCount EXCEPT ![m] = @ + 1]
  /\ owner' = [owner EXCEPT ![m] = 0]
  /\ poisoned' = [poisoned EXCEPT ![m] = @ + 1]
  /\ visibility' = [visibility EXCEPT ![m] = "gone"]
  /\ UNCHANGED <<pc, outcome>>

\* An operation on the queue with the pop receipt of attempt n: it takes
\* effect only while that receipt is the valid one.
WithReceipt(m, n, result) ==
  IF owner[m] = n
  THEN /\ visibility' = [visibility EXCEPT ![m] = result]
       /\ owner' = [owner EXCEPT ![m] = 0]
  ELSE UNCHANGED <<visibility, owner>>

\* The attempt returned normally: the host deletes m.
Complete(m, n) ==
  /\ pc[m][n] = "return"
  /\ Goto(m, n, "over")
  /\ WithReceipt(m, n, "gone")
  /\ UNCHANGED <<dequeueCount, outcome, poisoned>>

\* The attempt threw before the last dequeue: the host releases m, which
\* becomes visible after host.json's visibilityTimeout (or after the delay
\* the handler set: the host's receipt is then stale).
Release(m, n) ==
  /\ pc[m][n] = "throw"
  /\ n < MaxDequeueCount
  /\ Goto(m, n, "over")
  /\ WithReceipt(m, n, "delayed")
  /\ UNCHANGED <<dequeueCount, outcome, poisoned>>

\* The attempt threw at the last dequeue: the host copies m to the poison
\* queue, then deletes it.
Poison(m, n) ==
  /\ pc[m][n] = "throw"
  /\ n = MaxDequeueCount
  /\ Goto(m, n, "over")
  /\ poisoned' = [poisoned EXCEPT ![m] = @ + 1]
  /\ WithReceipt(m, n, "gone")
  /\ UNCHANGED <<dequeueCount, outcome>>

\* The process running the attempt dies, or the host stops it after
\* functionTimeout.  The lease is no longer renewed.
Crash(m, n) ==
  /\ Running(m, n)
  /\ Goto(m, n, "over")
  /\ WithReceipt(m, n, "delayed")
  /\ UNCHANGED <<dequeueCount, outcome, poisoned>>

-----------------------------------------------------------------------------
(* The handler and handleQueueProcessingFailure.                           *)

\* Variant: allows one retry too many (MAX_RETRIES > maxDequeueCount - 1).
OneDelayMore(retries) == retries <= MaxRetries + 1

\* getDelaySecForRetries: some(delay) iff another retry is allowed.  The
\* number of retries is the dequeueCount of the attempt, which starts at 1.
HasDelay(retries) == retries <= MaxRetries

\* The handler's own work ends: it resolves, or fails with an error that
\* handleQueueProcessingFailure finds to be transient or not.
Handle(m, n, result) ==
  /\ pc[m][n] = "handle"
  /\ outcome' = [outcome EXCEPT ![m][n] = result]
  /\ Goto(m, n, CASE result = "ok"        -> "return"
                  [] result = "transient" -> "update"
                  [] result = "permanent" -> "onPermanent")
  /\ UNCHANGED <<visibility, dequeueCount, owner, poisoned>>

\* Variant: falls through to the permanent callback after the update.
PostponeThenRecord(m, n) ==
  /\ pc[m][n] = "update"
  /\ HasDelay(n)
  /\ WithReceipt(m, n, "delayed")
  /\ Goto(m, n, "onPermanent")
  /\ UNCHANGED <<dequeueCount, outcome, poisoned>>

\* Variant: hides m without a limit.
PostponeForever(m, n) ==
  /\ pc[m][n] = "update"
  /\ HasDelay(n)
  /\ WithReceipt(m, n, "leased")
  /\ Goto(m, n, "onTransient")
  /\ UNCHANGED <<dequeueCount, outcome, poisoned>>

\* updateMessage succeeds: m is hidden for the computed delay and gets a new
\* pop receipt, which the host does not know.
PostponeRetry(m, n) ==
  /\ pc[m][n] = "update"
  /\ HasDelay(n)
  /\ WithReceipt(m, n, "delayed")
  /\ Goto(m, n, "onTransient")
  /\ UNCHANGED <<dequeueCount, outcome, poisoned>>

\* updateMessage fails, or there is no delay left: nothing changes, and the
\* promise resolves all the same.
SkipPostpone(m, n) ==
  /\ pc[m][n] = "update"
  /\ Goto(m, n, "onTransient")
  /\ UNCHANGED <<visibility, dequeueCount, owner, outcome, poisoned>>

\* The trigger metadata cannot be decoded: updateMessageVisibilityTimeout
\* rejects, so the handler throws and onTransientError is never called.
RejectUpdate(m, n) ==
  /\ pc[m][n] = "update"
  /\ Goto(m, n, "throw")
  /\ UNCHANGED <<visibility, dequeueCount, owner, outcome, poisoned>>

\* Variant: trusts the updated visibility timeout to bring m back.
NeverThrow(m, n) ==
  /\ pc[m][n] = "onTransient"
  /\ Goto(m, n, "return")
  /\ UNCHANGED <<visibility, dequeueCount, owner, outcome, poisoned>>

\* onTransientError ran, its own failure being ignored: throw to ask for a
\* retry, or stop processing when no retry is left.
OnTransientError(m, n) ==
  /\ pc[m][n] = "onTransient"
  /\ Goto(m, n, IF HasDelay(n) THEN "throw" ELSE "return")
  /\ UNCHANGED <<visibility, dequeueCount, owner, outcome, poisoned>>

\* onPermanentError resolved to a right: stop processing.
OnPermanentError(m, n) ==
  /\ pc[m][n] = "onPermanent"
  /\ Goto(m, n, "return")
  /\ UNCHANGED <<visibility, dequeueCount, owner, outcome, poisoned>>

\* onPermanentError resolved to a left: start over with a TransientError.
RetryPermanentError(m, n) ==
  /\ pc[m][n] = "onPermanent"
  /\ outcome' = [outcome EXCEPT ![m][n] = "transient"]
  /\ Goto(m, n, "update")
  /\ UNCHANGED <<visibility, dequeueCount, owner, poisoned>>

\* onPermanentError rejected ("do not catch here, let it throw").
ThrowPermanentError(m, n) ==
  /\ pc[m][n] = "onPermanent"
  /\ Goto(m, n, "throw")
  /\ UNCHANGED <<visibility, dequeueCount, owner, outcome, poisoned>>

UpdateMessageVisibilityTimeout(m, n) ==
  PostponeRetry(m, n) \/ SkipPostpone(m, n) \/ RejectUpdate(m, n)

HandleQueueProcessingFailure(m, n) ==
  \/ UpdateMessageVisibilityTimeout(m, n)
  \/ OnTransientError(m, n)
  \/ OnPermanentError(m, n)
  \/ RetryPermanentError(m, n)
  \/ ThrowPermanentError(m, n)

-----------------------------------------------------------------------------
HostMessageStep(m) == BecomeVisible(m) \/ Dequeue(m) \/ DeadLetter(m)

HostAttemptStep(m, n) == Complete(m, n) \/ Release(m, n) \/ Poison(m, n)

Handler(m, n) == \E result \in Outcome \ {"none"} : Handle(m, n, result)

QueueNext ==
  \E m \in Msgs :
    \/ Enqueue(m)
    \/ HostMessageStep(m)
    \/ \E n \in Attempts : \/ HostAttemptStep(m, n)
                           \/ Crash(m, n)
                           \/ Handler(m, n)
                           \/ HandleQueueProcessingFailure(m, n)

QueueSpec == QueueInit /\ [][QueueNext]_queueVars

\* The host polls the queue, the timers run, and every started attempt goes
\* on to its end (or crashes).  Nothing is assumed of outcomes.
QueueFairness ==
  \A m \in Msgs :
    /\ WF_queueVars(HostMessageStep(m))
    /\ \A n \in Attempts :
         WF_queueVars(\/ HostAttemptStep(m, n)
                      \/ Handler(m, n)
                      \/ HandleQueueProcessingFailure(m, n))

FairQueueSpec == QueueSpec /\ QueueFairness

-----------------------------------------------------------------------------
(* Properties.                                                             *)

QueueTypeOK ==
  /\ visibility \in [Msgs -> Visibility]
  /\ dequeueCount \in [Msgs -> 0..(MaxDequeueCount + 1)]
  /\ owner \in [Msgs -> 0..MaxDequeueCount]
  /\ pc \in [Msgs -> [Attempts -> Stage]]
  /\ outcome \in [Msgs -> [Attempts -> Outcome]]
  /\ poisoned \in [Msgs -> Nat]

\* Although a message can be dequeued again while an earlier attempt of it is
\* still running (its visibility is updated before onTransientError runs), an
\* attempt that works, or records an outcome, or has returned, still holds the
\* message.  So the work of two attempts of one message never overlaps, and
\* the delete that follows a normal return does delete the message.
WorkHoldsLease ==
  \A m \in Msgs : \A n \in Attempts :
    pc[m][n] \in WorkStage => owner[m] = n /\ visibility[m] = "leased"

\* No message is put twice into the poison queue, and a poisoned message is
\* out of the queue: what the comment on MAX_RETRIES is about.
PoisonedOnce ==
  \A m \in Msgs : /\ poisoned[m] <= 1
                  /\ poisoned[m] = 1 => visibility[m] = "gone"

\* A message leaves the queue for good only when its last attempt succeeded,
\* or recorded a permanent error, or failed with no retry left; otherwise a
\* copy is in the poison queue.  In particular no crash, failed visibility
\* update or stale pop receipt loses a message.
NeverLost ==
  \A m \in Msgs :
    visibility[m] = "gone" /\ poisoned[m] = 0 =>
      \/ outcome[m][dequeueCount[m]] \in {"ok", "permanent"}
      \/ /\ outcome[m][dequeueCount[m]] = "transient"
         /\ dequeueCount[m] > MaxRetries

\* Every message sent is eventually settled, whatever fails or crashes.
EventuallySettled ==
  \A m \in Msgs : visibility[m] = "visible" ~> visibility[m] = "gone"
-----------------------------------------------------------------------------
(* Refinement: pop receipts, timers, overlapping attempts and crashes add  *)
(* up to one try at a time.                                                *)

PhaseName == [absent  |-> "unsent",
              visible |-> "waiting",
              delayed |-> "waiting",
              leased  |-> "working",
              gone    |-> "settled"]

PhaseOf(m) == IF poisoned[m] > 0 THEN "dead" ELSE PhaseName[visibility[m]]

Abstract == INSTANCE RetryQueue WITH
              phase <- [m \in Msgs |-> PhaseOf(m)],
              tries <- dequeueCount,
              MaxTries <- MaxDequeueCount

\* Every behaviour of the queue, its host and its handlers is one of RetryQueue.
ImplementsRetryQueue == Abstract!Spec
=============================================================================
