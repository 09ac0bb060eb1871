------------------------ MODULE QueueDeliveryProofs ------------------------
(***************************************************************************)
(* Proofs about QueueDelivery for every set of messages and every          *)
(* MaxDequeueCount and MaxRetries with MaxRetries < MaxDequeueCount.       *)
(*                                                                         *)
(* The invariant ties the pop receipt (owner) to the state of the queue    *)
(* and to the stages of the attempts.  None of the properties is inductive *)
(* alone: whether the delete after the last attempt works depends on no    *)
(* attempt beyond MaxRetries ever giving its receipt away.                 *)
(***************************************************************************)
EXTENDS QueueDelivery, TLAPS

\* An attempt that was not started yet is idle.
StartedInv ==
  \A m \in Msgs : \A n \in Attempts : n > dequeueCount[m] => pc[m][n] = "idle"

\* The valid receipt is the one of the last attempt, and it is valid exactly
\* while the message is leased.
LeaseInv ==
  \A m \in Msgs :
    /\ visibility[m] = "leased" <=> owner[m] # 0
    /\ owner[m] # 0 => owner[m] = dequeueCount[m]

\* Who must still hold the receipt: an attempt at work, and an attempt that
\* ends after its retries are used up.
HoldsInv ==
  \A m \in Msgs : \A n \in Attempts :
    (\/ pc[m][n] \in WorkStage
     \/ pc[m][n] \in {"onTransient", "throw"} /\ n > MaxRetries)
    => owner[m] = n

\* The error an attempt deals with matches its stage.
OutcomeInv ==
  \A m \in Msgs : \A n \in Attempts :
    /\ pc[m][n] \in {"update", "onTransient"} => outcome[m][n] = "transient"
    /\ pc[m][n] = "onPermanent" => outcome[m][n] = "permanent"
    /\ pc[m][n] = "return" =>
         \/ outcome[m][n] \in {"ok", "permanent"}
         \/ outcome[m][n] = "transient" /\ n > MaxRetries

QueueInv == /\ QueueTypeOK
            /\ StartedInv
            /\ LeaseInv
            /\ HoldsInv
            /\ OutcomeInv
            /\ PoisonedOnce
            /\ NeverLost

-----------------------------------------------------------------------------
(* The operations that use the pop receipt keep the types.                 *)

LEMMA ReceiptType ==
  ASSUME QueueTypeOK, NEW m \in Msgs, NEW n \in Attempts,
         NEW result \in Visibility, WithReceipt(m, n, result)
  PROVE  /\ visibility' \in [Msgs -> Visibility]
         /\ owner' \in [Msgs -> 0..MaxDequeueCount]
<1>1. /\ visibility \in [Msgs -> Visibility]
      /\ owner \in [Msgs -> 0..MaxDequeueCount]
      /\ 0 \in 0..MaxDequeueCount
  BY QueueAssumption DEF QueueTypeOK
<1>2. CASE owner[m] = n
  <2>1. /\ visibility' = [visibility EXCEPT ![m] = result]
        /\ owner' = [owner EXCEPT ![m] = 0]
    BY <1>2 DEF WithReceipt
  <2> QED
    BY <1>1, <2>1
<1>3. CASE owner[m] # n
  BY <1>1, <1>3 DEF WithReceipt
<1> QED
  BY <1>2, <1>3

-----------------------------------------------------------------------------
(* The invariant holds initially, and every action preserves it.           *)

LEMMA QueueInvInit == QueueInit => QueueInv
BY QueueAssumption DEF QueueInit, QueueInv, QueueTypeOK, Attempts, Visibility,
   Stage, Outcome, WorkStage, StartedInv, LeaseInv, HoldsInv, OutcomeInv,
   PoisonedOnce, NeverLost

LEMMA QueueInvStep == QueueInv /\ [QueueNext]_queueVars => QueueInv'
<1> SUFFICES ASSUME QueueInv, [QueueNext]_queueVars
             PROVE  QueueInv'
  OBVIOUS
<1> USE QueueAssumption DEF Attempts, QueueInv, Goto, HasDelay
<1>1. ASSUME NEW m \in Msgs, Enqueue(m)
      PROVE  QueueInv'
  <2> USE <1>1 DEF Enqueue
  <2>1. QueueTypeOK'
    BY DEF QueueTypeOK, Visibility, Stage, Outcome
  <2>2. StartedInv'
    BY DEF QueueTypeOK, StartedInv
  <2>3. LeaseInv'
    BY DEF QueueTypeOK, LeaseInv
  <2>4. HoldsInv'
    BY DEF QueueTypeOK, StartedInv, LeaseInv, HoldsInv, WorkStage
  <2>5. OutcomeInv'
    BY DEF QueueTypeOK, OutcomeInv
  <2>6. PoisonedOnce'
    BY DEF QueueTypeOK, LeaseInv, HoldsInv, PoisonedOnce
  <2>7. NeverLost'
    BY DEF QueueTypeOK, LeaseInv, HoldsInv, OutcomeInv, PoisonedOnce, NeverLost, WorkStage
  <2> QED
    BY <2>1, <2>2, <2>3, <2>4, <2>5, <2>6, <2>7
<1>2. ASSUME NEW m \in Msgs, BecomeVisible(m)
      PROVE  QueueInv'
  <2> USE <1>2 DEF BecomeVisible
  <2>1. QueueTypeOK'
    BY DEF QueueTypeOK, Visibility, Stage, Outcome
  <2>2. StartedInv'
    BY DEF QueueTypeOK, StartedInv
  <2>3. LeaseInv'
    BY DEF QueueTypeOK, LeaseInv
  <2>4. HoldsInv'
    BY DEF QueueTypeOK, StartedInv, LeaseInv, HoldsInv, WorkStage
  <2>5. OutcomeInv'
    BY DEF QueueTypeOK, OutcomeInv
  <2>6. PoisonedOnce'
    BY DEF QueueTypeOK, LeaseInv, HoldsInv, PoisonedOnce
  <2>7. NeverLost'
    BY DEF QueueTypeOK, LeaseInv, HoldsInv, OutcomeInv, PoisonedOnce, NeverLost, WorkStage
  <2> QED
    BY <2>1, <2>2, <2>3, <2>4, <2>5, <2>6, <2>7
<1>3. ASSUME NEW m \in Msgs, Dequeue(m)
      PROVE  QueueInv'
  <2> USE <1>3 DEF Dequeue
  <2>1. QueueTypeOK'
    BY DEF QueueTypeOK, Visibility, Stage, Outcome
  <2>2. StartedInv'
    BY DEF QueueTypeOK, StartedInv
  <2>3. LeaseInv'
    BY DEF QueueTypeOK, LeaseInv
  <2>4. HoldsInv'
    BY DEF QueueTypeOK, StartedInv, LeaseInv, HoldsInv, WorkStage
  <2>5. OutcomeInv'
    BY DEF QueueTypeOK, OutcomeInv
  <2>6. PoisonedOnce'
    BY DEF QueueTypeOK, LeaseInv, HoldsInv, PoisonedOnce
  <2>7. NeverLost'
    BY DEF QueueTypeOK, LeaseInv, HoldsInv, OutcomeInv, PoisonedOnce, NeverLost, WorkStage
  <2> QED
    BY <2>1, <2>2, <2>3, <2>4, <2>5, <2>6, <2>7
<1>4. ASSUME NEW m \in Msgs, DeadLetter(m)
      PROVE  QueueInv'
  <2> USE <1>4 DEF DeadLetter
  <2>1. QueueTypeOK'
    BY DEF QueueTypeOK, Visibility, Stage, Outcome
  <2>2. StartedInv'
    BY DEF QueueTypeOK, StartedInv
  <2>3. LeaseInv'
    BY DEF QueueTypeOK, LeaseInv
  <2>4. HoldsInv'
    <3>1. owner[m] = 0
      BY DEF LeaseInv
    <3>2. \A k \in Attempts : ~(\/ pc[m][k] \in WorkStage
                                \/ pc[m][k] \in {"onTransient", "throw"} /\ k > MaxRetries)
      BY <3>1 DEF HoldsInv
    <3> QED
      BY <3>1, <3>2 DEF QueueTypeOK, HoldsInv, WorkStage
  <2>5. OutcomeInv'
    BY DEF QueueTypeOK, OutcomeInv
  <2>6. PoisonedOnce'
    BY DEF QueueTypeOK, LeaseInv, HoldsInv, PoisonedOnce
  <2>7. NeverLost'
    BY DEF QueueTypeOK, LeaseInv, HoldsInv, OutcomeInv, PoisonedOnce, NeverLost, WorkStage
  <2> QED
    BY <2>1, <2>2, <2>3, <2>4, <2>5, <2>6, <2>7
<1>5. ASSUME NEW m \in Msgs, NEW n \in Attempts, Complete(m, n)
      PROVE  QueueInv'
  <2> USE <1>5 DEF Complete
  <2>1. QueueTypeOK'
    BY ReceiptType DEF QueueTypeOK, Visibility, Stage
  <2>2. StartedInv'
    BY DEF QueueTypeOK, StartedInv, WithReceipt
  <2>3. LeaseInv'
    BY DEF QueueTypeOK, LeaseInv, WithReceipt
  <2>4. HoldsInv'
    BY DEF QueueTypeOK, StartedInv, LeaseInv, HoldsInv, WorkStage, WithReceipt
  <2>5. OutcomeInv'
    BY DEF QueueTypeOK, OutcomeInv, WithReceipt
  <2>6. PoisonedOnce'
    BY DEF QueueTypeOK, LeaseInv, HoldsInv, PoisonedOnce, WithReceipt
  <2>7. NeverLost'
    BY DEF QueueTypeOK, LeaseInv, HoldsInv, OutcomeInv, PoisonedOnce, NeverLost, WorkStage, WithReceipt
  <2> QED
    BY <2>1, <2>2, <2>3, <2>4, <2>5, <2>6, <2>7
<1>6. ASSUME NEW m \in Msgs, NEW n \in Attempts, Release(m, n)
      PROVE  QueueInv'
  <2> USE <1>6 DEF Release
  <2>1. QueueTypeOK'
    BY ReceiptType DEF QueueTypeOK, Visibility, Stage
  <2>2. StartedInv'
    BY DEF QueueTypeOK, StartedInv, WithReceipt
  <2>3. LeaseInv'
    BY DEF QueueTypeOK, LeaseInv, WithReceipt
  <2>4. HoldsInv'
    BY DEF QueueTypeOK, StartedInv, LeaseInv, HoldsInv, WorkStage, WithReceipt
  <2>5. OutcomeInv'
    BY DEF QueueTypeOK, OutcomeInv, WithReceipt
  <2>6. PoisonedOnce'
    BY DEF QueueTypeOK, LeaseInv, HoldsInv, PoisonedOnce, WithReceipt
  <2>7. NeverLost'
    BY DEF QueueTypeOK, LeaseInv, HoldsInv, OutcomeInv, PoisonedOnce, NeverLost, WorkStage, WithReceipt
  <2> QED
    BY <2>1, <2>2, <2>3, <2>4, <2>5, <2>6, <2>7
<1>7. ASSUME NEW m \in Msgs, NEW n \in Attempts, Poison(m, n)
      PROVE  QueueInv'
  <2> USE <1>7 DEF Poison
  <2>1. QueueTypeOK'
    BY ReceiptType DEF QueueTypeOK, Visibility, Stage
  <2>2. StartedInv'
    BY DEF QueueTypeOK, StartedInv, WithReceipt
  <2>3. LeaseInv'
    BY DEF QueueTypeOK, LeaseInv, WithReceipt
  <2>4. HoldsInv'
    BY DEF QueueTypeOK, StartedInv, LeaseInv, HoldsInv, WorkStage, WithReceipt
  <2>5. OutcomeInv'
    BY DEF QueueTypeOK, OutcomeInv, WithReceipt
  <2>6. PoisonedOnce'
    BY DEF QueueTypeOK, LeaseInv, HoldsInv, PoisonedOnce, WithReceipt
  <2>7. NeverLost'
    BY DEF QueueTypeOK, LeaseInv, HoldsInv, OutcomeInv, PoisonedOnce, NeverLost, WorkStage, WithReceipt
  <2> QED
    BY <2>1, <2>2, <2>3, <2>4, <2>5, <2>6, <2>7
<1>8. ASSUME NEW m \in Msgs, NEW n \in Attempts, Crash(m, n)
      PROVE  QueueInv'
  <2> USE <1>8 DEF Crash, Running
  <2>1. QueueTypeOK'
    BY ReceiptType DEF QueueTypeOK, Visibility, Stage
  <2>2. StartedInv'
    BY DEF QueueTypeOK, StartedInv, WithReceipt
  <2>3. LeaseInv'
    BY DEF QueueTypeOK, LeaseInv, WithReceipt
  <2>4. HoldsInv'
    BY DEF QueueTypeOK, StartedInv, LeaseInv, HoldsInv, WorkStage, WithReceipt
  <2>5. OutcomeInv'
    BY DEF QueueTypeOK, OutcomeInv, WithReceipt
  <2>6. PoisonedOnce'
    BY DEF QueueTypeOK, LeaseInv, HoldsInv, PoisonedOnce, WithReceipt
  <2>7. NeverLost'
    BY DEF QueueTypeOK, LeaseInv, HoldsInv, OutcomeInv, PoisonedOnce, NeverLost, WorkStage, WithReceipt
  <2> QED
    BY <2>1, <2>2, <2>3, <2>4, <2>5, <2>6, <2>7
<1>9. ASSUME NEW m \in Msgs, NEW n \in Attempts, Handler(m, n)
      PROVE  QueueInv'
  <2> USE <1>9 DEF Handler, Handle, Outcome
  <2>1. QueueTypeOK'
    BY DEF QueueTypeOK, Visibility, Stage, Outcome
  <2>2. StartedInv'
    BY DEF QueueTypeOK, StartedInv
  <2>3. LeaseInv'
    BY DEF QueueTypeOK, LeaseInv
  <2>4. HoldsInv'
    BY DEF QueueTypeOK, StartedInv, LeaseInv, HoldsInv, WorkStage
  <2>5. OutcomeInv'
    BY DEF QueueTypeOK, OutcomeInv
  <2>6. PoisonedOnce'
    BY DEF QueueTypeOK, LeaseInv, HoldsInv, PoisonedOnce
  <2>7. NeverLost'
    BY DEF QueueTypeOK, LeaseInv, HoldsInv, OutcomeInv, PoisonedOnce, NeverLost, WorkStage
  <2> QED
    BY <2>1, <2>2, <2>3, <2>4, <2>5, <2>6, <2>7
<1>10. ASSUME NEW m \in Msgs, NEW n \in Attempts, PostponeRetry(m, n)
      PROVE  QueueInv'
  <2> USE <1>10 DEF PostponeRetry
  <2>1. QueueTypeOK'
    BY ReceiptType DEF QueueTypeOK, Visibility, Stage
  <2>2. StartedInv'
    BY DEF QueueTypeOK, StartedInv, WithReceipt
  <2>3. LeaseInv'
    BY DEF QueueTypeOK, LeaseInv, WithReceipt
  <2>4. HoldsInv'
    BY DEF QueueTypeOK, StartedInv, LeaseInv, HoldsInv, WorkStage, WithReceipt
  <2>5. OutcomeInv'
    BY DEF QueueTypeOK, OutcomeInv, WithReceipt
  <2>6. PoisonedOnce'
    BY DEF QueueTypeOK, LeaseInv, HoldsInv, PoisonedOnce, WithReceipt
  <2>7. NeverLost'
    BY DEF QueueTypeOK, LeaseInv, HoldsInv, OutcomeInv, PoisonedOnce, NeverLost, WorkStage, WithReceipt
  <2> QED
    BY <2>1, <2>2, <2>3, <2>4, <2>5, <2>6, <2>7
<1>11. ASSUME NEW m \in Msgs, NEW n \in Attempts, SkipPostpone(m, n)
      PROVE  QueueInv'
  <2> USE <1>11 DEF SkipPostpone
  <2>1. QueueTypeOK'
    BY DEF QueueTypeOK, Visibility, Stage, Outcome
  <2>2. StartedInv'
    BY DEF QueueTypeOK, StartedInv
  <2>3. LeaseInv'
    BY DEF QueueTypeOK, LeaseInv
  <2>4. HoldsInv'
    BY DEF QueueTypeOK, StartedInv, LeaseInv, HoldsInv, WorkStage
  <2>5. OutcomeInv'
    BY DEF QueueTypeOK, OutcomeInv
  <2>6. PoisonedOnce'
    BY DEF QueueTypeOK, LeaseInv, HoldsInv, PoisonedOnce
  <2>7. NeverLost'
    BY DEF QueueTypeOK, LeaseInv, HoldsInv, OutcomeInv, PoisonedOnce, NeverLost, WorkStage
  <2> QED
    BY <2>1, <2>2, <2>3, <2>4, <2>5, <2>6, <2>7
<1>12. ASSUME NEW m \in Msgs, NEW n \in Attempts, RejectUpdate(m, n)
      PROVE  QueueInv'
  <2> USE <1>12 DEF RejectUpdate
  <2>1. QueueTypeOK'
    BY DEF QueueTypeOK, Visibility, Stage, Outcome
  <2>2. StartedInv'
    BY DEF QueueTypeOK, StartedInv
  <2>3. LeaseInv'
    BY DEF QueueTypeOK, LeaseInv
  <2>4. HoldsInv'
    BY DEF QueueTypeOK, StartedInv, LeaseInv, HoldsInv, WorkStage
  <2>5. OutcomeInv'
    BY DEF QueueTypeOK, OutcomeInv
  <2>6. PoisonedOnce'
    BY DEF QueueTypeOK, LeaseInv, HoldsInv, PoisonedOnce
  <2>7. NeverLost'
    BY DEF QueueTypeOK, LeaseInv, HoldsInv, OutcomeInv, PoisonedOnce, NeverLost, WorkStage
  <2> QED
    BY <2>1, <2>2, <2>3, <2>4, <2>5, <2>6, <2>7
<1>13. ASSUME NEW m \in Msgs, NEW n \in Attempts, OnTransientError(m, n)
      PROVE  QueueInv'
  <2> USE <1>13 DEF OnTransientError
  <2>1. QueueTypeOK'
    BY DEF QueueTypeOK, Visibility, Stage, Outcome
  <2>2. StartedInv'
    BY DEF QueueTypeOK, StartedInv
  <2>3. LeaseInv'
    BY DEF QueueTypeOK, LeaseInv
  <2>4. HoldsInv'
    BY DEF QueueTypeOK, StartedInv, LeaseInv, HoldsInv, WorkStage
  <2>5. OutcomeInv'
    BY DEF QueueTypeOK, OutcomeInv
  <2>6. PoisonedOnce'
    BY DEF QueueTypeOK, LeaseInv, HoldsInv, PoisonedOnce
  <2>7. NeverLost'
    BY DEF QueueTypeOK, LeaseInv, HoldsInv, OutcomeInv, PoisonedOnce, NeverLost, WorkStage
  <2> QED
    BY <2>1, <2>2, <2>3, <2>4, <2>5, <2>6, <2>7
<1>14. ASSUME NEW m \in Msgs, NEW n \in Attempts, OnPermanentError(m, n)
      PROVE  QueueInv'
  <2> USE <1>14 DEF OnPermanentError
  <2>1. QueueTypeOK'
    BY DEF QueueTypeOK, Visibility, Stage, Outcome
  <2>2. StartedInv'
    BY DEF QueueTypeOK, StartedInv
  <2>3. LeaseInv'
    BY DEF QueueTypeOK, LeaseInv
  <2>4. HoldsInv'
    BY DEF QueueTypeOK, StartedInv, LeaseInv, HoldsInv, WorkStage
  <2>5. OutcomeInv'
    BY DEF QueueTypeOK, OutcomeInv
  <2>6. PoisonedOnce'
    BY DEF QueueTypeOK, LeaseInv, HoldsInv, PoisonedOnce
  <2>7. NeverLost'
    BY DEF QueueTypeOK, LeaseInv, HoldsInv, OutcomeInv, PoisonedOnce, NeverLost, WorkStage
  <2> QED
    BY <2>1, <2>2, <2>3, <2>4, <2>5, <2>6, <2>7
<1>15. ASSUME NEW m \in Msgs, NEW n \in Attempts, RetryPermanentError(m, n)
      PROVE  QueueInv'
  <2> USE <1>15 DEF RetryPermanentError
  <2>1. QueueTypeOK'
    BY DEF QueueTypeOK, Visibility, Stage, Outcome
  <2>2. StartedInv'
    BY DEF QueueTypeOK, StartedInv
  <2>3. LeaseInv'
    BY DEF QueueTypeOK, LeaseInv
  <2>4. HoldsInv'
    BY DEF QueueTypeOK, StartedInv, LeaseInv, HoldsInv, WorkStage
  <2>5. OutcomeInv'
    BY DEF QueueTypeOK, OutcomeInv
  <2>6. PoisonedOnce'
    BY DEF QueueTypeOK, LeaseInv, HoldsInv, PoisonedOnce
  <2>7. NeverLost'
    BY DEF QueueTypeOK, LeaseInv, HoldsInv, OutcomeInv, PoisonedOnce, NeverLost, WorkStage
  <2> QED
    BY <2>1, <2>2, <2>3, <2>4, <2>5, <2>6, <2>7
<1>16. ASSUME NEW m \in Msgs, NEW n \in Attempts, ThrowPermanentError(m, n)
      PROVE  QueueInv'
  <2> USE <1>16 DEF ThrowPermanentError
  <2>1. QueueTypeOK'
    BY DEF QueueTypeOK, Visibility, Stage, Outcome
  <2>2. StartedInv'
    BY DEF QueueTypeOK, StartedInv
  <2>3. LeaseInv'
    BY DEF QueueTypeOK, LeaseInv
  <2>4. HoldsInv'
    BY DEF QueueTypeOK, StartedInv, LeaseInv, HoldsInv, WorkStage
  <2>5. OutcomeInv'
    BY DEF QueueTypeOK, OutcomeInv
  <2>6. PoisonedOnce'
    BY DEF QueueTypeOK, LeaseInv, HoldsInv, PoisonedOnce
  <2>7. NeverLost'
    BY DEF QueueTypeOK, LeaseInv, HoldsInv, OutcomeInv, PoisonedOnce, NeverLost, WorkStage
  <2> QED
    BY <2>1, <2>2, <2>3, <2>4, <2>5, <2>6, <2>7
<1>17. CASE UNCHANGED queueVars
  BY <1>17 DEF queueVars, QueueTypeOK, StartedInv, LeaseInv, HoldsInv, OutcomeInv,
     PoisonedOnce, NeverLost
<1> QED
  BY <1>1, <1>2, <1>3, <1>4, <1>5, <1>6, <1>7, <1>8, <1>9, <1>10, <1>11, <1>12, <1>13, <1>14, <1>15, <1>16, <1>17
     DEF QueueNext, HostMessageStep, HostAttemptStep, HandleQueueProcessingFailure,
         UpdateMessageVisibilityTimeout

-----------------------------------------------------------------------------
(* The theorems.                                                           *)

\* Only Enqueue puts a message on the queue, and no step takes it back.
LEMMA NotSentByHost ==
  ASSUME QueueInv, NEW m \in Msgs, NEW k \in Msgs,
         \/ UNCHANGED queueVars \/ HostMessageStep(m)
         \/ \E n \in Attempts : \/ HostAttemptStep(m, n) \/ Crash(m, n)
                              \/ Handler(m, n) \/ HandleQueueProcessingFailure(m, n)
  PROVE  visibility'[k] = "absent" <=> visibility[k] = "absent"
<1> USE DEF QueueInv, QueueTypeOK
<1>1. ASSUME NEW n \in Attempts, NEW result, result # "absent", WithReceipt(m, n, result)
      PROVE  visibility'[k] = "absent" <=> visibility[k] = "absent"
  <2>1. visibility[k] = "absent" => owner[k] = 0
    BY DEF LeaseInv
  <2>2. n # 0
    BY QueueAssumption DEF Attempts
  <2> QED
    BY <1>1, <2>1, <2>2 DEF WithReceipt
<1>2. CASE UNCHANGED queueVars \/ HostMessageStep(m)
  BY <1>2 DEF queueVars, HostMessageStep, BecomeVisible, Dequeue, DeadLetter
<1>3. ASSUME NEW n \in Attempts, HostAttemptStep(m, n) \/ Crash(m, n)
      PROVE  visibility'[k] = "absent" <=> visibility[k] = "absent"
  BY <1>1, <1>3 DEF HostAttemptStep, Complete, Release, Poison, Crash
<1>4. ASSUME NEW n \in Attempts, Handler(m, n) \/ HandleQueueProcessingFailure(m, n)
      PROVE  visibility'[k] = "absent" <=> visibility[k] = "absent"
  BY <1>1, <1>4 DEF Handler, Handle, HandleQueueProcessingFailure,
     UpdateMessageVisibilityTimeout, PostponeRetry, SkipPostpone, RejectUpdate,
     OnTransientError, OnPermanentError, RetryPermanentError, ThrowPermanentError
<1> QED
  BY <1>2, <1>3, <1>4

\* A message that is not on the queue has not been dequeued.
LEMMA AbsentQueueStep ==
  ASSUME QueueInv, [QueueNext]_queueVars, NEW m \in Msgs, visibility'[m] = "absent"
  PROVE  visibility[m] = "absent" /\ dequeueCount'[m] = dequeueCount[m]
<1> USE DEF QueueInv, QueueTypeOK
<1>1. ASSUME NEW k \in Msgs, Enqueue(k)
      PROVE  visibility[m] = "absent" /\ dequeueCount'[m] = dequeueCount[m]
  BY <1>1 DEF Enqueue
<1>2. visibility[m] = "absent"
  BY <1>1, NotSentByHost DEF QueueNext
<1>3. ASSUME NEW k \in Msgs, HostMessageStep(k)
      PROVE  dequeueCount'[m] = dequeueCount[m]
  BY <1>2, <1>3 DEF HostMessageStep, BecomeVisible, Dequeue, DeadLetter
<1>4. ASSUME NEW k \in Msgs, NEW n \in Attempts,
             \/ HostAttemptStep(k, n) \/ Crash(k, n)
             \/ Handler(k, n) \/ HandleQueueProcessingFailure(k, n)
      PROVE  dequeueCount' = dequeueCount
  BY <1>4 DEF HostAttemptStep, Complete, Release, Poison, Crash, Handler, Handle,
     HandleQueueProcessingFailure, UpdateMessageVisibilityTimeout, PostponeRetry, SkipPostpone,
     RejectUpdate, OnTransientError, OnPermanentError, RetryPermanentError,
     ThrowPermanentError
<1> QED
  BY <1>1, <1>2, <1>3, <1>4 DEF QueueNext, queueVars

LEMMA QueueInvariant == QueueSpec => []QueueInv
<1>1. QueueInit => QueueInv
  BY QueueInvInit
<1>2. QueueInv /\ [QueueNext]_queueVars => QueueInv'
  BY QueueInvStep
<1> QED
  BY <1>1, <1>2, PTL DEF QueueSpec

\* The state always has its type.
THEOREM QueueTypeCorrect == QueueSpec => []QueueTypeOK
BY QueueInvariant, PTL DEF QueueInv

\* An attempt at work holds the message: see WorkHoldsLease.  It follows from
\* the receipt being given away only on the way out of an attempt.
THEOREM WorkHoldsLeaseCorrect == QueueSpec => []WorkHoldsLease
<1>1. QueueInv => WorkHoldsLease
  <2> SUFFICES ASSUME QueueInv, NEW m \in Msgs, NEW n \in Attempts,
                      pc[m][n] \in WorkStage
               PROVE  owner[m] = n /\ visibility[m] = "leased"
    BY DEF WorkHoldsLease
  <2>1. owner[m] = n
    BY DEF QueueInv, HoldsInv
  <2> QED
    BY <2>1, QueueAssumption DEF QueueInv, LeaseInv, Attempts
<1> QED
  BY <1>1, QueueInvariant, PTL

\* No message is put twice into the poison queue, whatever MaxDequeueCount,
\* as long as MaxRetries is below it: the claim of the comment on MAX_RETRIES.
THEOREM PoisonedOnceCorrect == QueueSpec => []PoisonedOnce
BY QueueInvariant, PTL DEF QueueInv

\* No message leaves the queue without an outcome: see NeverLost.
THEOREM NeverLostCorrect == QueueSpec => []NeverLost
BY QueueInvariant, PTL DEF QueueInv


-----------------------------------------------------------------------------
(* Refinement of RetryQueue.                                               *)

phaseOf == [m \in Msgs |-> PhaseOf(m)]

\* An action that changes the state of at most one message changes the phase
\* of at most that message.
LEMMA OnePhaseChanges ==
  ASSUME QueueTypeOK, NEW m \in Msgs,
         \A k \in Msgs \ {m} : /\ visibility'[k] = visibility[k]
                               /\ poisoned'[k] = poisoned[k]
  PROVE  phaseOf' = [phaseOf EXCEPT ![m] = PhaseOf(m)']
<1>1. \A k \in Msgs \ {m} : PhaseOf(k)' = PhaseOf(k)
  BY DEF PhaseOf
<1> QED
  BY <1>1 DEF phaseOf

LEMMA NotPoisoned ==
  ASSUME QueueInv, NEW m \in Msgs, visibility[m] # "gone"
  PROVE  poisoned[m] = 0
<1>1. poisoned[m] \in Nat /\ poisoned[m] <= 1 /\ poisoned[m] # 1
  BY DEF QueueInv, QueueTypeOK, PoisonedOnce
<1> QED
  BY <1>1

\* An attempt at work is the last one of its message, and the only one at work.
LEMMA OneWorks ==
  ASSUME QueueInv, NEW m \in Msgs, NEW n \in Attempts, pc[m][n] \in WorkStage
  PROVE  /\ visibility[m] = "leased" /\ poisoned[m] = 0
         /\ owner[m] = n /\ dequeueCount[m] = n
         /\ \A k \in Attempts \ {n} : pc[m][k] \notin WorkStage
<1>1. owner[m] = n /\ owner[m] # 0
  BY QueueAssumption DEF QueueInv, HoldsInv, Attempts
<1>2. visibility[m] = "leased" /\ dequeueCount[m] = n
  BY <1>1 DEF QueueInv, LeaseInv
<1>3. poisoned[m] = 0
  BY <1>2, NotPoisoned
<1>4. \A k \in Attempts \ {n} : pc[m][k] \notin WorkStage
  BY <1>1 DEF QueueInv, HoldsInv
<1> QED
  BY <1>1, <1>2, <1>3, <1>4

\* A step of message m leaves the other messages alone.
QueueOthers(m) ==
  \A k \in Msgs \ {m} :
    /\ visibility'[k] = visibility[k] /\ dequeueCount'[k] = dequeueCount[k]
    /\ pc'[k] = pc[k] /\ outcome'[k] = outcome[k] /\ poisoned'[k] = poisoned[k]

LEMMA QueueStepOthers ==
  ASSUME QueueInv, NEW m \in Msgs, NEW n \in Attempts,
         \/ UNCHANGED queueVars \/ Enqueue(m) \/ HostMessageStep(m)
         \/ HostAttemptStep(m, n) \/ Crash(m, n)
         \/ (\E result : Handle(m, n, result)) \/ HandleQueueProcessingFailure(m, n)
  PROVE  QueueOthers(m)
BY DEF QueueInv, QueueTypeOK, QueueOthers, queueVars, Enqueue, HostMessageStep, BecomeVisible,
   Dequeue, DeadLetter, HostAttemptStep, Complete, Release, Poison, Crash, Handle,
   HandleQueueProcessingFailure, UpdateMessageVisibilityTimeout, PostponeRetry,
   SkipPostpone, RejectUpdate, OnTransientError, OnPermanentError, RetryPermanentError,
   ThrowPermanentError, WithReceipt, Goto

\* An operation with the pop receipt is a step from "working", or a stutter.
LEMMA ReceiptPhase ==
  ASSUME QueueInv, NEW m \in Msgs, NEW n \in Attempts,
         NEW result \in {"delayed", "gone"}, WithReceipt(m, n, result),
         poisoned' = poisoned
  PROVE  \/ /\ phaseOf[m] = "working"
            /\ phaseOf' = [phaseOf EXCEPT ![m] = IF result = "gone" THEN "settled"
                                                 ELSE "waiting"]
         \/ phaseOf' = phaseOf
<1>1. CASE owner[m] = n
  <2>1. visibility[m] = "leased" /\ poisoned[m] = 0
    BY <1>1, QueueAssumption
       DEF QueueInv, LeaseInv, PoisonedOnce, QueueTypeOK, Attempts
  <2>2. visibility' = [visibility EXCEPT ![m] = result]
    BY <1>1 DEF WithReceipt
  <2>3. phaseOf' = [phaseOf EXCEPT ![m] = PhaseOf(m)']
    BY <2>2, OnePhaseChanges DEF QueueInv, QueueTypeOK
  <2>4. phaseOf[m] = "working"
    BY <2>1 DEF phaseOf, PhaseOf, PhaseName
  <2>5. PhaseOf(m)' = IF result = "gone" THEN "settled" ELSE "waiting"
    BY <2>1, <2>2 DEF PhaseOf, PhaseName, QueueInv, QueueTypeOK
  <2> QED
    BY <2>3, <2>4, <2>5
<1>2. CASE owner[m] # n
  BY <1>2 DEF WithReceipt, phaseOf, PhaseOf
<1> QED
  BY <1>1, <1>2

LEMMA QueueRefinementStep ==
  QueueInv /\ [QueueNext]_queueVars => [Abstract!Next]_(Abstract!vars)
<1> SUFFICES ASSUME QueueInv, [QueueNext]_queueVars
             PROVE  Abstract!Next \/ UNCHANGED <<phaseOf, dequeueCount>>
  BY DEF Abstract!vars, phaseOf
<1> USE DEF QueueInv, QueueTypeOK
<1>1. ASSUME NEW m \in Msgs, Enqueue(m)
      PROVE  Abstract!Send(m)
  <2>1. phaseOf' = [phaseOf EXCEPT ![m] = PhaseOf(m)']
    BY <1>1, OnePhaseChanges DEF Enqueue
  <2>2. poisoned[m] = 0
    BY <1>1, NotPoisoned DEF Enqueue
  <2>3. phaseOf[m] = "unsent" /\ PhaseOf(m)' = "waiting"
    BY <1>1, <2>2 DEF Enqueue, phaseOf, PhaseOf, PhaseName
  <2> QED
    BY <1>1, <2>1, <2>3 DEF Abstract!Send, Abstract!Move, phaseOf, Enqueue
<1>2. ASSUME NEW m \in Msgs, BecomeVisible(m)
      PROVE  UNCHANGED <<phaseOf, dequeueCount>>
  <2>1. phaseOf' = [phaseOf EXCEPT ![m] = PhaseOf(m)']
    BY <1>2, OnePhaseChanges DEF BecomeVisible
  <2>2. poisoned[m] = 0
    BY <1>2, NotPoisoned DEF BecomeVisible
  <2>3. PhaseOf(m) = "waiting" /\ PhaseOf(m)' = "waiting"
    BY <1>2, <2>2 DEF BecomeVisible, PhaseOf, PhaseName
  <2> QED
    BY <1>2, <2>1, <2>3 DEF phaseOf, BecomeVisible
<1>3. ASSUME NEW m \in Msgs, Dequeue(m)
      PROVE  Abstract!Try(m)
  <2>1. phaseOf' = [phaseOf EXCEPT ![m] = PhaseOf(m)']
    BY <1>3, OnePhaseChanges DEF Dequeue
  <2>2. poisoned[m] = 0
    BY <1>3, NotPoisoned DEF Dequeue
  <2>3. phaseOf[m] = "waiting" /\ PhaseOf(m)' = "working"
    BY <1>3, <2>2 DEF Dequeue, phaseOf, PhaseOf, PhaseName
  <2> QED
    BY <1>3, <2>1, <2>3 DEF Abstract!Try, Abstract!Move, phaseOf, Dequeue
<1>4. ASSUME NEW m \in Msgs, DeadLetter(m)
      PROVE  Abstract!Bury(m)
  <2>1. phaseOf' = [phaseOf EXCEPT ![m] = PhaseOf(m)']
    BY <1>4, OnePhaseChanges DEF DeadLetter
  <2>2. poisoned[m] = 0
    BY <1>4, NotPoisoned DEF DeadLetter
  <2>3. phaseOf[m] = "waiting" /\ PhaseOf(m)' = "dead"
    BY <1>4, <2>2 DEF DeadLetter, phaseOf, PhaseOf, PhaseName
  <2> QED
    BY <1>4, <2>1, <2>3 DEF Abstract!Bury, Abstract!Move, phaseOf, DeadLetter
<1>5. ASSUME NEW m \in Msgs, NEW n \in Attempts, Complete(m, n)
      PROVE  Abstract!Settle(m) \/ UNCHANGED <<phaseOf, dequeueCount>>
  BY <1>5, ReceiptPhase DEF Complete, Abstract!Settle, Abstract!Move, phaseOf
<1>6. ASSUME NEW m \in Msgs, NEW n \in Attempts,
             Release(m, n) \/ Crash(m, n) \/ PostponeRetry(m, n)
      PROVE  Abstract!Fail(m) \/ UNCHANGED <<phaseOf, dequeueCount>>
  BY <1>6, ReceiptPhase
     DEF Release, Crash, PostponeRetry, Abstract!Fail, Abstract!Move, phaseOf
<1>7. ASSUME NEW m \in Msgs, NEW n \in Attempts, Poison(m, n)
      PROVE  Abstract!Bury(m)
  <2>1. owner[m] = n /\ dequeueCount[m] = n /\ visibility[m] = "leased"
    BY <1>7, QueueAssumption DEF Poison, HoldsInv, LeaseInv, Attempts
  <2>2. poisoned[m] = 0
    BY <2>1, NotPoisoned
  <2>3. phaseOf' = [phaseOf EXCEPT ![m] = PhaseOf(m)']
    BY <1>7, OnePhaseChanges DEF Poison, WithReceipt
  <2>4. phaseOf[m] = "working" /\ PhaseOf(m)' = "dead"
    BY <1>7, <2>1, <2>2 DEF Poison, phaseOf, PhaseOf, PhaseName
  <2> QED
    BY <1>7, <2>1, <2>3, <2>4 DEF Abstract!Bury, Abstract!Move, phaseOf, Poison
<1>8. ASSUME NEW m \in Msgs, NEW n \in Attempts,
             \/ Handler(m, n) \/ SkipPostpone(m, n) \/ RejectUpdate(m, n)
             \/ OnTransientError(m, n) \/ OnPermanentError(m, n)
             \/ RetryPermanentError(m, n) \/ ThrowPermanentError(m, n)
      PROVE  UNCHANGED <<phaseOf, dequeueCount>>
  BY <1>8 DEF Handler, Handle, SkipPostpone, RejectUpdate, OnTransientError,
     OnPermanentError, RetryPermanentError, ThrowPermanentError, phaseOf, PhaseOf
<1>9. CASE UNCHANGED queueVars
  BY <1>9 DEF queueVars, phaseOf, PhaseOf
<1> QED
  BY <1>1, <1>2, <1>3, <1>4, <1>5, <1>6, <1>7, <1>8, <1>9
     DEF QueueNext, HostMessageStep, HostAttemptStep, HandleQueueProcessingFailure,
         UpdateMessageVisibilityTimeout, Abstract!Next

\* The queue, the host and the failure handling implement RetryQueue: one try
\* at a time, at most MaxDequeueCount tries, one end.
THEOREM QueueImplementsRetryQueue == QueueSpec => ImplementsRetryQueue
<1>1. QueueInit => Abstract!Init
  BY DEF QueueInit, Abstract!Init, PhaseOf, PhaseName
<1>2. QueueInv /\ [QueueNext]_queueVars => [Abstract!Next]_(Abstract!vars)
  BY QueueRefinementStep
<1> QED
  BY <1>1, <1>2, QueueInvariant, PTL
     DEF QueueSpec, ImplementsRetryQueue, Abstract!Spec
=============================================================================
