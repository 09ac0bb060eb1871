--------------------- MODULE NotificationHandlerProofs ---------------------
(***************************************************************************)
(* Proofs about NotificationHandler for every set of messages and answers, *)
(* and every MaxDequeueCount and MaxRetries as in QueueDelivery.           *)
(*                                                                         *)
(* Every step of a handler is a step of QueueDelivery, hence QueueInv      *)
(* holds of it: an attempt at work is the only one of its message.  The    *)
(* invariant below says what such an attempt may rely on.                  *)
(***************************************************************************)
EXTENDS NotificationHandler, QueueDeliveryProofs

\* An attempt that was not started yet has not taken a step.
FreshInv(m) ==
  \A n \in Attempts : pc[m][n] = "idle" => step[m][n] = "start"

\* EXPIRED is on record only for an expired message, and an attempt that goes on to
\* deliver, or has delivered, started before the message expired.
ExpiryInv(m) ==
  /\ "EXPIRED" \in versions[m] => expired[m]
  /\ \A n \in Attempts :
       /\ At(m, n, "expired") => expired[m]
       /\ At(m, n, "active") \/ At(m, n, "found") \/ At(m, n, "sent") =>
            "EXPIRED" \notin versions[m]

\* What an attempt has delivered has been sent, and so has what SENT is on record of.
SentInv(m) ==
  /\ \A n \in Attempts : step[m][n] = "sent" => sent[m] > 0
  /\ "SENT" \in versions[m] => sent[m] > 0

\* If nothing got lost, a delivered message is on its way out of the queue: the
\* attempt that delivered it is still at work, or it is gone.
OnceInv(m) ==
  ~glitch[m] /\ sent[m] > 0 =>
    /\ sent[m] = 1
    /\ \/ visibility[m] = "gone"
       \/ \E n \in Attempts : At(m, n, "sent") \/ pc[m][n] = "return"

\* If nothing got lost, EXPIRED or FAILED is on record only of what was not delivered,
\* and of what will not be: the attempt that recorded it returns, or m is gone. A
\* permanent error that is still to be recorded is no fault of the other side.
Ended(m) == versions[m] \cap {"EXPIRED", "FAILED"}

TruthInv(m) ==
  /\ format[m] # "good" => ~serverFault[m]
  /\ ~glitch[m] =>
       /\ \A n \in Attempts : pc[m][n] = "onPermanent" => ~serverFault[m]
       /\ Ended(m) # {} =>
            /\ sent[m] = 0
            /\ ~({"EXPIRED", "FAILED"} \subseteq versions[m])
            /\ "FAILED" \in versions[m] => ~serverFault[m]
            /\ visibility[m] = "gone" \/ \E n \in Attempts : pc[m][n] = "return"

\* What is on record when an attempt ends with a result.
OnRecord(m, result) ==
  /\ result = "ok" /\ format[m] # "badEvent" => versions[m] \cap {"SENT", "EXPIRED"} # {}
  /\ result = "permanent" => "FAILED" \in versions[m]

\* An attempt returns, and a message leaves the queue, with the outcome on record.
EndInv(m) ==
  /\ \A n \in Attempts : pc[m][n] = "return" => OnRecord(m, outcome[m][n])
  /\ visibility[m] = "gone" /\ poisoned[m] = 0 => OnRecord(m, outcome[m][dequeueCount[m]])

MessageInv(m) == /\ FreshInv(m)
                 /\ ExpiryInv(m)
                 /\ SentInv(m)
                 /\ OnceInv(m)
                 /\ TruthInv(m)
                 /\ EndInv(m)

\* An attempt that has not delivered yet is not among those counted.
CountInv(m) ==
  /\ sent[m] <= dequeueCount[m] /\ sent[m] <= MaxDequeueCount
  /\ \A n \in Attempts : pc[m][n] = "handle" /\ step[m][n] # "sent" => sent[m] < n

HandlerInv == /\ QueueInv
              /\ TypeOK
              /\ \A m \in Msgs : MessageInv(m) /\ CountInv(m)

-----------------------------------------------------------------------------
(* The steps of the handlers are steps of the queue.                       *)

LEMMA SendToWebhookType ==
  ASSUME NEW a
  PROVE  SendToWebhook(a) \in {"ok", "transient", "permanent"}
BY DEF SendToWebhook

LEMMA IndexIsQueueStep ==
  ASSUME NEW m \in Msgs, NEW n \in Attempts, EmailIndex(m, n) \/ WebhookIndex(m, n)
  PROVE  UNCHANGED queueVars \/ Handler(m, n) \/ HandleQueueProcessingFailure(m, n)
BY SendToWebhookType DEF Handler, Outcome, EmailIndex, WebhookIndex, DropBadEvent,
   HandleEmailNotification, HandleWebhookNotification, RecordOutcome, CheckExpired,
   FindNotification, FailToRender, SendMail, CallWebhook, Deliver, FailToDeliver,
   LoseAnswer, GoStep, RecordSent, RecordExpired, Record, ThrowUnexpected, SetVisibility,
   RecordThrottled, RecordFailed, HandleQueueProcessingFailure

LEMMA HandlerStepIsQueueStep == [Next]_vars => [QueueNext]_queueVars
<1> SUFFICES ASSUME [Next]_vars
             PROVE  [QueueNext]_queueVars
  OBVIOUS
<1>1. CASE UNCHANGED vars
  BY <1>1 DEF vars
<1>2. ASSUME NEW m \in Msgs, Send(m) \/ ExpireMessage(m) \/ HostStep(m)
      PROVE  [QueueNext]_queueVars
  BY <1>2 DEF Send, ExpireMessage, HostStep, QueueNext
<1>3. ASSUME NEW m \in Msgs, NEW n \in Attempts, EndAttempt(m, n) \/ CrashAttempt(m, n)
      PROVE  [QueueNext]_queueVars
  BY <1>3 DEF EndAttempt, CrashAttempt, QueueNext
<1> QED
  BY <1>1, <1>2, <1>3, IndexIsQueueStep DEF Next, QueueNext

-----------------------------------------------------------------------------
(* What the actions have in common.                                        *)

\* A step of message m leaves the other messages alone.
OthersUnchanged(m) ==
  \A k \in Msgs \ {m} :
    /\ visibility'[k] = visibility[k] /\ dequeueCount'[k] = dequeueCount[k]
    /\ pc'[k] = pc[k] /\ outcome'[k] = outcome[k] /\ poisoned'[k] = poisoned[k]
    /\ format'[k] = format[k] /\ expired'[k] = expired[k] /\ step'[k] = step[k]
    /\ sent'[k] = sent[k] /\ versions'[k] = versions[k]
    /\ glitch'[k] = glitch[k] /\ serverFault'[k] = serverFault[k]

LEMMA OthersKeepInv ==
  ASSUME NEW m \in Msgs, OthersUnchanged(m), NEW k \in Msgs \ {m}, MessageInv(k)
  PROVE  MessageInv(k)'
<1> USE DEF OthersUnchanged, MessageInv
<1>1. FreshInv(k)'
  BY DEF FreshInv
<1>2. ExpiryInv(k)'
  BY DEF ExpiryInv, At
<1>3. SentInv(k)'
  BY DEF SentInv
<1>4. OnceInv(k)'
  BY DEF OnceInv, At
<1>5. TruthInv(k)'
  BY DEF TruthInv, Ended
<1>6. EndInv(k)'
  BY DEF EndInv, OnRecord
<1> QED
  BY <1>1, <1>2, <1>3, <1>4, <1>5, <1>6

\* A delivered message stays on its way out.
LEMMA OnceKept ==
  ASSUME NEW m \in Msgs, OnceInv(m),
         sent'[m] = sent[m],
         glitch[m] => glitch'[m],
         visibility[m] = "gone" => visibility'[m] = "gone",
         \A n \in Attempts :
           At(m, n, "sent") \/ pc[m][n] = "return" =>
             At(m, n, "sent")' \/ pc'[m][n] = "return" \/ visibility'[m] = "gone"
  PROVE  OnceInv(m)'
BY DEF OnceInv

\* What is true of the end of a notification stays true, as long as nothing is
\* delivered and no end is recorded.
LEMMA TruthKept ==
  ASSUME NEW m \in Msgs, TruthInv(m),
         format'[m] = format[m], sent'[m] = sent[m], serverFault'[m] = serverFault[m],
         "EXPIRED" \in versions'[m] => "EXPIRED" \in versions[m],
         "FAILED" \in versions'[m] => "FAILED" \in versions[m],
         glitch[m] => glitch'[m],
         visibility[m] = "gone" => visibility'[m] = "gone",
         \A n \in Attempts :
           /\ pc'[m][n] = "onPermanent" => pc[m][n] = "onPermanent" \/ ~serverFault[m]
           /\ pc[m][n] = "return" => pc'[m][n] = "return" \/ visibility'[m] = "gone"
  PROVE  TruthInv(m)'
<1>1. /\ Ended(m)' # {} => Ended(m) # {}
      /\ {"EXPIRED", "FAILED"} \subseteq versions'[m] =>
           {"EXPIRED", "FAILED"} \subseteq versions[m]
  BY DEF Ended
<1> HIDE DEF Ended
<1> QED
  BY <1>1 DEF TruthInv

\* An attempt that works on an undamaged message is the first to come to an end, and
\* unless it has delivered the message itself, nobody has.
LEMMA FirstToEnd ==
  ASSUME HandlerInv, NEW m \in Msgs, NEW n \in Attempts, ~glitch[m],
         pc[m][n] \in {"handle", "onPermanent"}
  PROVE  /\ Ended(m) = {}
         /\ ~At(m, n, "sent") => sent[m] = 0
<1>1. /\ visibility[m] # "gone"
      /\ \A k \in Attempts \ {n} : pc[m][k] \notin WorkStage
  BY OneWorks DEF HandlerInv, WorkStage
<1>2. \A k \in Attempts : pc[m][k] # "return"
  BY <1>1 DEF WorkStage
<1>3. Ended(m) = {}
  BY <1>1, <1>2 DEF HandlerInv, MessageInv, TruthInv
<1>4. ASSUME ~At(m, n, "sent")
      PROVE  sent[m] = 0
  <2>1. \A k \in Attempts : ~At(m, k, "sent")
    BY <1>1, <1>4 DEF At, WorkStage
  <2>2. ~(sent[m] > 0)
    BY <1>1, <1>2, <2>1 DEF HandlerInv, MessageInv, OnceInv
  <2> QED
    BY <2>2 DEF HandlerInv, TypeOK
<1> QED
  BY <1>3, <1>4

-----------------------------------------------------------------------------
(* The queue, the host and the clock.                                      *)

LEMMA SendKeepsInv ==
  ASSUME HandlerInv, NEW m \in Msgs, Send(m) \/ ExpireMessage(m)
  PROVE  OthersUnchanged(m) /\ MessageInv(m)'
<1> USE DEF HandlerInv, TypeOK, QueueTypeOK, Send, Enqueue, ExpireMessage, ownVars,
        queueVars, input, MessageInv
<1>1. OthersUnchanged(m)
  BY DEF OthersUnchanged
<1>2. FreshInv(m)' /\ SentInv(m)'
  BY DEF FreshInv, SentInv
<1>3. ExpiryInv(m)'
  BY DEF ExpiryInv, At
<1>4. OnceInv(m)'
  BY OnceKept DEF At
<1>5. EndInv(m)'
  BY DEF EndInv, OnRecord
<1>6. TruthInv(m)'
  BY TruthKept
<1> QED
  BY <1>1, <1>2, <1>3, <1>4, <1>5, <1>6

LEMMA HostKeepsInv ==
  ASSUME HandlerInv, NEW m \in Msgs, HostStep(m)
  PROVE  OthersUnchanged(m) /\ MessageInv(m)'
<1> USE DEF HandlerInv, QueueInv, TypeOK, QueueTypeOK, HostStep, ownVars, input,
        MessageInv, Goto
<1>1. ASSUME BecomeVisible(m)
      PROVE  OthersUnchanged(m) /\ MessageInv(m)'
  <2> USE <1>1 DEF BecomeVisible
  <2>1. OthersUnchanged(m)
    BY DEF OthersUnchanged
  <2>2. FreshInv(m)' /\ SentInv(m)'
    BY DEF FreshInv, SentInv
  <2>3. ExpiryInv(m)' /\ OnceInv(m)'
    BY DEF ExpiryInv, OnceInv, At
  <2>4. EndInv(m)'
    BY DEF EndInv, OnRecord
  <2>5. TruthInv(m)'
    BY TruthKept
  <2> QED
    BY <2>1, <2>2, <2>3, <2>4, <2>5
<1>2. ASSUME Dequeue(m)
      PROVE  OthersUnchanged(m) /\ MessageInv(m)'
  <2> DEFINE n == dequeueCount[m] + 1
  <2>1. /\ n \in Attempts /\ pc[m][n] = "idle"
        /\ visibility[m] = "visible"
    BY <1>2, QueueAssumption DEF Dequeue, Attempts, StartedInv
  <2>2. /\ visibility' = [visibility EXCEPT ![m] = "leased"]
        /\ dequeueCount' = [dequeueCount EXCEPT ![m] = n]
        /\ pc' = [pc EXCEPT ![m][n] = "handle"]
        /\ UNCHANGED <<outcome, poisoned, ownVars>>
    BY <1>2 DEF Dequeue
  <2> HIDE DEF n
  <2>3. OthersUnchanged(m)
    BY <2>2 DEF OthersUnchanged
  <2>4. FreshInv(m)' /\ SentInv(m)'
    BY <2>1, <2>2 DEF FreshInv, SentInv
  <2>5. step'[m][n] = "start"
    BY <2>1, <2>2 DEF FreshInv
  <2>6. ExpiryInv(m)'
    BY <2>1, <2>2, <2>5 DEF ExpiryInv, At
  <2>7. OnceInv(m)'
    BY <2>1, <2>2, OnceKept DEF At
  <2>8. EndInv(m)'
    BY <2>1, <2>2 DEF EndInv, OnRecord
  <2>9. TruthInv(m)'
    BY <2>1, <2>2, TruthKept
  <2> QED
    BY <2>3, <2>4, <2>6, <2>7, <2>8, <2>9
<1>3. ASSUME DeadLetter(m)
      PROVE  OthersUnchanged(m) /\ MessageInv(m)'
  <2> USE <1>3 DEF DeadLetter
  <2>1. OthersUnchanged(m)
    BY DEF OthersUnchanged
  <2>2. FreshInv(m)' /\ SentInv(m)'
    BY DEF FreshInv, SentInv
  <2>3. ExpiryInv(m)' /\ OnceInv(m)'
    BY DEF ExpiryInv, OnceInv, At
  <2>4. EndInv(m)'
    BY DEF EndInv, OnRecord
  <2>5. TruthInv(m)'
    BY TruthKept
  <2> QED
    BY <2>1, <2>2, <2>3, <2>4, <2>5
<1> QED
  BY <1>1, <1>2, <1>3 DEF HostMessageStep

LEMMA EndKeepsInv ==
  ASSUME HandlerInv, NEW m \in Msgs, NEW n \in Attempts,
         EndAttempt(m, n) \/ CrashAttempt(m, n)
  PROVE  OthersUnchanged(m) /\ MessageInv(m)'
<1> USE DEF HandlerInv, TypeOK, QueueTypeOK, ownVars, input, MessageInv, Goto, Attempts
<1>1. owner[m] = n => visibility[m] = "leased"
  BY QueueAssumption DEF QueueInv, LeaseInv
<1>2. /\ pc' = [pc EXCEPT ![m][n] = "over"]
      /\ UNCHANGED <<dequeueCount, outcome, format, expired, step, sent, versions, serverFault>>
      /\ \A k \in Msgs \ {m} : /\ visibility'[k] = visibility[k]
                               /\ poisoned'[k] = poisoned[k]
                               /\ glitch'[k] = glitch[k]
      /\ glitch[m] => glitch'[m]
      /\ poisoned'[m] >= poisoned[m]
      /\ visibility[m] = "gone" => visibility'[m] = "gone"
  BY <1>1 DEF EndAttempt, HostAttemptStep, Complete, Release, Poison, CrashAttempt, Crash,
     WithReceipt
<1>3. OthersUnchanged(m)
  BY <1>2 DEF OthersUnchanged
<1>4. FreshInv(m)' /\ SentInv(m)'
  BY <1>2 DEF FreshInv, SentInv
<1>5. ExpiryInv(m)'
  BY <1>2 DEF ExpiryInv, At
<1>6. CASE Complete(m, n) /\ UNCHANGED ownVars
  <2>1. /\ owner[m] = n /\ dequeueCount[m] = n /\ visibility'[m] = "gone"
        /\ OnRecord(m, outcome[m][n])
    BY <1>6, OneWorks DEF Complete, WorkStage, WithReceipt, QueueInv, HoldsInv, EndInv
  <2>2. OnceInv(m)'
    BY <1>2, <2>1, OnceKept
  <2>3. EndInv(m)'
    BY <1>2, <2>1 DEF EndInv, OnRecord
  <2>4. TruthInv(m)'
    BY <1>2, <2>1, TruthKept
  <2> QED
    BY <1>3, <1>4, <1>5, <2>2, <2>3, <2>4
<1>7. CASE Release(m, n) /\ UNCHANGED ownVars
  <2>1. OnceInv(m)'
    <3>1. \A k \in Attempts :
            At(m, k, "sent") \/ pc[m][k] = "return" =>
              At(m, k, "sent")' \/ pc'[m][k] = "return"
      BY <1>2, <1>7 DEF Release, At
    <3> QED
      BY <1>2, <3>1, OnceKept
  <2>2. visibility'[m] = "gone" => visibility[m] = "gone"
    BY <1>7 DEF Release, WithReceipt
  <2>3. EndInv(m)'
    BY <1>2, <1>7, <2>2 DEF Release, EndInv, OnRecord
  <2>4. TruthInv(m)'
    BY <1>2, <1>7, TruthKept DEF Release
  <2> QED
    BY <1>3, <1>4, <1>5, <2>1, <2>3, <2>4
<1>8. CASE Poison(m, n) /\ UNCHANGED ownVars
  <2>1. OnceInv(m)'
    <3>1. \A k \in Attempts :
            At(m, k, "sent") \/ pc[m][k] = "return" =>
              At(m, k, "sent")' \/ pc'[m][k] = "return"
      BY <1>2, <1>8 DEF Poison, At
    <3> QED
      BY <1>2, <3>1, OnceKept
  <2>2. poisoned'[m] # 0
    BY <1>8 DEF Poison
  <2>3. EndInv(m)'
    BY <1>2, <2>2 DEF EndInv, OnRecord
  <2>4. TruthInv(m)'
    <3>1. \A k \in Attempts : /\ pc'[m][k] = "onPermanent" => pc[m][k] = "onPermanent"
                              /\ pc[m][k] = "return" => pc'[m][k] = "return"
      BY <1>2, <1>8 DEF Poison
    <3> QED
      BY <1>2, <3>1, TruthKept
  <2> QED
    BY <1>3, <1>4, <1>5, <2>1, <2>3, <2>4
<1>9. CASE CrashAttempt(m, n)
  <2>1. OnceInv(m)'
    BY <1>9 DEF CrashAttempt, OnceInv
  <2>2. /\ visibility'[m] = "gone" => visibility[m] = "gone"
        /\ poisoned' = poisoned
    BY <1>9 DEF CrashAttempt, Crash, WithReceipt
  <2>3. EndInv(m)'
    BY <1>2, <2>2 DEF EndInv, OnRecord
  <2>4. TruthInv(m)'
    BY <1>2, <1>9 DEF CrashAttempt, TruthInv
  <2> QED
    BY <1>3, <1>4, <1>5, <2>1, <2>3, <2>4
<1> QED
  BY <1>6, <1>7, <1>8, <1>9 DEF EndAttempt, HostAttemptStep

-----------------------------------------------------------------------------
(* handleNotification.                                                     *)

\* The steps before the delivery.
LEMMA PrepareKeepsInv ==
  ASSUME HandlerInv, NEW m \in Msgs, NEW n \in Attempts,
         \/ DropBadEvent(m, n) \/ CheckExpired(m, n)
         \/ FindNotification(m, n) \/ FailToRender(m, n)
  PROVE  OthersUnchanged(m) /\ MessageInv(m)'
<1> USE DEF HandlerInv, TypeOK, QueueTypeOK, ownVars, input, queueVars, MessageInv, At
<1>1. /\ pc[m][n] = "handle" /\ visibility[m] # "gone"
      /\ \A k \in Attempts \ {n} : pc[m][k] \notin WorkStage
  BY OneWorks DEF DropBadEvent, CheckExpired, FindNotification, FailToRender, WorkStage
<1>2. CASE CheckExpired(m, n) \/ (FindNotification(m, n) /\ GoStep(m, n, "found"))
  <2>1. \E s \in {"active", "expired", "found"} :
          /\ step' = [step EXCEPT ![m][n] = s]
          /\ s = "expired" => expired[m]
          /\ s # "expired" => "EXPIRED" \notin versions[m]
          /\ step[m][n] # "sent"
    BY <1>2 DEF CheckExpired, FindNotification, GoStep, ExpiryInv
  <2>2. UNCHANGED <<queueVars, input, expired, sent, versions, status, glitch, serverFault>>
    BY <1>2 DEF CheckExpired, FindNotification, GoStep
  <2>3. OthersUnchanged(m)
    BY <2>1, <2>2 DEF OthersUnchanged
  <2>4. FreshInv(m)' /\ SentInv(m)'
    BY <1>1, <2>1, <2>2 DEF FreshInv, SentInv
  <2>5. ExpiryInv(m)'
    BY <1>1, <2>1, <2>2 DEF ExpiryInv, WorkStage
  <2>6. OnceInv(m)'
    BY <2>1, <2>2, OnceKept
  <2>7. EndInv(m)'
    BY <2>2 DEF EndInv, OnRecord
  <2>8. TruthInv(m)'
    BY <2>2, TruthKept
  <2> QED
    BY <2>3, <2>4, <2>5, <2>6, <2>7, <2>8
<1>3. ASSUME NEW result \in {"ok", "transient", "permanent"}, Handle(m, n, result),
             step[m][n] # "sent", UNCHANGED ownVars,
             result = "ok" => format[m] = "badEvent",
             result = "permanent" => format[m] \in {"badRecord", "badContent"}
      PROVE  OthersUnchanged(m) /\ MessageInv(m)'
  <2> DEFINE stage == pc'[m][n]
  <2>1. /\ stage \in {"return", "update", "onPermanent"}
        /\ stage = "return" => result = "ok"
        /\ stage = "onPermanent" => result = "permanent"
        /\ pc' = [pc EXCEPT ![m][n] = stage]
        /\ outcome' = [outcome EXCEPT ![m][n] = result]
        /\ UNCHANGED <<visibility, dequeueCount, owner, poisoned>>
    BY <1>3 DEF Handle, Goto
  <2> HIDE DEF stage
  <2>2. OthersUnchanged(m)
    BY <1>3, <2>1 DEF OthersUnchanged
  <2>3. FreshInv(m)' /\ SentInv(m)'
    BY <1>3, <2>1 DEF FreshInv, SentInv
  <2>4. ExpiryInv(m)'
    BY <1>3, <2>1 DEF ExpiryInv
  <2>5. OnceInv(m)'
    <3>1. \A k \in Attempts :
            At(m, k, "sent") \/ pc[m][k] = "return" =>
              At(m, k, "sent")' \/ pc'[m][k] = "return"
      BY <1>1, <1>3, <2>1
    <3> HIDE DEF At
    <3> QED
      BY <1>3, <2>1, <3>1, OnceKept
  <2>6. EndInv(m)'
    BY <1>1, <1>3, <2>1 DEF EndInv, OnRecord
  <2>7. TruthInv(m)'
    <3>1. \A k \in Attempts :
            /\ pc'[m][k] = "onPermanent" => pc[m][k] = "onPermanent" \/ ~serverFault[m]
            /\ pc[m][k] = "return" => pc'[m][k] = "return"
      BY <1>1, <1>3, <2>1 DEF TruthInv
    <3> QED
      BY <1>3, <2>1, <3>1, TruthKept
  <2> QED
    BY <2>2, <2>3, <2>4, <2>5, <2>6, <2>7
<1>4. CASE DropBadEvent(m, n)
  BY <1>3, <1>4 DEF DropBadEvent
<1>5. CASE FindNotification(m, n) /\ ~GoStep(m, n, "found")
  <2>1. step[m][n] # "sent" /\ UNCHANGED ownVars
    BY <1>5 DEF FindNotification
  <2>2. \/ Handle(m, n, "permanent") /\ format[m] = "badRecord"
        \/ Handle(m, n, "transient")
    BY <1>5 DEF FindNotification
  <2> QED
    BY <1>3, <2>1, <2>2
<1>6. CASE FailToRender(m, n)
  BY <1>3, <1>6 DEF FailToRender
<1> HIDE DEF HandlerInv, TypeOK, QueueTypeOK, ownVars, input, queueVars, MessageInv, At
<1> QED
  BY <1>2, <1>4, <1>5, <1>6

\* sendToWebhook takes no fault of the server for a permanent error, and nothing that
\* may have arrived without an answer for a success.
LEMMA SendToWebhookMeaning ==
  ASSUME NEW a \in Answers
  PROVE  /\ SendToWebhook(a) = "permanent" => ~(a.timeout \/ a.status \div 100 = 5)
         /\ MayHaveArrived(a) => SendToWebhook(a) # "ok"
<1>1. a.timeout \in BOOLEAN /\ a.status \in {0} \cup 100..599
  BY AnswerAssumption
<1>2. a.status >= 500 => a.status \div 100 = 5 /\ a.status % 500 < 100
  BY <1>1
<1>3. a.status \div 100 = 5 => a.status >= 500
  BY <1>1
<1>4. a.status = 0 => a.status \div 100 = 0
  BY <1>1
<1>5. ASSUME SendToWebhook(a) = "permanent"
      PROVE  ~(a.timeout \/ a.status \div 100 = 5)
  BY <1>1, <1>2, <1>3, <1>4, <1>5 DEF SendToWebhook, Succeeds
<1>6. ASSUME MayHaveArrived(a)
      PROVE  SendToWebhook(a) # "ok"
  BY <1>1, <1>2, <1>4, <1>6 DEF SendToWebhook, Succeeds, MayHaveArrived
<1> QED
  BY <1>5, <1>6

\* The three ends of a delivery, for both channels: an error that is found to be
\* permanent is not a fault of the server.
LEMMA DeliveryCases ==
  ASSUME TypeOK, NEW m \in Msgs, NEW n \in Attempts, SendMail(m, n) \/ CallWebhook(m, n)
  PROVE  /\ serverFault' = [serverFault EXCEPT ![m] = serverFault'[m]]
         /\ serverFault' \in [Msgs -> BOOLEAN]
         /\ \/ Deliver(m, n)
            \/ \E error \in {"transient", "permanent"} :
                 /\ error = "permanent" => ~serverFault'[m]
                 /\ FailToDeliver(m, n, error) \/ LoseAnswer(m, n, error)
<1>1. CASE SendMail(m, n)
  <2>1. PICK fault \in BOOLEAN : serverFault' = [serverFault EXCEPT ![m] = fault]
    BY <1>1 DEF SendMail
  <2>2. serverFault'[m] = fault
    BY <2>1 DEF TypeOK
  <2>3. /\ serverFault' = [serverFault EXCEPT ![m] = serverFault'[m]]
        /\ serverFault' \in [Msgs -> BOOLEAN]
    BY <2>1, <2>2 DEF TypeOK
  <2> QED
    BY <1>1, <2>3 DEF SendMail
<1>2. CASE CallWebhook(m, n)
  <2>1. PICK a \in Answers :
          /\ serverFault' = [serverFault EXCEPT ![m] = a.timeout \/ a.status \div 100 = 5]
          /\ \/ SendToWebhook(a) = "ok" /\ Deliver(m, n)
             \/ SendToWebhook(a) # "ok" /\ FailToDeliver(m, n, SendToWebhook(a))
             \/ MayHaveArrived(a) /\ LoseAnswer(m, n, SendToWebhook(a))
    BY <1>2 DEF CallWebhook
  <2>2. /\ serverFault'[m] = (a.timeout \/ a.status \div 100 = 5)
        /\ a.timeout \in BOOLEAN
    BY <2>1, AnswerAssumption DEF TypeOK
  <2>3. /\ serverFault' = [serverFault EXCEPT ![m] = serverFault'[m]]
        /\ serverFault' \in [Msgs -> BOOLEAN]
    BY <2>1, <2>2 DEF TypeOK
  <2>4. SendToWebhook(a) = "permanent" => ~serverFault'[m]
    BY <2>2, SendToWebhookMeaning
  <2> QED
    BY <2>1, <2>3, <2>4, SendToWebhookMeaning, SendToWebhookType
<1> QED
  BY <1>1, <1>2

LEMMA DeliverKeepsInv ==
  ASSUME HandlerInv, NEW m \in Msgs, NEW n \in Attempts,
         SendMail(m, n) \/ CallWebhook(m, n)
  PROVE  OthersUnchanged(m) /\ MessageInv(m)'
<1> USE DEF HandlerInv, TypeOK, QueueTypeOK, input, queueVars, MessageInv, At
<1>1. /\ serverFault' = [serverFault EXCEPT ![m] = serverFault'[m]]
      /\ \/ Deliver(m, n)
         \/ \E error \in {"transient", "permanent"} :
              /\ error = "permanent" => ~serverFault'[m]
              /\ FailToDeliver(m, n, error) \/ LoseAnswer(m, n, error)
  BY DeliveryCases
<1>2. /\ pc[m][n] = "handle" /\ step[m][n] = "found" /\ visibility[m] # "gone"
      /\ format[m] = "good"
      /\ \A k \in Attempts \ {n} : pc[m][k] \notin WorkStage
  BY <1>1, OneWorks DEF Deliver, FailToDeliver, LoseAnswer, WorkStage
<1>5. ~glitch[m] => Ended(m) = {}
  BY <1>2, FirstToEnd
<1>3. CASE Deliver(m, n)
  <2>1. /\ sent' = [sent EXCEPT ![m] = @ + 1]
        /\ step' = [step EXCEPT ![m][n] = "sent"]
        /\ UNCHANGED <<queueVars, input, expired, versions, status, glitch>>
    BY <1>3 DEF Deliver, GoStep
  <2>2. OthersUnchanged(m)
    BY <1>1, <2>1 DEF OthersUnchanged
  <2>3. FreshInv(m)' /\ SentInv(m)'
    BY <1>2, <2>1 DEF FreshInv, SentInv
  <2>4. TruthInv(m)'
    BY <1>2, <1>5, <2>1 DEF TruthInv, Ended, WorkStage
  <2>5. ExpiryInv(m)'
    BY <1>2, <2>1 DEF ExpiryInv, WorkStage
  <2>6. OnceInv(m)'
    <3>1. \A k \in Attempts : ~(At(m, k, "sent") \/ pc[m][k] = "return")
      BY <1>2 DEF WorkStage
    <3>2. ~glitch[m] => sent[m] = 0
      <4>1. ~(~glitch[m] /\ sent[m] > 0)
        <5> HIDE DEF At
        <5> QED
          BY <1>2, <3>1 DEF OnceInv
      <4>2. sent[m] \in Nat
        OBVIOUS
      <4> QED
        BY <4>1, <4>2
    <3>3. At(m, n, "sent")'
      BY <1>2, <2>1
    <3> QED
      BY <2>1, <3>2, <3>3 DEF OnceInv
  <2>7. EndInv(m)'
    BY <2>1 DEF EndInv, OnRecord
  <2> QED
    BY <2>2, <2>3, <2>4, <2>5, <2>6, <2>7
<1>4. ASSUME NEW error \in {"transient", "permanent"},
             error = "permanent" => ~serverFault'[m],
             FailToDeliver(m, n, error) \/ LoseAnswer(m, n, error)
      PROVE  OthersUnchanged(m) /\ MessageInv(m)'
  <2> DEFINE stage == IF error = "transient" THEN "update" ELSE "onPermanent"
  <2>1. /\ pc' = [pc EXCEPT ![m][n] = stage]
        /\ outcome' = [outcome EXCEPT ![m][n] = error]
        /\ UNCHANGED <<visibility, dequeueCount, owner, poisoned, input, expired, step,
                       versions, status>>
        /\ \/ sent' = sent /\ glitch' = glitch
           \/ sent' = [sent EXCEPT ![m] = @ + 1] /\ glitch' = [glitch EXCEPT ![m] = TRUE]
    BY <1>4 DEF FailToDeliver, LoseAnswer, Handle, Goto
  <2>2. stage \in {"update", "onPermanent"} /\ (stage = "onPermanent" => ~serverFault'[m])
    BY <1>4
  <2> HIDE DEF stage
  <2>3. OthersUnchanged(m)
    BY <1>1, <2>1 DEF OthersUnchanged
  <2>4. FreshInv(m)' /\ SentInv(m)'
    BY <2>1, <2>2 DEF FreshInv, SentInv
  <2>5. TruthInv(m)'
    <3>1. glitch'[m] \/ glitch' = glitch
      BY <2>1
    <3>2. \A k \in Attempts : pc'[m][k] = "onPermanent" => ~serverFault'[m]
      BY <1>2, <2>1, <2>2 DEF WorkStage
    <3> QED
      BY <1>2, <1>5, <2>1, <3>1, <3>2 DEF TruthInv, Ended
  <2>6. ExpiryInv(m)'
    BY <2>1, <2>2 DEF ExpiryInv
  <2>7. OnceInv(m)'
    <3>1. CASE glitch'[m]
      BY <3>1 DEF OnceInv
    <3>2. CASE sent' = sent /\ glitch' = glitch
      <4>1. \A k \in Attempts :
              At(m, k, "sent") \/ pc[m][k] = "return" =>
                At(m, k, "sent")' \/ pc'[m][k] = "return"
        BY <1>2, <2>1
      <4> HIDE DEF At
      <4> QED
        BY <2>1, <3>2, <4>1, OnceKept
    <3> QED
      BY <2>1, <3>1, <3>2
  <2>8. EndInv(m)'
    BY <1>2, <2>1, <2>2 DEF EndInv, OnRecord
  <2> QED
    BY <2>3, <2>4, <2>5, <2>6, <2>7, <2>8
<1> QED
  BY <1>1, <1>3, <1>4

-----------------------------------------------------------------------------
(* index.                                                                  *)

LEMMA RecordKeepsInv ==
  ASSUME HandlerInv, NEW m \in Msgs, NEW n \in Attempts,
         RecordSent(m, n) \/ RecordExpired(m, n)
  PROVE  OthersUnchanged(m) /\ MessageInv(m)'
<1> USE DEF HandlerInv, TypeOK, QueueTypeOK, input, MessageInv, At
<1>1. PICK s \in {"sent", "expired"}, value \in {"SENT", "EXPIRED"} :
        /\ s = "sent" <=> value = "SENT"
        /\ Record(m, n, s, value)
  BY DEF RecordSent, RecordExpired
<1>2. /\ pc[m][n] = "handle" /\ step[m][n] = s /\ visibility[m] # "gone"
      /\ \A k \in Attempts \ {n} : pc[m][k] \notin WorkStage
  BY <1>1, OneWorks DEF Record, WorkStage
<1>3. PICK result \in {"ok", "transient"} :
        /\ Handle(m, n, result)
        /\ versions' = versions \/ versions' = [versions EXCEPT ![m] = @ \cup {value}]
        /\ result = "ok" => value \in versions'[m] /\ UNCHANGED glitch
        /\ result = "transient" => glitch' = [glitch EXCEPT ![m] = TRUE]
  BY <1>1 DEF Record, SaveStatus, NoStatusSaved
<1>4. UNCHANGED <<input, expired, step, sent, serverFault>>
  BY <1>1 DEF Record
<1> DEFINE stage == IF result = "ok" THEN "return" ELSE "update"
<1>5. /\ pc' = [pc EXCEPT ![m][n] = stage]
      /\ outcome' = [outcome EXCEPT ![m][n] = result]
      /\ UNCHANGED <<visibility, dequeueCount, owner, poisoned>>
  BY <1>3 DEF Handle, Goto
<1>6. stage \in {"return", "update"} /\ (stage = "return" <=> result = "ok")
  OBVIOUS
<1> HIDE DEF stage
<1>7. OthersUnchanged(m)
  BY <1>3, <1>4, <1>5 DEF OthersUnchanged
<1>8. FreshInv(m)' /\ SentInv(m)'
  <2>1. "SENT" \in versions'[m] => "SENT" \in versions[m] \/ step[m][n] = "sent"
    BY <1>1, <1>2, <1>3
  <2> QED
    BY <1>4, <1>5, <1>6, <2>1 DEF FreshInv, SentInv
<1>9. ExpiryInv(m)'
  <2>1. "EXPIRED" \in versions'[m] => expired'[m]
    BY <1>1, <1>2, <1>3, <1>4 DEF ExpiryInv
  <2>2. \A k \in Attempts : pc'[m][k] # "handle"
    BY <1>2, <1>5, <1>6 DEF WorkStage
  <2> QED
    BY <2>1, <2>2 DEF ExpiryInv
<1>10. OnceInv(m)'
  <2>1. CASE result = "transient"
    BY <1>3, <2>1 DEF OnceInv
  <2>2. CASE result = "ok"
    <3>1. \A k \in Attempts :
            At(m, k, "sent") \/ pc[m][k] = "return" =>
              At(m, k, "sent")' \/ pc'[m][k] = "return"
      BY <1>4, <1>5, <1>6, <2>2
    <3> HIDE DEF At
    <3> QED
      BY <1>3, <1>4, <1>5, <2>2, <3>1, OnceKept
  <2> QED
    BY <2>1, <2>2
<1>11. EndInv(m)'
  BY <1>2, <1>3, <1>4, <1>5, <1>6 DEF EndInv, OnRecord, WorkStage
<1>12. TruthInv(m)'
  <2>1. CASE result = "transient"
    BY <1>3, <1>4, <2>1 DEF TruthInv
  <2>2. CASE result = "ok" /\ value = "SENT"
    <3>1. \A k \in Attempts : /\ pc'[m][k] = "onPermanent" => pc[m][k] = "onPermanent"
                              /\ pc[m][k] = "return" => pc'[m][k] = "return"
      BY <1>2, <1>5, <1>6
    <3>2. /\ "EXPIRED" \in versions'[m] => "EXPIRED" \in versions[m]
          /\ "FAILED" \in versions'[m] => "FAILED" \in versions[m]
      BY <1>3, <2>2
    <3> QED
      BY <1>3, <1>4, <1>5, <2>2, <3>1, <3>2, TruthKept
  <2>3. CASE result = "ok" /\ value = "EXPIRED" /\ glitch[m]
    BY <1>3, <1>4, <2>3 DEF TruthInv
  <2>4. CASE result = "ok" /\ value = "EXPIRED" /\ ~glitch[m]
    <3>1. Ended(m) = {} /\ sent[m] = 0
      BY <1>1, <1>2, <2>4, FirstToEnd
    <3>2. "FAILED" \notin versions[m]
      BY <3>1 DEF Ended
    <3>3. "FAILED" \notin versions'[m] /\ sent'[m] = 0
      BY <1>3, <1>4, <2>4, <3>1, <3>2
    <3>4. pc'[m][n] = "return" /\ \A k \in Attempts : pc'[m][k] # "onPermanent"
      BY <1>2, <1>5, <1>6, <2>4 DEF WorkStage
    <3> QED
      BY <1>4, <3>3, <3>4 DEF TruthInv
  <2> QED
    BY <2>1, <2>2, <2>3, <2>4
<1> QED
  BY <1>7, <1>8, <1>9, <1>10, <1>11, <1>12

\* A promise of the handler rejects.
LEMMA ThrowKeepsInv ==
  ASSUME HandlerInv, NEW m \in Msgs, NEW n \in Attempts, ThrowUnexpected(m, n)
  PROVE  OthersUnchanged(m) /\ MessageInv(m)'
<1> USE DEF HandlerInv, TypeOK, QueueTypeOK, input, MessageInv, At
<1>1. /\ pc[m][n] = "handle" /\ visibility[m] # "gone"
      /\ \A k \in Attempts \ {n} : pc[m][k] \notin WorkStage
  BY OneWorks DEF ThrowUnexpected, Handle, WorkStage
<1>2. /\ pc' = [pc EXCEPT ![m][n] = "onPermanent"]
      /\ outcome' = [outcome EXCEPT ![m][n] = "permanent"]
      /\ glitch' = [glitch EXCEPT ![m] = TRUE]
      /\ UNCHANGED <<visibility, dequeueCount, owner, poisoned, input, expired, step, sent,
                     serverFault>>
  BY DEF ThrowUnexpected, Handle, Goto
<1>3. /\ \A k \in Msgs \ {m} : versions'[k] = versions[k]
      /\ versions[m] \subseteq versions'[m]
      /\ "FAILED" \in versions'[m] => "FAILED" \in versions[m]
      /\ "SENT" \in versions'[m] => "SENT" \in versions[m] \/ step[m][n] = "sent"
      /\ "EXPIRED" \in versions'[m] => "EXPIRED" \in versions[m] \/ step[m][n] = "expired"
  BY DEF ThrowUnexpected, SaveStatus, NoStatusSaved
<1>4. OthersUnchanged(m)
  BY <1>2, <1>3 DEF OthersUnchanged
<1>5. FreshInv(m)' /\ SentInv(m)'
  BY <1>2, <1>3 DEF FreshInv, SentInv
<1>6. ExpiryInv(m)'
  <2>1. "EXPIRED" \in versions'[m] => expired'[m]
    BY <1>1, <1>2, <1>3 DEF ExpiryInv
  <2>2. \A k \in Attempts : pc'[m][k] # "handle"
    BY <1>1, <1>2 DEF WorkStage
  <2> QED
    BY <2>1, <2>2 DEF ExpiryInv
<1>7. glitch'[m]
  BY <1>2
<1>8. OnceInv(m)' /\ TruthInv(m)'
  BY <1>2, <1>7 DEF OnceInv, TruthInv
<1>9. EndInv(m)'
  BY <1>1, <1>2, <1>3 DEF EndInv, OnRecord, WorkStage
<1> QED
  BY <1>4, <1>5, <1>6, <1>8, <1>9

\* updateMessageVisibilityTimeout and onTransientError: the attempt may have lost the
\* message to a later one.
LEMMA FailKeepsInv ==
  ASSUME HandlerInv, NEW m \in Msgs, NEW n \in Attempts,
         SetVisibility(m, n) \/ RecordThrottled(m, n)
  PROVE  OthersUnchanged(m) /\ MessageInv(m)'
<1> USE DEF HandlerInv, TypeOK, QueueTypeOK, ownVars, input, MessageInv, At
<1>1. PICK stage \in {"onTransient", "throw", "return"} :
        /\ pc' = [pc EXCEPT ![m][n] = stage]
        /\ stage = "return" => outcome[m][n] = "transient"
  BY DEF SetVisibility, RecordThrottled, UpdateMessageVisibilityTimeout, PostponeRetry,
     SkipPostpone, RejectUpdate, OnTransientError, Goto, QueueInv, OutcomeInv
<1>2. /\ pc[m][n] \in {"update", "onTransient"}
      /\ UNCHANGED <<dequeueCount, outcome, poisoned, input, expired, step, sent, glitch,
                     serverFault>>
      /\ versions' = versions \/ versions' = [versions EXCEPT ![m] = @ \cup {"THROTTLED"}]
  BY DEF SetVisibility, RecordThrottled, UpdateMessageVisibilityTimeout, PostponeRetry,
     SkipPostpone, RejectUpdate, OnTransientError, SaveStatus, NoStatusSaved
<1>3. \/ visibility' = visibility
      \/ visibility[m] # "gone" /\ visibility' = [visibility EXCEPT ![m] = "delayed"]
  <2>1. CASE PostponeRetry(m, n)
    <3>1. visibility[m] # "gone"
      BY <2>1, OneWorks DEF PostponeRetry, WorkStage
    <3> QED
      BY <2>1, <3>1 DEF PostponeRetry, WithReceipt
  <2>2. CASE SkipPostpone(m, n) \/ RejectUpdate(m, n) \/ OnTransientError(m, n)
    BY <2>2 DEF SkipPostpone, RejectUpdate, OnTransientError
  <2> QED
    BY <2>1, <2>2 DEF SetVisibility, RecordThrottled, UpdateMessageVisibilityTimeout
<1>4. OthersUnchanged(m)
  BY <1>1, <1>2, <1>3 DEF OthersUnchanged
<1>5. FreshInv(m)' /\ SentInv(m)'
  BY <1>1, <1>2 DEF FreshInv, SentInv
<1>6. ExpiryInv(m)'
  BY <1>1, <1>2 DEF ExpiryInv
<1>7. OnceInv(m)'
  <2>1. \A k \in Attempts :
          At(m, k, "sent") \/ pc[m][k] = "return" =>
            At(m, k, "sent")' \/ pc'[m][k] = "return"
    BY <1>1, <1>2
  <2> HIDE DEF At
  <2> QED
    BY <1>2, <1>3, <2>1, OnceKept
<1>8. EndInv(m)'
  BY <1>1, <1>2, <1>3 DEF EndInv, OnRecord
<1>9. TruthInv(m)'
  <2>1. /\ \A k \in Attempts : /\ pc'[m][k] = "onPermanent" => pc[m][k] = "onPermanent"
                               /\ pc[m][k] = "return" => pc'[m][k] = "return"
        /\ visibility[m] = "gone" => visibility'[m] = "gone"
    BY <1>1, <1>2, <1>3
  <2>2. /\ "EXPIRED" \in versions'[m] => "EXPIRED" \in versions[m]
        /\ "FAILED" \in versions'[m] => "FAILED" \in versions[m]
    BY <1>2
  <2> QED
    BY <1>2, <2>1, <2>2, TruthKept
<1> QED
  BY <1>4, <1>5, <1>6, <1>7, <1>8, <1>9

LEMMA FailedKeepsInv ==
  ASSUME HandlerInv, NEW m \in Msgs, NEW n \in Attempts, RecordFailed(m, n)
  PROVE  OthersUnchanged(m) /\ MessageInv(m)'
<1> USE DEF HandlerInv, TypeOK, QueueTypeOK, ownVars, input, MessageInv, At
<1>1. /\ pc[m][n] = "onPermanent" /\ outcome[m][n] = "permanent"
      /\ visibility[m] # "gone"
      /\ \A k \in Attempts \ {n} : pc[m][k] \notin WorkStage
      /\ UNCHANGED <<visibility, dequeueCount, poisoned, input, expired, step, sent,
                     serverFault>>
  BY OneWorks DEF RecordFailed, OnPermanentError, RetryPermanentError, ThrowPermanentError,
     WorkStage, QueueInv, OutcomeInv
<1>2. PICK stage \in {"return", "update", "throw"} :
        /\ pc' = [pc EXCEPT ![m][n] = stage]
        /\ stage = "return" => /\ outcome' = outcome /\ glitch' = glitch
                               /\ "FAILED" \in versions'[m]
        /\ stage # "return" => glitch' = [glitch EXCEPT ![m] = TRUE]
        /\ \A k \in Msgs \ {m} : outcome'[k] = outcome[k]
        /\ \A k \in Attempts \ {n} : outcome'[m][k] = outcome[m][k]
        /\ versions' = versions \/ versions' = [versions EXCEPT ![m] = @ \cup {"FAILED"}]
  BY DEF RecordFailed, OnPermanentError, RetryPermanentError, ThrowPermanentError, Goto,
     SaveStatus, NoStatusSaved
<1>3. OthersUnchanged(m)
  BY <1>1, <1>2 DEF OthersUnchanged
<1>4. FreshInv(m)' /\ SentInv(m)'
  BY <1>1, <1>2 DEF FreshInv, SentInv
<1>5. ExpiryInv(m)'
  BY <1>1, <1>2 DEF ExpiryInv
<1>6. OnceInv(m)'
  <2>1. \A k \in Attempts :
          At(m, k, "sent") \/ pc[m][k] = "return" =>
            At(m, k, "sent")' \/ pc'[m][k] = "return"
    BY <1>1, <1>2
  <2> HIDE DEF At
  <2> QED
    BY <1>1, <1>2, <2>1, OnceKept
<1>7. EndInv(m)'
  BY <1>1, <1>2 DEF EndInv, OnRecord, WorkStage
<1>8. TruthInv(m)'
  <2>1. CASE glitch'[m]
    BY <1>1, <2>1 DEF TruthInv
  <2>2. CASE stage = "return" /\ ~glitch[m]
    <3>1. /\ Ended(m) = {} /\ sent[m] = 0
          /\ ~serverFault[m]
      BY <1>1, <2>2, FirstToEnd DEF TruthInv
    <3>2. "EXPIRED" \notin versions[m]
      BY <3>1 DEF Ended
    <3>3. "EXPIRED" \notin versions'[m] /\ sent'[m] = 0 /\ ~serverFault'[m]
      BY <1>1, <1>2, <3>1, <3>2
    <3>4. pc'[m][n] = "return" /\ \A k \in Attempts : pc'[m][k] # "onPermanent"
      BY <1>1, <1>2, <2>2 DEF WorkStage
    <3> QED
      BY <3>3, <3>4 DEF TruthInv
  <2> QED
    BY <1>2, <2>1, <2>2
<1> QED
  BY <1>3, <1>4, <1>5, <1>6, <1>7, <1>8

-----------------------------------------------------------------------------
(* The invariant holds initially, and every step preserves it.             *)

LEMMA HandlerInvInit == Init => HandlerInv
<1> SUFFICES ASSUME Init
             PROVE  HandlerInv
  OBVIOUS
<1>1. QueueInv
  BY QueueInvInit DEF Init
<1>2. TypeOK
  BY <1>1 DEF Init, TypeOK, QueueInv, HandlerStep, Status
<1>3. ASSUME NEW m \in Msgs
      PROVE  MessageInv(m)
  <2>1. /\ visibility[m] # "gone"
        /\ \A n \in Attempts : pc[m][n] = "idle" /\ step[m][n] = "start"
        /\ versions[m] = {} /\ sent[m] = 0 /\ ~serverFault[m]
    BY DEF Init, QueueInit
  <2>2. TruthInv(m)
    BY <2>1 DEF TruthInv, Ended
  <2> QED
    BY <2>1, <2>2 DEF MessageInv, FreshInv, ExpiryInv, SentInv, OnceInv, EndInv, At
<1>4. ASSUME NEW m \in Msgs
      PROVE  CountInv(m)
  <2>1. sent[m] = 0 /\ dequeueCount[m] = 0 /\ \A n \in Attempts : pc[m][n] = "idle"
    BY DEF Init, QueueInit
  <2> QED
    BY <2>1, QueueAssumption DEF CountInv
<1> QED
  BY <1>1, <1>2, <1>3, <1>4 DEF HandlerInv

\* The actions of an attempt.
AttemptStep(m, n) ==
  \/ EndAttempt(m, n) \/ CrashAttempt(m, n)
  \/ DropBadEvent(m, n) \/ CheckExpired(m, n)
  \/ FindNotification(m, n) \/ FailToRender(m, n)
  \/ SendMail(m, n) \/ CallWebhook(m, n)
  \/ RecordSent(m, n) \/ RecordExpired(m, n)
  \/ ThrowUnexpected(m, n)
  \/ SetVisibility(m, n) \/ RecordThrottled(m, n)
  \/ RecordFailed(m, n)

LEMMA StepCases ==
  ASSUME Next
  PROVE  \E m \in Msgs :
           \/ Send(m) \/ ExpireMessage(m) \/ HostStep(m)
           \/ \E n \in Attempts : AttemptStep(m, n)
BY DEF Next, EmailIndex, WebhookIndex, HandleEmailNotification, HandleWebhookNotification,
   RecordOutcome, AttemptStep

LEMMA GoStepType ==
  ASSUME TypeOK, NEW m \in Msgs, NEW n \in Attempts, NEW s \in HandlerStep, GoStep(m, n, s)
  PROVE  step' \in [Msgs -> [Attempts -> HandlerStep]]
BY DEF GoStep, TypeOK

LEMMA StatusType ==
  ASSUME TypeOK, NEW m \in Msgs, NEW value \in Status,
         SaveStatus(m, value) \/ NoStatusSaved
  PROVE  versions' \in [Msgs -> SUBSET Status] /\ status' \in [Msgs -> Status \cup {"none"}]
<1>1. versions \in [Msgs -> SUBSET Status] /\ status \in [Msgs -> Status \cup {"none"}]
  BY DEF TypeOK
<1>2. CASE SaveStatus(m, value)
  <2>1. versions[m] \cup {value} \in SUBSET Status
    BY <1>1
  <2>2. versions' = [versions EXCEPT ![m] = versions[m] \cup {value}]
    BY <1>2 DEF SaveStatus
  <2>3. status' = [status EXCEPT ![m] = value]
    BY <1>2 DEF SaveStatus
  <2> QED
    BY <1>1, <2>1, <2>2, <2>3
<1>3. CASE NoStatusSaved
  BY <1>1, <1>3 DEF NoStatusSaved
<1> QED
  BY <1>2, <1>3

LEMMA SentType ==
  ASSUME TypeOK, NEW m \in Msgs, sent' = [sent EXCEPT ![m] = @ + 1]
  PROVE  sent' \in [Msgs -> Nat]
BY DEF TypeOK

LEMMA TypeStep == HandlerInv /\ QueueInv' /\ [Next]_vars => TypeOK'
<1> SUFFICES ASSUME HandlerInv, QueueInv', [Next]_vars
             PROVE  TypeOK'
  OBVIOUS
<1> USE DEF HandlerInv, TypeOK, ownVars, input
<1>1. QueueTypeOK'
  BY DEF QueueInv
<1>2. CASE UNCHANGED vars
  BY <1>1, <1>2 DEF vars
<1>3. ASSUME NEW m \in Msgs,
             Send(m) \/ ExpireMessage(m) \/ HostStep(m)
      PROVE  TypeOK'
  BY <1>1, <1>3 DEF Send, ExpireMessage, HostStep
<1>4. ASSUME NEW m \in Msgs, NEW n \in Attempts,
             \/ EndAttempt(m, n) \/ CrashAttempt(m, n) \/ DropBadEvent(m, n)
             \/ FailToRender(m, n)
      PROVE  TypeOK'
  BY <1>1, <1>4 DEF EndAttempt, CrashAttempt, DropBadEvent, FailToRender
<1>5. ASSUME NEW m \in Msgs, NEW n \in Attempts, CheckExpired(m, n) \/ FindNotification(m, n)
      PROVE  TypeOK'
  <2>1. step' \in [Msgs -> [Attempts -> HandlerStep]]
    BY <1>5, GoStepType DEF CheckExpired, FindNotification, HandlerStep
  <2> QED
    BY <1>1, <1>5, <2>1 DEF CheckExpired, FindNotification
<1>6. ASSUME NEW m \in Msgs, NEW n \in Attempts, SendMail(m, n) \/ CallWebhook(m, n)
      PROVE  TypeOK'
  <2>1. serverFault' \in [Msgs -> BOOLEAN]
    BY <1>6, DeliveryCases
  <2>2. CASE Deliver(m, n)
    <3>1. step' \in [Msgs -> [Attempts -> HandlerStep]]
      BY <2>2, GoStepType DEF Deliver, HandlerStep
    <3>2. sent' \in [Msgs -> Nat]
      BY <2>2, SentType DEF Deliver
    <3> QED
      BY <1>1, <2>1, <2>2, <3>1, <3>2 DEF Deliver
  <2>3. ASSUME NEW error, FailToDeliver(m, n, error) \/ LoseAnswer(m, n, error)
        PROVE  TypeOK'
    <3>1. sent' \in [Msgs -> Nat]
      BY <2>3, SentType DEF FailToDeliver, LoseAnswer
    <3>2. /\ UNCHANGED <<channel, format, expired, step, versions, status>>
          /\ glitch' \in [Msgs -> BOOLEAN]
      BY <2>3 DEF FailToDeliver, LoseAnswer
    <3> QED
      BY <1>1, <2>1, <3>1, <3>2
  <2> HIDE DEF TypeOK
  <2> QED
    BY <1>6, <2>2, <2>3, DeliveryCases DEF HandlerInv
<1>7. ASSUME NEW m \in Msgs, NEW n \in Attempts,
             \/ RecordSent(m, n) \/ RecordExpired(m, n) \/ ThrowUnexpected(m, n)
             \/ SetVisibility(m, n) \/ RecordThrottled(m, n) \/ RecordFailed(m, n)
      PROVE  TypeOK'
  <2>1. /\ versions' \in [Msgs -> SUBSET Status]
        /\ status' \in [Msgs -> Status \cup {"none"}]
    <3>1. CASE SetVisibility(m, n)
      BY <3>1 DEF SetVisibility
    <3>2. CASE ~SetVisibility(m, n)
      <4>1. \E value \in Status : SaveStatus(m, value) \/ NoStatusSaved
        BY <1>7, <3>2 DEF RecordSent, RecordExpired, Record, ThrowUnexpected,
           RecordThrottled, RecordFailed, Status
      <4> QED
        BY <4>1, StatusType DEF HandlerInv
    <3> QED
      BY <3>1, <3>2
  <2>2. /\ UNCHANGED <<channel, format, expired, step, sent, serverFault>>
        /\ glitch' = glitch \/ glitch' = [glitch EXCEPT ![m] = TRUE]
    BY <1>7 DEF RecordSent, RecordExpired, Record, ThrowUnexpected, SetVisibility,
       RecordThrottled, RecordFailed
  <2> QED
    BY <1>1, <2>1, <2>2
<1> HIDE DEF HandlerInv, TypeOK, ownVars, input
<1> QED
  BY <1>2, <1>3, <1>4, <1>5, <1>6, <1>7, StepCases DEF AttemptStep

\* Nothing is delivered, and no attempt starts.
LEMMA CountKept ==
  ASSUME NEW k \in Msgs, CountInv(k), sent'[k] = sent[k],
         dequeueCount'[k] = dequeueCount[k],
         \A n \in Attempts :
           pc'[k][n] = "handle" /\ step'[k][n] # "sent" =>
             pc[k][n] = "handle" /\ step[k][n] # "sent"
  PROVE  CountInv(k)'
BY DEF CountInv

LEMMA CountStep ==
  ASSUME HandlerInv, Next
  PROVE  \A k \in Msgs : CountInv(k)'
<1>1. PICK m \in Msgs :
        \/ Send(m) \/ ExpireMessage(m) \/ HostStep(m)
        \/ \E n \in Attempts : AttemptStep(m, n)
  BY StepCases
<1>2. /\ pc \in [Msgs -> [Attempts -> Stage]] /\ step \in [Msgs -> [Attempts -> HandlerStep]]
      /\ sent \in [Msgs -> Nat] /\ dequeueCount \in [Msgs -> Nat]
      /\ \A k \in Msgs : CountInv(k)
  BY DEF HandlerInv, TypeOK, QueueTypeOK
<1>3. CASE Send(m) \/ ExpireMessage(m) \/ (BecomeVisible(m) /\ UNCHANGED ownVars)
  <2>1. UNCHANGED <<sent, dequeueCount, pc, step>>
    BY <1>3 DEF Send, Enqueue, ExpireMessage, queueVars, BecomeVisible, ownVars
  <2> QED
    BY <1>2, <2>1, CountKept
<1>4. CASE DeadLetter(m) /\ UNCHANGED ownVars
  <2>1. UNCHANGED <<sent, pc, step>> /\ \A k \in Msgs : dequeueCount'[k] >= dequeueCount[k]
    BY <1>2, <1>4 DEF DeadLetter, ownVars
  <2>2. \A k \in Msgs : dequeueCount'[k] \in Nat
    BY <1>2, <1>4 DEF DeadLetter
  <2> QED
    BY <1>2, <2>1, <2>2 DEF CountInv
<1>5. CASE Dequeue(m) /\ UNCHANGED ownVars
  <2> DEFINE n == dequeueCount[m] + 1
  <2>1. /\ n \in Attempts
        /\ dequeueCount' = [dequeueCount EXCEPT ![m] = n]
        /\ pc' = [pc EXCEPT ![m][n] = "handle"]
        /\ UNCHANGED <<sent, step>>
    BY <1>2, <1>5, QueueAssumption DEF Dequeue, Goto, Attempts, ownVars
  <2>2. sent[m] < n /\ sent[m] \in Nat /\ sent[m] <= MaxDequeueCount
    BY <1>2 DEF CountInv
  <2>3. n \in Nat
    BY <1>2
  <2> HIDE DEF n
  <2>4. \A k \in Attempts : pc'[m][k] = "handle" => k = n \/ pc[m][k] = "handle"
    BY <1>2, <2>1
  <2>5. \A k \in Attempts : pc'[m][k] = "handle" /\ step'[m][k] # "sent" => sent[m] < k
    BY <1>2, <2>1, <2>2, <2>4 DEF CountInv
  <2>6. dequeueCount'[m] = n /\ sent'[m] = sent[m]
    BY <1>2, <2>1
  <2>7. CountInv(m)'
    BY <2>2, <2>3, <2>5, <2>6 DEF CountInv
  <2>8. \A k \in Msgs \ {m} : CountInv(k)'
    BY <1>2, <2>1, CountKept
  <2> QED
    BY <2>7, <2>8
<1>6. ASSUME NEW n \in Attempts, NEW stage, stage # "handle",
             pc' = [pc EXCEPT ![m][n] = stage], UNCHANGED <<sent, dequeueCount, step>>
      PROVE  \A k \in Msgs : CountInv(k)'
  <2>1. \A k \in Msgs : \A l \in Attempts : pc'[k][l] = "handle" => pc[k][l] = "handle"
    BY <1>2, <1>6
  <2> QED
    BY <1>2, <1>6, <2>1, CountKept
<1>7. ASSUME NEW n \in Attempts, SendMail(m, n) \/ CallWebhook(m, n)
      PROVE  \A k \in Msgs : CountInv(k)'
  <2>1. /\ pc[m][n] = "handle" /\ step[m][n] = "found"
        /\ UNCHANGED dequeueCount
    BY <1>7, DeliveryCases DEF HandlerInv, Deliver, FailToDeliver, LoseAnswer, At, Handle,
       GoStep, queueVars
  <2>2. \/ \E stage \in Stage \ {"handle"} : pc' = [pc EXCEPT ![m][n] = stage] /\ UNCHANGED step
        \/ step' = [step EXCEPT ![m][n] = "sent"] /\ UNCHANGED pc
    <3>1. ASSUME NEW error \in {"transient", "permanent"}, Handle(m, n, error)
          PROVE  \E stage \in Stage \ {"handle"} : pc' = [pc EXCEPT ![m][n] = stage]
      <4>1. CASE error = "transient"
        BY <3>1, <4>1 DEF Handle, Goto, Stage
      <4>2. CASE error = "permanent"
        BY <3>1, <4>2 DEF Handle, Goto, Stage
      <4> QED
        BY <4>1, <4>2
    <3> QED
      BY <1>7, <3>1, DeliveryCases DEF HandlerInv, Deliver, FailToDeliver, LoseAnswer, GoStep,
         queueVars
  <2>3. sent' = sent \/ sent' = [sent EXCEPT ![m] = @ + 1]
    BY <1>7, DeliveryCases DEF HandlerInv, Deliver, FailToDeliver, LoseAnswer
  <2>4. \A k \in Attempts \ {n} : pc[m][k] # "handle"
    BY <2>1, OneWorks DEF HandlerInv, WorkStage
  <2>5. /\ \A k \in Msgs \ {m} : pc'[k] = pc[k] /\ step'[k] = step[k] /\ sent'[k] = sent[k]
        /\ \A k \in Attempts \ {n} : pc'[m][k] = pc[m][k]
        /\ ~(pc'[m][n] = "handle" /\ step'[m][n] # "sent")
    BY <1>2, <2>2, <2>3
  <2>6. sent[m] < n /\ n \in Nat /\ n <= MaxDequeueCount
    BY <1>2, <2>1, QueueAssumption DEF CountInv, Attempts
  <2>7. n <= dequeueCount[m]
    BY <1>2, <2>1, <2>6 DEF HandlerInv, QueueInv, StartedInv
  <2>8. sent'[m] \in Nat /\ sent'[m] <= sent[m] + 1
    BY <1>2, <2>3
  <2>9. sent'[m] <= dequeueCount'[m] /\ sent'[m] <= MaxDequeueCount
    BY <1>2, <2>1, <2>6, <2>7, <2>8, QueueAssumption
  <2>10. CountInv(m)'
    BY <2>4, <2>5, <2>9 DEF CountInv
  <2>11. \A k \in Msgs \ {m} : CountInv(k)'
    BY <1>2, <2>1, <2>5, CountKept
  <2> QED
    BY <2>10, <2>11
<1>8. ASSUME NEW n \in Attempts, AttemptStep(m, n), ~SendMail(m, n), ~CallWebhook(m, n)
      PROVE  \A k \in Msgs : CountInv(k)'
  <2>1. ASSUME NEW s \in {"active", "found", "expired"}, step[m][n] # "sent", GoStep(m, n, s),
               UNCHANGED sent
        PROVE  \A k \in Msgs : CountInv(k)'
    <3>1. UNCHANGED <<sent, pc, dequeueCount>> /\ step' = [step EXCEPT ![m][n] = s]
      BY <2>1 DEF GoStep, queueVars
    <3>2. \A k \in Msgs : \A l \in Attempts : step[k][l] = "sent" => step'[k][l] = "sent"
      BY <1>2, <2>1, <3>1
    <3> QED
      BY <1>2, <3>1, <3>2, CountKept
  <2>2. ASSUME NEW result \in {"ok", "transient", "permanent"}, Handle(m, n, result),
               UNCHANGED <<sent, step>>
        PROVE  \A k \in Msgs : CountInv(k)'
    <3>1. UNCHANGED dequeueCount /\ \E stage \in {"return", "update", "onPermanent"} :
                                      pc' = [pc EXCEPT ![m][n] = stage]
      BY <2>2 DEF Handle, Goto
    <3> QED
      BY <1>6, <2>2, <3>1
  <2>3. CASE \/ DropBadEvent(m, n) \/ CheckExpired(m, n)
             \/ FindNotification(m, n) \/ FailToRender(m, n)
    BY <2>1, <2>2, <2>3 DEF DropBadEvent, CheckExpired, FindNotification, FailToRender, At,
       ownVars
  <2>4. CASE RecordSent(m, n) \/ RecordExpired(m, n) \/ ThrowUnexpected(m, n)
    BY <2>2, <2>4 DEF RecordSent, RecordExpired, Record, ThrowUnexpected
  <2>5. CASE EndAttempt(m, n) \/ CrashAttempt(m, n)
    BY <1>6, <2>5 DEF EndAttempt, CrashAttempt, HostAttemptStep, Complete, Release, Poison,
       Crash, Goto, ownVars
  <2>6. CASE SetVisibility(m, n) \/ RecordThrottled(m, n) \/ RecordFailed(m, n)
    BY <1>6, <2>6 DEF SetVisibility, UpdateMessageVisibilityTimeout, PostponeRetry,
       SkipPostpone, RejectUpdate, RecordThrottled, OnTransientError, RecordFailed,
       OnPermanentError, RetryPermanentError, ThrowPermanentError, Goto, ownVars
  <2> QED
    BY <1>8, <2>3, <2>4, <2>5, <2>6 DEF AttemptStep
<1> QED
  BY <1>1, <1>3, <1>4, <1>5, <1>7, <1>8 DEF HostStep, HostMessageStep

LEMMA HandlerInvStep == HandlerInv /\ [Next]_vars => HandlerInv'
<1> SUFFICES ASSUME HandlerInv, [Next]_vars
             PROVE  HandlerInv'
  OBVIOUS
<1>1. QueueInv'
  BY HandlerStepIsQueueStep, QueueInvStep DEF HandlerInv
<1>2. TypeOK'
  BY <1>1, TypeStep
<1>3. CASE UNCHANGED vars
  BY <1>1, <1>2, <1>3 DEF vars, ownVars, input, queueVars, HandlerInv, MessageInv, FreshInv,
     ExpiryInv, SentInv, OnceInv, TruthInv, Ended, EndInv, OnRecord, CountInv, At
<1>4. CASE Next
  <2>1. PICK m \in Msgs : OthersUnchanged(m) /\ MessageInv(m)'
    BY <1>4, StepCases, SendKeepsInv, HostKeepsInv, EndKeepsInv, PrepareKeepsInv,
       DeliverKeepsInv, RecordKeepsInv, ThrowKeepsInv, FailKeepsInv,
       FailedKeepsInv
       DEF AttemptStep
  <2>2. \A k \in Msgs \ {m} : MessageInv(k)'
    BY <2>1, OthersKeepInv DEF HandlerInv
  <2> QED
    BY <1>1, <1>2, <1>4, <2>1, <2>2, CountStep DEF HandlerInv
<1> QED
  BY <1>3, <1>4

LEMMA HandlerInvariant == Spec => []HandlerInv
BY HandlerInvInit, HandlerInvStep, PTL DEF Spec

\* Of what is given, nothing changes.
LEMMA InputKept == [Next]_vars => UNCHANGED input
<1> SUFFICES ASSUME [Next]_vars
             PROVE  UNCHANGED input
  OBVIOUS
<1> USE DEF input, ownVars
<1>1. ASSUME NEW m \in Msgs, NEW n \in Attempts, EmailIndex(m, n) \/ WebhookIndex(m, n)
      PROVE  UNCHANGED input
  BY <1>1 DEF EmailIndex, WebhookIndex, DropBadEvent, HandleEmailNotification,
     HandleWebhookNotification, RecordOutcome, CheckExpired, FindNotification,
     FailToRender, SendMail, CallWebhook, Deliver, FailToDeliver, LoseAnswer,
     RecordSent, RecordExpired, Record, ThrowUnexpected, SetVisibility, RecordThrottled,
     RecordFailed
<1>2. ASSUME NEW m \in Msgs,
             \/ Send(m) \/ ExpireMessage(m) \/ HostStep(m)
             \/ \E n \in Attempts : EndAttempt(m, n) \/ CrashAttempt(m, n)
      PROVE  UNCHANGED input
  BY <1>2 DEF Send, ExpireMessage, HostStep, EndAttempt, CrashAttempt
<1> QED
  BY <1>1, <1>2 DEF Next, vars

\* Only Send puts a message on the queue, and no step takes it back.
LEMMA NotSentByHandler ==
  ASSUME HandlerInv, NEW m \in Msgs, NEW k \in Msgs,
         \/ ExpireMessage(m) \/ HostStep(m)
         \/ \E n \in Attempts : \/ EndAttempt(m, n) \/ CrashAttempt(m, n)
                              \/ EmailIndex(m, n) \/ WebhookIndex(m, n)
  PROVE  visibility'[k] = "absent" <=> visibility[k] = "absent"
<1>1. \/ UNCHANGED queueVars \/ HostMessageStep(m)
      \/ \E n \in Attempts : \/ HostAttemptStep(m, n) \/ Crash(m, n)
                           \/ Handler(m, n) \/ HandleQueueProcessingFailure(m, n)
  BY IndexIsQueueStep DEF ExpireMessage, HostStep, EndAttempt, CrashAttempt
<1> QED
  BY <1>1, NotSentByHost DEF HandlerInv

-----------------------------------------------------------------------------
(* The theorems.                                                           *)

\* The state always has its type.
THEOREM TypeCorrect == Spec => []TypeOK
BY HandlerInvariant, PTL DEF HandlerInv

\* However often the handlers are retried and however their attempts overlap, a
\* notification is delivered once at most unless something gets lost, and otherwise
\* once per attempt: see SentOnce.
THEOREM SentOnceCorrect == Spec => []SentOnce
<1>1. HandlerInv => SentOnce
  <2> SUFFICES ASSUME HandlerInv, NEW m \in Msgs
               PROVE  /\ sent[m] <= dequeueCount[m] /\ sent[m] <= MaxDequeueCount
                      /\ ~glitch[m] => sent[m] <= 1
    BY DEF SentOnce
  <2>1. CountInv(m) /\ OnceInv(m) /\ sent[m] \in Nat
    BY DEF HandlerInv, MessageInv, TypeOK
  <2>2. ~glitch[m] /\ sent[m] > 0 => sent[m] = 1
    BY <2>1 DEF OnceInv
  <2> QED
    BY <2>1, <2>2 DEF CountInv
<1> QED
  BY <1>1, HandlerInvariant, PTL

\* Whatever leaves the queue has its outcome on record: see EndIsRecorded.
THEOREM EndIsRecordedCorrect == Spec => []EndIsRecorded
<1>1. HandlerInv => EndIsRecorded
  BY DEF HandlerInv, MessageInv, EndInv, OnRecord, EndIsRecorded, Settled
<1> QED
  BY <1>1, HandlerInvariant, PTL

\* What is on record of the end of a notification is true, as long as nothing got
\* lost: see EndIsTrue. The attempt that records the end works alone, nobody has
\* delivered the message before it, and the message then leaves the queue.
THEOREM EndIsTrueCorrect == Spec => []EndIsTrue
<1>1. HandlerInv => EndIsTrue
  <2> SUFFICES ASSUME HandlerInv, NEW m \in Msgs, ~glitch[m]
               PROVE  /\ Ended(m) # {} => sent[m] = 0
                      /\ ~({"EXPIRED", "FAILED"} \subseteq versions[m])
                      /\ "FAILED" \in versions[m] => ~serverFault[m]
    BY DEF EndIsTrue, Ended
  <2>1. TruthInv(m)
    BY DEF HandlerInv, MessageInv
  <2>2. Ended(m) = {} => "FAILED" \notin versions[m]
    BY DEF Ended
  <2> QED
    BY <2>1, <2>2 DEF TruthInv
<1> QED
  BY <1>1, HandlerInvariant, PTL

-----------------------------------------------------------------------------
(* Refinement of Notification.                                             *)

LEMMA NotificationRefinementStep ==
  HandlerInv /\ [Next]_vars =>
    [AbstractNotification!NotificationNext]_(AbstractNotification!notificationVars)
<1> DEFINE Reached == [m \in Msgs |-> sent[m] > 0]
           Silent == [m \in Msgs |-> "EXPIRED" \in versions[m]]
           Same == UNCHANGED <<phaseOf, dequeueCount, Reached, Silent, status>>
           Queue == \/ AbstractNotification!Next
                    \/ UNCHANGED <<phaseOf, dequeueCount>>
<1> SUFFICES ASSUME HandlerInv, [Next]_vars
             PROVE  \/ AbstractNotification!NotificationNext
                    \/ Same
  BY DEF AbstractNotification!notificationVars, AbstractNotification!vars, phaseOf
<1>1. Queue
  <2>1. [Abstract!Next]_(Abstract!vars)
    BY HandlerStepIsQueueStep, QueueRefinementStep DEF HandlerInv
  <2> QED
    BY <2>1 DEF Abstract!Next, Abstract!Send, Abstract!Try, Abstract!Fail, Abstract!Settle,
       Abstract!Bury, Abstract!Move, Abstract!vars, AbstractNotification!Next,
       AbstractNotification!Send, AbstractNotification!Try, AbstractNotification!Fail,
       AbstractNotification!Settle, AbstractNotification!Bury, AbstractNotification!Move,
       phaseOf
<1>2. ASSUME UNCHANGED <<sent, versions, status>>
      PROVE  AbstractNotification!NotificationNext \/ Same
  <2>1. UNCHANGED <<Reached, Silent, status>>
    BY <1>2
  <2> HIDE DEF Reached, Silent
  <2> QED
    BY <1>1, <2>1 DEF AbstractNotification!NotificationNext, Reached, Silent
<1>3. ASSUME NEW m \in Msgs, NEW n \in Attempts, pc[m][n] \in WorkStage
      PROVE  phaseOf[m] = "working"
  BY <1>3, OneWorks DEF HandlerInv, phaseOf, PhaseOf, PhaseName
<1>4. ASSUME UNCHANGED <<visibility, poisoned, dequeueCount>>
      PROVE  UNCHANGED <<phaseOf, dequeueCount>>
  BY <1>4 DEF phaseOf, PhaseOf
<1>5. ASSUME NEW m \in Msgs, NEW n \in Attempts, At(m, n, "found"),
             sent' = [sent EXCEPT ![m] = @ + 1],
             UNCHANGED <<visibility, poisoned, dequeueCount, versions, status>>
      PROVE  AbstractNotification!Deliver(m)
  <2>1. phaseOf[m] = "working"
    BY <1>3, <1>5 DEF At, WorkStage
  <2>2. ~Silent[m]
    BY <1>5 DEF HandlerInv, MessageInv, ExpiryInv
  <2>3. Reached' = [Reached EXCEPT ![m] = TRUE]
    <3>1. sent'[m] > 0
      BY <1>5 DEF HandlerInv, TypeOK
    <3>2. \A k \in Msgs \ {m} : sent'[k] = sent[k]
      BY <1>5 DEF HandlerInv, TypeOK
    <3>3. \A k \in Msgs : (sent'[k] > 0) = IF k = m THEN TRUE ELSE sent[k] > 0
      BY <3>1, <3>2
    <3> QED
      BY <3>3, Zenon
  <2>4. UNCHANGED <<phaseOf, dequeueCount, Silent, status>>
    BY <1>4, <1>5
  <2> QED
    BY <2>1, <2>2, <2>3, <2>4 DEF AbstractNotification!Deliver, AbstractNotification!vars,
       phaseOf
<1>6. ASSUME NEW m \in Msgs, NEW n \in Attempts, NEW value \in FinalStatus,
             pc[m][n] \in WorkStage, value = "SENT" => sent[m] > 0,
             SaveStatus(m, value),
             UNCHANGED <<visibility, poisoned, dequeueCount, sent>>
      PROVE  AbstractNotification!Conclude(m)
  <2>1. phaseOf[m] = "working"
    BY <1>3, <1>6
  <2>2. /\ value \in AbstractNotification!FinalStatus
        /\ value = "SENT" => Reached[m]
    BY <1>6 DEF FinalStatus, Status, AbstractNotification!FinalStatus
  <2>3. /\ status' = [status EXCEPT ![m] = value]
        /\ Silent' = [Silent EXCEPT ![m] = Silent[m] \/ value = "EXPIRED"]
    <3>1. status' = [status EXCEPT ![m] = value]
      BY <1>6 DEF SaveStatus
    <3>2. \A k \in Msgs :
            ("EXPIRED" \in versions'[k]) =
              IF k = m THEN "EXPIRED" \in versions[m] \/ value = "EXPIRED"
              ELSE "EXPIRED" \in versions[k]
      BY <1>6 DEF SaveStatus, HandlerInv, TypeOK
    <3> QED
      BY <3>1, <3>2, Zenon
  <2>4. UNCHANGED <<phaseOf, dequeueCount, Reached>>
    BY <1>4, <1>6
  <2> QED
    BY <2>1, <2>2, <2>3, <2>4 DEF AbstractNotification!Conclude, AbstractNotification!vars,
       phaseOf
<1>7. ASSUME NEW m \in Msgs, NEW n \in Attempts, RecordThrottled(m, n)
      PROVE  AbstractNotification!NotificationNext \/ Same
  <2>1. CASE NoStatusSaved
    BY <1>2, <1>7, <2>1 DEF RecordThrottled, NoStatusSaved
  <2>2. CASE SaveStatus(m, "THROTTLED")
    <3>1. dequeueCount[m] > 0
      <4>1. pc[m][n] # "idle" /\ StartedInv /\ dequeueCount[m] \in Nat
        BY <1>7 DEF RecordThrottled, OnTransientError, HandlerInv, QueueInv, QueueTypeOK
      <4> QED
        BY <4>1, QueueAssumption DEF StartedInv, Attempts
    <3>2. UNCHANGED <<phaseOf, dequeueCount, Reached>>
      BY <1>4, <1>7 DEF RecordThrottled, OnTransientError
    <3>3. Silent' = Silent /\ status' = [status EXCEPT ![m] = "THROTTLED"]
      BY <2>2 DEF SaveStatus, HandlerInv, TypeOK
    <3>4. AbstractNotification!Throttle(m)
      BY <3>1, <3>2, <3>3 DEF AbstractNotification!Throttle, AbstractNotification!vars,
         phaseOf
    <3> QED
      BY <3>4 DEF AbstractNotification!NotificationNext, AbstractNotification!Work
  <2> QED
    BY <1>7, <2>1, <2>2 DEF RecordThrottled
<1>8. ASSUME NEW m \in Msgs, NEW n \in Attempts,
             \/ RecordSent(m, n) \/ RecordExpired(m, n)
             \/ ThrowUnexpected(m, n) \/ RecordFailed(m, n)
      PROVE  AbstractNotification!NotificationNext \/ Same
  <2>1. PICK value \in FinalStatus :
          /\ value = "SENT" => step[m][n] = "sent"
          /\ SaveStatus(m, value) \/ NoStatusSaved
    BY <1>8 DEF RecordSent, RecordExpired, RecordFailed, Record, ThrowUnexpected, At,
       FinalStatus, Status
  <2>2. /\ pc[m][n] \in WorkStage
        /\ UNCHANGED <<visibility, poisoned, dequeueCount, sent>>
    BY <1>8 DEF RecordSent, RecordExpired, RecordFailed, Record, ThrowUnexpected, At, Handle,
       OnPermanentError, RetryPermanentError, ThrowPermanentError, WorkStage
  <2>3. CASE NoStatusSaved
    BY <1>2, <2>2, <2>3 DEF NoStatusSaved
  <2>4. CASE SaveStatus(m, value)
    <3>1. value = "SENT" => sent[m] > 0
      BY <2>1 DEF HandlerInv, MessageInv, SentInv
    <3>2. AbstractNotification!Conclude(m)
      BY <1>6, <2>2, <2>4, <3>1
    <3> QED
      BY <3>2 DEF AbstractNotification!NotificationNext, AbstractNotification!Work
  <2> QED
    BY <2>1, <2>3, <2>4
<1>9. ASSUME NEW m \in Msgs, NEW n \in Attempts, SendMail(m, n) \/ CallWebhook(m, n)
      PROVE  AbstractNotification!NotificationNext \/ Same
  <2>1. \/ Deliver(m, n)
        \/ \E error : FailToDeliver(m, n, error) \/ LoseAnswer(m, n, error)
    BY <1>9, DeliveryCases DEF HandlerInv
  <2>2. CASE \E error : FailToDeliver(m, n, error)
    BY <1>2, <2>2 DEF FailToDeliver
  <2>3. CASE Deliver(m, n) \/ \E error : LoseAnswer(m, n, error)
    <3>1. AbstractNotification!Deliver(m)
      BY <1>5, <2>3 DEF Deliver, LoseAnswer, GoStep, Handle, queueVars
    <3> QED
      BY <3>1 DEF AbstractNotification!NotificationNext, AbstractNotification!Work
  <2> QED
    BY <2>1, <2>2, <2>3
<1>10. ASSUME NEW m \in Msgs, NEW n \in Attempts,
              \/ EndAttempt(m, n) \/ CrashAttempt(m, n)
              \/ DropBadEvent(m, n) \/ CheckExpired(m, n)
              \/ FindNotification(m, n) \/ FailToRender(m, n) \/ SetVisibility(m, n)
       PROVE  AbstractNotification!NotificationNext \/ Same
  BY <1>2, <1>10 DEF EndAttempt, CrashAttempt, DropBadEvent, CheckExpired,
     FindNotification, FailToRender, SetVisibility, ownVars
<1>11. ASSUME NEW m \in Msgs, Send(m) \/ ExpireMessage(m) \/ HostStep(m)
       PROVE  AbstractNotification!NotificationNext \/ Same
  BY <1>2, <1>11 DEF Send, ExpireMessage, HostStep, ownVars
<1>12. CASE UNCHANGED vars
  BY <1>2, <1>12 DEF vars, ownVars
<1> HIDE DEF Same
<1> QED
  BY <1>7, <1>8, <1>9, <1>10, <1>11, <1>12, StepCases DEF AttemptStep

\* Apart from Send, what a handler does is a try that goes on or ends, or its work.
LEMMA HandlerWorkStep ==
  ASSUME HandlerInv, NEW m \in Msgs,
         \/ ExpireMessage(m) \/ HostStep(m)
         \/ \E n \in Attempts : \/ EndAttempt(m, n) \/ CrashAttempt(m, n)
                              \/ EmailIndex(m, n) \/ WebhookIndex(m, n)
  PROVE  \/ UNCHANGED AbstractNotification!notificationVars
         \/ \E k \in Msgs : AbstractNotification!Work(k)
         \/ /\ \E k \in Msgs : \/ AbstractNotification!Try(k) \/ AbstractNotification!Fail(k)
                             \/ AbstractNotification!Settle(k) \/ AbstractNotification!Bury(k)
            /\ UNCHANGED <<[k \in Msgs |-> sent[k] > 0],
                           [k \in Msgs |-> "EXPIRED" \in versions[k]], status>>
<1>1. [AbstractNotification!NotificationNext]_(AbstractNotification!notificationVars)
  BY NotificationRefinementStep DEF Next
<1>2. ASSUME NEW k \in Msgs, AbstractNotification!Send(k)
      PROVE  FALSE
  <2>1. /\ phaseOf[k] = "unsent"
        /\ phaseOf' = [phaseOf EXCEPT ![k] = "waiting"]
    BY <1>2 DEF AbstractNotification!Send, AbstractNotification!Move, phaseOf
  <2>2. PhaseOf(k) = "unsent" /\ PhaseOf(k)' = "waiting"
    BY <2>1 DEF phaseOf
  <2>3. visibility[k] = "absent" /\ visibility'[k] # "absent"
    BY <2>2 DEF PhaseOf, PhaseName, HandlerInv, TypeOK, QueueTypeOK, Visibility
  <2> QED
    BY <2>3, NotSentByHandler
<1> QED
  BY <1>1, <1>2 DEF AbstractNotification!NotificationNext, AbstractNotification!Next

\* The handlers implement Notification, whatever fails, crashes or overlaps: see
\* ImplementsNotification. This is what MessagePipeline relies on.
THEOREM HandlersImplementNotification == Spec => ImplementsNotification
<1>1. Init => AbstractNotification!NotificationInit
  <2> SUFFICES ASSUME Init
               PROVE  AbstractNotification!NotificationInit
    OBVIOUS
  <2>1. AbstractNotification!Init
    BY DEF Init, QueueInit, PhaseOf, PhaseName, AbstractNotification!Init
  <2>2. ASSUME NEW m \in Msgs
        PROVE  (sent[m] > 0) = FALSE /\ ("EXPIRED" \in versions[m]) = FALSE
    <3>1. sent[m] = 0 /\ versions[m] = {}
      BY DEF Init
    <3> QED
      BY <3>1
  <2>3. status = [m \in Msgs |-> "none"]
    BY DEF Init
  <2> QED
    BY <2>1, <2>2, <2>3, Zenon DEF AbstractNotification!NotificationInit
<1>2. HandlerInv /\ [Next]_vars =>
        [AbstractNotification!NotificationNext]_(AbstractNotification!notificationVars)
  BY NotificationRefinementStep
<1> QED
  BY <1>1, <1>2, HandlerInvariant, PTL
     DEF Spec, ImplementsNotification, AbstractNotification!NotificationSpec
=============================================================================
