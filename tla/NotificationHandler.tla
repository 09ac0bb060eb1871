------------------------ MODULE NotificationHandler ------------------------
(***************************************************************************)
(* The handlers of the two notification queues, on top of QueueDelivery:   *)
(* email (lib/emailnotifications_queue_handler.ts) and webhook             *)
(* (lib/webhook_queue_handler.ts).  They go through the same steps and     *)
(* differ in the delivery.  A message of the queues is a NotificationEvent *)
(* for one channel.                                                        *)
(*                                                                         *)
(* Every step of this module is also a step of QueueDelivery: what was     *)
(* left open there (the stage "handle" and the two callbacks) is filled in *)
(* with the reads, the delivery and the status writes of the handlers.     *)
(***************************************************************************)
EXTENDS QueueDelivery

CONSTANT Answers  \* the answers of the webhook, see AnswerAssumption

\* timeout: superagent's err.timeout; status: the HTTP status of the answer,
\* 0 when there was none (the connection failed).
ASSUME AnswerAssumption == Answers \subseteq [timeout : BOOLEAN, status : {0} \cup 100..599]

VARIABLES
  channel,   \* channel[m]: the channel, and so the queue and handler, of m
  format,    \* format[m]: what of m decodes, see Format
  expired,   \* expired[m]: the time to live of the message is over
  step,      \* step[m][n]: where attempt n is inside the stage "handle"
  sent,      \* sent[m]: how often the message reached the recipient
  versions,  \* versions[m]: the values the notification status ever had
  status,    \* status[m]: the last of them, "none" before the first
  glitch,    \* glitch[m]: an attempt of m crashed or broke off, or the answer to a
             \* delivery got lost, or the outcome could not be recorded (a ghost:
             \* the code does not know it)
  serverFault \* serverFault[m]: the last delivery of m failed on the other side: a
             \* mail not sent, a timeout, a server error (a ghost)

input == <<channel, format>>
ownVars == <<input, expired, step, sent, versions, status, glitch, serverFault>>
vars == <<queueVars, ownVars>>

\* badEvent: the queued item is not a NotificationEvent.  badRecord: the stored
\* notification is not one of this channel.  badContent: the text of the message
\* cannot be turned into an email.
Channel == {"EMAIL", "WEBHOOK"}
Format == {"good", "badEvent", "badRecord", "badContent"}
HandlerStep == {"start", "active", "found", "sent", "expired"}
Status == {"SENT", "EXPIRED", "THROTTLED", "FAILED"}
FinalStatus == Status \ {"THROTTLED"}

Init ==
  /\ QueueInit
  /\ channel \in [Msgs -> Channel]
  /\ format \in [Msgs -> Format]
  /\ \A m \in Msgs : format[m] = "badContent" => channel[m] = "EMAIL"
  /\ expired = [m \in Msgs |-> FALSE]
  /\ step = [m \in Msgs |-> [n \in Attempts |-> "start"]]
  /\ sent = [m \in Msgs |-> 0]
  /\ versions = [m \in Msgs |-> {}]
  /\ status = [m \in Msgs |-> "none"]
  /\ glitch = [m \in Msgs |-> FALSE]
  /\ serverFault = [m \in Msgs |-> FALSE]

At(m, n, s) == pc[m][n] = "handle" /\ step[m][n] = s

GoStep(m, n, s) == /\ step' = [step EXCEPT ![m][n] = s]
                   /\ UNCHANGED queueVars

\* notificationStatusUpdater: every status is saved as a new version of the
\* status document of this notification and channel.
SaveStatus(m, value) == /\ status' = [status EXCEPT ![m] = value]
                        /\ versions' = [versions EXCEPT ![m] = @ \cup {value}]

NoStatusSaved == UNCHANGED <<status, versions>>

-----------------------------------------------------------------------------
(* handleNotification.                                                     *)

\* The queued item is not a NotificationEvent: index stops there.
DropBadEvent(m, n) ==
  /\ At(m, n, "start")
  /\ format[m] = "badEvent"
  /\ Handle(m, n, "ok")
  /\ UNCHANGED ownVars

\* ActiveMessage.decode: has the message expired by now?
CheckExpired(m, n) ==
  /\ At(m, n, "start")
  /\ format[m] # "badEvent"
  /\ GoStep(m, n, IF expired[m] THEN "expired" ELSE "active")
  /\ UNCHANGED <<input, expired, sent, versions, status, glitch, serverFault>>

\* notificationModel.find, and the decoding of what it finds.  The query may
\* fail, and the document may not be visible yet: both are transient.
FindNotification(m, n) ==
  /\ At(m, n, "active")
  /\ \/ format[m] # "badRecord" /\ GoStep(m, n, "found")
     \/ format[m] = "badRecord" /\ Handle(m, n, "permanent") /\ UNCHANGED step
     \/ Handle(m, n, "transient") /\ UNCHANGED step
  /\ UNCHANGED <<input, expired, sent, versions, status, glitch, serverFault>>

\* generateDocumentHtml rejects, whenever it is tried, with an error that is not a
\* RuntimeError: for handleQueueProcessingFailure it is not a transient one.
FailToRender(m, n) ==
  /\ At(m, n, "found")
  /\ format[m] = "badContent"
  /\ Handle(m, n, "permanent")
  /\ UNCHANGED ownVars

\* A delivery succeeds.
Deliver(m, n) ==
  /\ At(m, n, "found")
  /\ format[m] = "good"
  /\ sent' = [sent EXCEPT ![m] = @ + 1]
  /\ GoStep(m, n, "sent")
  /\ UNCHANGED <<input, expired, versions, status, glitch>>

\* A delivery fails before it reached the recipient.
FailToDeliver(m, n, error) ==
  /\ At(m, n, "found")
  /\ format[m] = "good"
  /\ Handle(m, n, error)
  /\ UNCHANGED <<input, expired, step, sent, versions, status, glitch>>

\* A delivery reaches the recipient, but the answer does not come back (a
\* timeout, a closed connection): for the handler it failed.
LoseAnswer(m, n, error) ==
  /\ At(m, n, "found")
  /\ format[m] = "good"
  /\ sent' = [sent EXCEPT ![m] = @ + 1]
  /\ glitch' = [glitch EXCEPT ![m] = TRUE]
  /\ Handle(m, n, error)
  /\ UNCHANGED <<input, expired, step, versions, status>>

\* sendMail: every failure is a TransientError.
SendMail(m, n) ==
  \/ /\ Deliver(m, n)
     /\ serverFault' = [serverFault EXCEPT ![m] = FALSE]
  \/ /\ FailToDeliver(m, n, "transient") \/ LoseAnswer(m, n, "transient")
     /\ serverFault' = [serverFault EXCEPT ![m] = TRUE]

Succeeds(a) == ~a.timeout /\ a.status \div 100 = 2

\* Variant: server errors are not told from client errors.
ClassifyByPresence(a) ==
  IF Succeeds(a) THEN "ok"
  ELSE IF a.timeout \/ a.status = 0 THEN "transient" ELSE "permanent"

\* How sendToWebhook classifies an answer: retry on a timeout and on a server
\* error (err.status % 500 < 100, and a status there is), fail on the rest.
SendToWebhook(a) ==
  IF Succeeds(a) THEN "ok"
  ELSE IF a.timeout \/ (a.status # 0 /\ a.status % 500 < 100)
       THEN "transient"
       ELSE "permanent"

\* The backend may have got a message it gave no answer to, or for which the
\* answer was a server error.
MayHaveArrived(a) == a.timeout \/ a.status = 0 \/ a.status >= 500

CallWebhook(m, n) ==
  \E a \in Answers :
    /\ serverFault' = [serverFault EXCEPT ![m] = a.timeout \/ a.status \div 100 = 5]
    /\ \/ SendToWebhook(a) = "ok" /\ Deliver(m, n)
       \/ SendToWebhook(a) # "ok" /\ FailToDeliver(m, n, SendToWebhook(a))
       \/ MayHaveArrived(a) /\ LoseAnswer(m, n, SendToWebhook(a))

HandleEmailNotification(m, n) ==
  \/ CheckExpired(m, n)
  \/ FindNotification(m, n)
  \/ FailToRender(m, n)
  \/ SendMail(m, n)

\* The content goes out as it is: there is nothing to render.
HandleWebhookNotification(m, n) ==
  \/ CheckExpired(m, n)
  \/ FindNotification(m, n)
  \/ CallWebhook(m, n)

-----------------------------------------------------------------------------
(* index: the status of the outcome, and the callbacks given to            *)
(* handleQueueProcessingFailure.                                           *)

\* Variant: a failed status write is ignored, as in the handler of the
\* created messages.
RecordIgnoringErrors(m, n, s, value) ==
  /\ At(m, n, s)
  /\ SaveStatus(m, value) \/ NoStatusSaved
  /\ Handle(m, n, "ok")
  /\ UNCHANGED <<input, expired, step, sent, glitch, serverFault>>

\* Variant: the test on the result of the status write is the wrong way round.
RecordInverted(m, n, s, value) ==
  /\ At(m, n, s)
  /\ \/ SaveStatus(m, value) /\ Handle(m, n, "transient") /\ UNCHANGED glitch
     \/ NoStatusSaved /\ Handle(m, n, "ok") /\ UNCHANGED glitch
  /\ UNCHANGED <<input, expired, step, sent, serverFault>>

\* The updater gives a right: the attempt is done.  It gives a left: a
\* TransientError, so that the whole handler is retried, although the write
\* may have taken effect.
Record(m, n, s, value) ==
  /\ At(m, n, s)
  /\ \/ SaveStatus(m, value) /\ Handle(m, n, "ok") /\ UNCHANGED glitch
     \/ /\ SaveStatus(m, value) \/ NoStatusSaved
        /\ Handle(m, n, "transient")
        /\ glitch' = [glitch EXCEPT ![m] = TRUE]
  /\ UNCHANGED <<input, expired, step, sent, serverFault>>

RecordSent(m, n) == Record(m, n, "sent", "SENT")

RecordExpired(m, n) == Record(m, n, "expired", "EXPIRED")

\* Variant: records a failure in onTransientError as in onPermanentError.
RecordThrottledAsFailed(m, n) ==
  /\ OnTransientError(m, n)
  /\ SaveStatus(m, "FAILED") \/ NoStatusSaved
  /\ UNCHANGED <<input, expired, step, sent, glitch, serverFault>>

\* A promise that the handler waits for rejects, with an error that is not a
\* RuntimeError: not a transient one for handleQueueProcessingFailure. If it is that of
\* the updater, the status may have been saved.
ThrowUnexpected(m, n) ==
  /\ step[m][n] # "start"
  /\ Handle(m, n, "permanent")
  /\ \/ NoStatusSaved
     \/ step[m][n] = "sent" /\ SaveStatus(m, "SENT")
     \/ step[m][n] = "expired" /\ SaveStatus(m, "EXPIRED")
  /\ glitch' = [glitch EXCEPT ![m] = TRUE]
  /\ UNCHANGED <<input, expired, step, sent, serverFault>>

\* onTransientError; the result of the status update is not looked at.
RecordThrottled(m, n) ==
  /\ OnTransientError(m, n)
  /\ SaveStatus(m, "THROTTLED") \/ NoStatusSaved
  /\ UNCHANGED <<input, expired, step, sent, glitch, serverFault>>

\* onPermanentError: a right ends the attempt, a left starts a retry, a
\* rejection throws; after the last two the status may have been saved.
RecordFailed(m, n) ==
  /\ \/ OnPermanentError(m, n) /\ SaveStatus(m, "FAILED") /\ UNCHANGED glitch
     \/ /\ RetryPermanentError(m, n) \/ ThrowPermanentError(m, n)
        /\ SaveStatus(m, "FAILED") \/ NoStatusSaved
        /\ glitch' = [glitch EXCEPT ![m] = TRUE]
  /\ UNCHANGED <<input, expired, step, sent, serverFault>>

\* updateMessageVisibilityTimeout has no effect outside the queue.
SetVisibility(m, n) ==
  /\ UpdateMessageVisibilityTimeout(m, n)
  /\ UNCHANGED ownVars

RecordOutcome(m, n) ==
  \/ RecordSent(m, n)
  \/ RecordExpired(m, n)
  \/ ThrowUnexpected(m, n)
  \/ SetVisibility(m, n)
  \/ RecordThrottled(m, n)
  \/ RecordFailed(m, n)

EmailIndex(m, n) ==
  /\ channel[m] = "EMAIL"
  /\ DropBadEvent(m, n) \/ HandleEmailNotification(m, n) \/ RecordOutcome(m, n)

WebhookIndex(m, n) ==
  /\ channel[m] = "WEBHOOK"
  /\ DropBadEvent(m, n) \/ HandleWebhookNotification(m, n) \/ RecordOutcome(m, n)

-----------------------------------------------------------------------------
(* The host and the clock.                                                 *)

Send(m) == Enqueue(m) /\ UNCHANGED ownVars

\* The time to live of the message ends.
ExpireMessage(m) ==
  /\ ~expired[m]
  /\ expired' = [expired EXCEPT ![m] = TRUE]
  /\ UNCHANGED <<queueVars, input, step, sent, versions, status, glitch, serverFault>>

HostStep(m) == HostMessageStep(m) /\ UNCHANGED ownVars

EndAttempt(m, n) == HostAttemptStep(m, n) /\ UNCHANGED ownVars

CrashAttempt(m, n) ==
  /\ Crash(m, n)
  /\ glitch' = [glitch EXCEPT ![m] = TRUE]
  /\ UNCHANGED <<input, expired, step, sent, versions, status, serverFault>>

Next ==
  \E m \in Msgs :
    \/ Send(m)
    \/ ExpireMessage(m)
    \/ HostStep(m)
    \/ \E n \in Attempts : \/ EndAttempt(m, n)
                           \/ CrashAttempt(m, n)
                           \/ EmailIndex(m, n)
                           \/ WebhookIndex(m, n)

Spec == Init /\ [][Next]_vars

-----------------------------------------------------------------------------
(* Properties.                                                             *)

TypeOK ==
  /\ QueueTypeOK
  /\ channel \in [Msgs -> Channel]
  /\ format \in [Msgs -> Format]
  /\ expired \in [Msgs -> BOOLEAN]
  /\ step \in [Msgs -> [Attempts -> HandlerStep]]
  /\ sent \in [Msgs -> Nat]
  /\ versions \in [Msgs -> SUBSET Status]
  /\ status \in [Msgs -> Status \cup {"none"}]
  /\ glitch \in [Msgs -> BOOLEAN]
  /\ serverFault \in [Msgs -> BOOLEAN]

\* Every attempt delivers once at most, so that the queue's maxDequeueCount bounds how
\* often a recipient gets a message whatever crashes or gets lost. As long as no
\* attempt crashes, no answer gets lost and no outcome fails to be recorded, the
\* recipient gets it at most once, however often the handler is retried and however
\* its attempts overlap.
SentOnce ==
  \A m \in Msgs : /\ sent[m] <= dequeueCount[m] /\ sent[m] <= MaxDequeueCount
                  /\ ~glitch[m] => sent[m] <= 1

\* What is on record of a notification's end is true, as long as no attempt of it
\* crashes or breaks off, no answer gets lost and no outcome fails to be recorded,
\* however its attempts fail, are retried and overlap: what EXPIRED or FAILED is
\* recorded for never reached the recipient, before or after; it does not get both;
\* and FAILED is not what came of a fault of the other side, which is to be retried (a
\* mail that could not be sent, a timeout, and as sendToWebhook says: "in case of server
\* HTTP 5xx errors we trigger a retry").
EndIsTrue ==
  \A m \in Msgs : ~glitch[m] =>
    /\ versions[m] \cap {"EXPIRED", "FAILED"} # {} => sent[m] = 0
    /\ ~({"EXPIRED", "FAILED"} \subseteq versions[m])
    /\ "FAILED" \in versions[m] => ~serverFault[m]

\* m left the queue, not as a poisoned message, and no attempt of it is left;
\* result is how its last attempt ended.
Settled(m, result) ==
  /\ visibility[m] = "gone" /\ poisoned[m] = 0
  /\ \A n \in Attempts : ~Running(m, n)
  /\ outcome[m][dequeueCount[m]] = result

\* A message that leaves the queue other than by giving up or as a poisoned
\* one has its outcome on record, unless it could not be decoded.
EndIsRecorded ==
  \A m \in Msgs : format[m] # "badEvent" =>
    /\ Settled(m, "ok") => versions[m] \cap {"SENT", "EXPIRED"} # {}
    /\ Settled(m, "permanent") => "FAILED" \in versions[m]

\* README.md: "We mark notifications as `Technical failure` once we've given up":
\* a notification nobody will try to deliver again, because its last attempt
\* failed, is not left as one that is still being retried.
GivenUpIsFailed ==
  \A m \in Msgs : Settled(m, "transient") => status[m] # "THROTTLED"

\* README.md: "Delivered: This means the message is in the person's email inbox",
\* while "Notifications still being retried are marked as `Sending`": when the
\* last attempt delivered the notification and recorded it, and nothing went wrong
\* with that, it is not marked as one that is still being retried.
DeliveredStays ==
  \A m \in Msgs :
    Settled(m, "ok") /\ ~glitch[m] /\ "SENT" \in versions[m] => status[m] = "SENT"

-----------------------------------------------------------------------------
(* Refinement: the reads, the errors and the callbacks come down to what   *)
(* Notification allows at each moment of a try.                            *)

AbstractNotification == INSTANCE Notification WITH
                          phase <- [m \in Msgs |-> PhaseOf(m)],
                          tries <- dequeueCount,
                          MaxTries <- MaxDequeueCount,
                          reached <- [m \in Msgs |-> sent[m] > 0],
                          silent <- [m \in Msgs |-> "EXPIRED" \in versions[m]]

\* Every behaviour of a handler is one of Notification: only an attempt that holds
\* the message delivers or records SENT, EXPIRED or FAILED, SENT is recorded only
\* for what reached the recipient, and after EXPIRED nothing is delivered; an
\* attempt that lost the message can only add THROTTLED.
ImplementsNotification == AbstractNotification!NotificationSpec
=============================================================================
