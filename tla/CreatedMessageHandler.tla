----------------------- MODULE CreatedMessageHandler -----------------------
(***************************************************************************)
(* The handler of the "createdmessages" queue                              *)
(* (lib/created_message_queue_handler.ts) on top of QueueDelivery.  A      *)
(* message of the queue is a CreatedMessageEvent.  The handler decides     *)
(* from the recipient's profile whether the message may enter the inbox    *)
(* and through which channels the recipient is notified, makes the message *)
(* readable, and puts one event per channel on the notification queues.    *)
(*                                                                         *)
(* All messages are for one recipient, whose profile changes at any time.  *)
(***************************************************************************)
EXTENDS QueueDelivery, FiniteSets

CONSTANT Profiles  \* the states the recipient's profile goes through

Channels == {"EMAIL", "WEBHOOK"}

\* exists: there is a profile; inbox: isInboxEnabled; blocked: the channels
\* (or the INBOX) blocked for the sender; email: an address is set; webhook:
\* isWebhookEnabled.
ProfileType == [exists  : BOOLEAN,
                inbox   : BOOLEAN,
                blocked : SUBSET (Channels \cup {"INBOX"}),
                email   : BOOLEAN,
                webhook : BOOLEAN]

ASSUME ProfileAssumption == Profiles \subseteq ProfileType

ASSUME SenderAssumption == "none" \notin Msgs

VARIABLES
  profile,        \* the current profile
  pastProfiles,   \* every version of the profile so far, as the database keeps them
  defaultEmail,   \* defaultEmail[m]: the sender gave a default address
  wellFormed,     \* wellFormed[m]: the queued item is a CreatedMessageEvent
  content,        \* content[m]: the content is in the blob storage
  pending,        \* pending[m]: isPending of the message document
  senderService,  \* the message that last wrote the sender service, or "none"
  notifications,  \* notifications[m]: the stored notifications of m
  queued,         \* queued[m]: the events put on the notification queues
  versions,       \* versions[m]: the values the message status ever had
  status,         \* status[m]: the last of them, "none" before the first
  step,           \* step[m][n]: where attempt n is inside the stage "handle"
  seen,           \* seen[m][n]: the profile attempt n read
  outputs,        \* outputs[m][n]: output bindings attempt n has yet to flush
  refused,        \* refused[m][n]: the permanent error is a RecipientError
  glitch          \* glitch[m]: an attempt crashed, or an operation failed (a ghost)

input == <<defaultEmail, wellFormed>>
store == <<content, pending, senderService, notifications, queued>>
locals == <<step, seen, outputs, refused>>
ownVars == <<profile, pastProfiles, input, store, versions, status, locals, glitch>>
vars == <<queueVars, ownVars>>

HandlerStep == {"start", "accepted", "stored", "visible", "recorded", "done"}
Status == {"PROCESSED", "THROTTLED", "REJECTED", "FAILED"}

NoProfile == [exists |-> FALSE, inbox |-> FALSE, blocked |-> {},
              email |-> FALSE, webhook |-> FALSE]

Init ==
  /\ QueueInit
  /\ profile \in Profiles
  /\ pastProfiles = {profile}
  /\ defaultEmail \in [Msgs -> BOOLEAN]
  /\ wellFormed \in [Msgs -> BOOLEAN]
  /\ content = [m \in Msgs |-> FALSE]
  /\ pending = [m \in Msgs |-> TRUE]
  /\ senderService = "none"
  /\ notifications = [m \in Msgs |-> {}]
  /\ queued = [m \in Msgs |-> {}]
  /\ versions = [m \in Msgs |-> {}]
  /\ status = [m \in Msgs |-> "none"]
  /\ step = [m \in Msgs |-> [n \in Attempts |-> "start"]]
  /\ seen = [m \in Msgs |-> [n \in Attempts |-> NoProfile]]
  /\ outputs = [m \in Msgs |-> [n \in Attempts |-> {}]]
  /\ refused = [m \in Msgs |-> [n \in Attempts |-> FALSE]]
  /\ glitch = [m \in Msgs |-> FALSE]

-----------------------------------------------------------------------------
(* What the profile allows.                                                *)

\* The message may be stored in the inbox.
Accepts(p) == p.exists /\ p.inbox /\ "INBOX" \notin p.blocked

\* Variant: the default address overrides the recipient's choice.
AllowsDefaultEmail(p, m) ==
  {c \in Channels : IF c = "EMAIL" THEN defaultEmail[m] \/ p.email
                    ELSE c \notin p.blocked /\ p.webhook}

\* The channels through which the recipient is notified: email to the address
\* of the profile or else to the default one, webhook if it is enabled.
AllowedChannels(p, m) ==
  {c \in Channels : /\ c \notin p.blocked
                    /\ CASE c = "EMAIL"   -> p.email \/ defaultEmail[m]
                         [] c = "WEBHOOK" -> p.webhook}

-----------------------------------------------------------------------------
(* handleMessage.                                                          *)

At(m, n, s) == pc[m][n] = "handle" /\ step[m][n] = s

GoStep(m, n, s) == /\ step' = [step EXCEPT ![m][n] = s]
                   /\ UNCHANGED queueVars

\* A database or blob operation fails: TransientError.
FailTransiently(m, n) ==
  /\ Handle(m, n, "transient")
  /\ glitch' = [glitch EXCEPT ![m] = TRUE]
  /\ UNCHANGED step

\* What a write does: it succeeds and the attempt goes on, or it fails, and
\* then it may or may not have taken effect.
Write(m, n, next, effect, nothing) ==
  \/ effect /\ GoStep(m, n, next) /\ UNCHANGED glitch
  \/ (effect \/ nothing) /\ FailTransiently(m, n)

\* The queued item is not a CreatedMessageEvent: index stops there.
DropBadEvent(m, n) ==
  /\ At(m, n, "start")
  /\ ~wellFormed[m]
  /\ Handle(m, n, "ok")
  /\ UNCHANGED ownVars

\* findOneProfileByFiscalCode, and the checks on what it finds.  The query may miss
\* the recipient's latest edits.
FindProfile(m, n) ==
  /\ At(m, n, "start")
  /\ wellFormed[m]
  /\ \/ \E p \in pastProfiles :
          /\ Accepts(p)
          /\ GoStep(m, n, "accepted")
          /\ seen' = [seen EXCEPT ![m][n] = p]
          /\ UNCHANGED <<refused, glitch>>
     \/ /\ \E p \in pastProfiles : ~Accepts(p)
        /\ Handle(m, n, "permanent")
        /\ refused' = [refused EXCEPT ![m][n] = TRUE]
        /\ UNCHANGED <<step, seen, glitch>>
     \/ FailTransiently(m, n) /\ UNCHANGED <<seen, refused>>
  /\ UNCHANGED <<profile, pastProfiles, input, store, versions, status, outputs>>

\* Variant: a failure to store the content does not stop the attempt.
AttachIgnoringErrors(m, n) ==
  /\ At(m, n, "accepted")
  /\ content' = [content EXCEPT ![m] = TRUE] \/ UNCHANGED content
  /\ GoStep(m, n, "stored")
  /\ UNCHANGED <<profile, pastProfiles, input, pending, senderService,
                 notifications, queued, versions, status, seen, outputs, refused, glitch>>

\* attachStoredContent.
AttachStoredContent(m, n) ==
  /\ At(m, n, "accepted")
  /\ Write(m, n, "stored", content' = [content EXCEPT ![m] = TRUE], UNCHANGED content)
  /\ UNCHANGED <<profile, pastProfiles, input, pending, senderService,
                 notifications, queued, versions, status, seen, outputs, refused>>

\* messageModel.createOrUpdate with isPending: false.
MakeVisible(m, n) ==
  /\ At(m, n, "stored")
  /\ Write(m, n, "visible", pending' = [pending EXCEPT ![m] = FALSE], UNCHANGED pending)
  /\ UNCHANGED <<profile, pastProfiles, input, content, senderService,
                 notifications, queued, versions, status, seen, outputs, refused>>

\* senderServiceModel.createOrUpdate.
SaveSenderService(m, n) ==
  /\ At(m, n, "visible")
  /\ Write(m, n, "recorded", senderService' = m, UNCHANGED senderService)
  /\ UNCHANGED <<profile, pastProfiles, input, content, pending,
                 notifications, queued, versions, status, seen, outputs, refused>>

\* The notification of attempt n: its ulid is generated by the attempt.
NewNotification(m, n) == [id |-> n, channels |-> AllowedChannels(seen[m][n], m)]

\* No channel is allowed: there is nothing to notify.
SkipNotification(m, n) ==
  /\ At(m, n, "recorded")
  /\ AllowedChannels(seen[m][n], m) = {}
  /\ GoStep(m, n, "done")
  /\ UNCHANGED <<profile, pastProfiles, input, store, versions, status,
                 seen, outputs, refused, glitch>>

\* Variant: the event is returned even if the notification was not saved.
CreateIgnoringErrors(m, n) ==
  /\ At(m, n, "recorded")
  /\ AllowedChannels(seen[m][n], m) # {}
  /\ outputs' = [outputs EXCEPT ![m][n] = AllowedChannels(seen[m][n], m)]
  /\ \/ notifications' = [notifications EXCEPT ![m] = @ \cup {NewNotification(m, n)}]
     \/ UNCHANGED notifications
  /\ Handle(m, n, "ok")
  /\ UNCHANGED <<profile, pastProfiles, input, content, pending, senderService,
                 queued, versions, status, step, seen, refused, glitch>>

\* createNotification.
CreateNotification(m, n) ==
  /\ At(m, n, "recorded")
  /\ AllowedChannels(seen[m][n], m) # {}
  /\ Write(m, n, "done",
           notifications' = [notifications EXCEPT ![m] = @ \cup {NewNotification(m, n)}],
           UNCHANGED notifications)
  /\ UNCHANGED <<profile, pastProfiles, input, content, pending, senderService,
                 queued, versions, status, seen, outputs, refused>>

HandleMessage(m, n) ==
  \/ FindProfile(m, n)
  \/ AttachStoredContent(m, n)
  \/ MakeVisible(m, n)
  \/ SaveSenderService(m, n)
  \/ SkipNotification(m, n)
  \/ CreateNotification(m, n)

-----------------------------------------------------------------------------
(* index, and the callbacks given to handleQueueProcessingFailure.         *)

\* messageStatusUpdater: a new version of the status document of the message.
SaveStatus(m, value) == /\ status' = [status EXCEPT ![m] = value]
                        /\ versions' = [versions EXCEPT ![m] = @ \cup {value}]

NoStatusSaved == UNCHANGED <<status, versions>>

\* Variant: retries when the recipient has no channel besides the first one.
RetryPartial(m, n) ==
  /\ At(m, n, "done")
  /\ Handle(m, n, IF \E x \in notifications[m] : x.id = n /\ x.channels # Channels
                  THEN "transient" ELSE "ok")
  /\ SaveStatus(m, "PROCESSED")
  /\ UNCHANGED <<profile, pastProfiles, input, store, locals, glitch>>

\* handleMessage resolved to the output bindings: the status is updated, but
\* the result of the update is not looked at; the bindings are returned.
RecordProcessed(m, n) ==
  /\ At(m, n, "done")
  /\ \/ SaveStatus(m, "PROCESSED") /\ UNCHANGED glitch
     \/ NoStatusSaved /\ glitch' = [glitch EXCEPT ![m] = TRUE]
  /\ outputs' = [outputs EXCEPT ![m][n] =
                   UNION {x.channels : x \in {y \in notifications[m] : y.id = n}}]
  /\ Handle(m, n, "ok")
  /\ UNCHANGED <<profile, pastProfiles, input, store, step, seen, refused>>

\* Something in the handler rejects with an error that is not a RuntimeError:
\* not a transient one for handleQueueProcessingFailure.
ThrowUnexpected(m, n) ==
  /\ wellFormed[m]
  /\ Handle(m, n, "permanent")
  /\ glitch' = [glitch EXCEPT ![m] = TRUE]
  /\ UNCHANGED <<profile, pastProfiles, input, store, versions, status, locals>>

\* onTransientError; the result of the status update is not looked at.
RecordThrottled(m, n) ==
  /\ OnTransientError(m, n)
  /\ SaveStatus(m, "THROTTLED") \/ NoStatusSaved
  /\ UNCHANGED <<profile, pastProfiles, input, store, locals, glitch>>

\* Variant: every permanent error is recorded as a refusal.
RejectAlways(m, n) ==
  /\ \/ OnPermanentError(m, n) /\ SaveStatus(m, "REJECTED")
     \/ /\ RetryPermanentError(m, n) \/ ThrowPermanentError(m, n)
        /\ NoStatusSaved
  /\ UNCHANGED <<profile, pastProfiles, input, store, locals, glitch>>

\* onPermanentError: REJECTED for a RecipientError, FAILED for any other.
RecordRejected(m, n) ==
  /\ LET value == IF refused[m][n] THEN "REJECTED" ELSE "FAILED"
     IN  \/ OnPermanentError(m, n) /\ SaveStatus(m, value)
         \/ /\ RetryPermanentError(m, n) \/ ThrowPermanentError(m, n)
            /\ SaveStatus(m, value) \/ NoStatusSaved
  /\ UNCHANGED <<profile, pastProfiles, input, store, locals, glitch>>

SetVisibility(m, n) ==
  /\ UpdateMessageVisibilityTimeout(m, n)
  /\ UNCHANGED ownVars

Index(m, n) ==
  \/ DropBadEvent(m, n)
  \/ HandleMessage(m, n)
  \/ RecordProcessed(m, n)
  \/ ThrowUnexpected(m, n)
  \/ SetVisibility(m, n)
  \/ RecordThrottled(m, n)
  \/ RecordRejected(m, n)

-----------------------------------------------------------------------------
(* The host and the recipient.                                             *)

\* The API stored the message document and queued the event.
Send(m) == Enqueue(m) /\ UNCHANGED ownVars

HostStep(m) == HostMessageStep(m) /\ UNCHANGED ownVars

\* After a normal return the host enqueues the output bindings one by one.
FlushOutput(m, n, c) ==
  /\ pc[m][n] = "return"
  /\ c \in outputs[m][n]
  /\ queued' = [queued EXCEPT ![m] = @ \cup {[id |-> n, channel |-> c]}]
  /\ outputs' = [outputs EXCEPT ![m][n] = @ \ {c}]
  /\ UNCHANGED <<queueVars, profile, pastProfiles, input, content, pending,
                 senderService, notifications, versions, status, step, seen, refused,
                 glitch>>

\* Variant: the message is deleted before the output bindings are flushed.
EndBeforeFlush(m, n) ==
  /\ HostAttemptStep(m, n)
  /\ UNCHANGED ownVars

\* The host ends the attempt, once the output bindings are flushed.
EndAttempt(m, n) ==
  /\ HostAttemptStep(m, n)
  /\ outputs[m][n] = {}
  /\ UNCHANGED ownVars

CrashAttempt(m, n) ==
  /\ Crash(m, n)
  /\ outputs' = [outputs EXCEPT ![m][n] = {}]
  /\ glitch' = [glitch EXCEPT ![m] = TRUE]
  /\ UNCHANGED <<profile, pastProfiles, input, store, versions, status,
                 step, seen, refused>>

\* The recipient edits the profile, or makes the first one.
ChangeProfile ==
  /\ profile' \in Profiles \ {profile}
  /\ profile'.exists
  /\ pastProfiles' = pastProfiles \cup {profile'}
  /\ UNCHANGED <<queueVars, input, store, versions, status, locals, glitch>>

Next ==
  \/ ChangeProfile
  \/ \E m \in Msgs :
       \/ Send(m)
       \/ HostStep(m)
       \/ \E n \in Attempts :
            \/ EndAttempt(m, n)
            \/ CrashAttempt(m, n)
            \/ Index(m, n)
            \/ \E c \in Channels : FlushOutput(m, n, c)

Spec == Init /\ [][Next]_vars

\* GetServicesByRecipientHandler: the list of the senders, here the messages that
\* put them on record.
SenderServices == {senderService} \ {"none"}

-----------------------------------------------------------------------------
(* Properties.                                                             *)

TypeOK ==
  /\ QueueTypeOK
  /\ profile \in Profiles /\ pastProfiles \subseteq Profiles
  /\ defaultEmail \in [Msgs -> BOOLEAN] /\ wellFormed \in [Msgs -> BOOLEAN]
  /\ content \in [Msgs -> BOOLEAN] /\ pending \in [Msgs -> BOOLEAN]
  /\ senderService \in Msgs \cup {"none"}
  /\ notifications \in [Msgs -> SUBSET [id : Attempts, channels : SUBSET Channels]]
  /\ queued \in [Msgs -> SUBSET [id : Attempts, channel : Channels]]
  /\ versions \in [Msgs -> SUBSET Status]
  /\ status \in [Msgs -> Status \cup {"none"}]
  /\ step \in [Msgs -> [Attempts -> HandlerStep]]
  /\ seen \in [Msgs -> [Attempts -> ProfileType]]
  /\ outputs \in [Msgs -> [Attempts -> SUBSET Channels]]
  /\ refused \in [Msgs -> [Attempts -> BOOLEAN]]
  /\ glitch \in [Msgs -> BOOLEAN]

\* Nobody is told of what cannot be read.  A notification event is queued only for a
\* stored notification that has the channel, and only for a message its recipient
\* can already read: the content is stored, the message is not pending.  A sender
\* is listed only for such a message.
NotifiedCanRead ==
  /\ \A m \in Msgs : \A e \in queued[m] :
       /\ \E x \in notifications[m] : x.id = e.id /\ e.channel \in x.channels
       /\ content[m] /\ ~pending[m]
  /\ \A m \in SenderServices : content[m] /\ ~pending[m]

\* "Now that the message content has been stored, we can make the message
\* visible": getMessages never lists a message without content.
VisibleHasContent == \A m \in Msgs : ~pending[m] => content[m]

\* The recipient's choices count, whatever changes between the read of the
\* profile and its use, and between the retries: a message enters the inbox,
\* and a notification is sent through a channel, only if some profile the
\* recipient had accepted the message and allowed that channel.
ChoicesRespected ==
  \A m \in Msgs :
    /\ ~pending[m] => \E p \in pastProfiles : p.exists /\ p.inbox /\ "INBOX" \notin p.blocked
    /\ \A e \in queued[m] :
         \E p \in pastProfiles :
           /\ p.exists /\ p.inbox /\ p.blocked \cap {"INBOX", e.channel} = {}
           /\ e.channel = "WEBHOOK" => p.webhook
           /\ e.channel = "EMAIL" => p.email \/ defaultEmail[m]

\* REJECTED is recorded only if some profile of the recipient refused the
\* message (or there was none), never because of a failure.
RejectedWasRefused ==
  \A m \in Msgs : "REJECTED" \in versions[m] =>
    \E p \in pastProfiles : ~p.exists \/ ~p.inbox \/ "INBOX" \in p.blocked

\* m left the queue, not as a poisoned message, and no attempt of it is left;
\* result is how its last attempt ended.
Settled(m, result) ==
  /\ visibility[m] = "gone" /\ poisoned[m] = 0
  /\ \A n \in Attempts : ~Running(m, n)
  /\ outcome[m][dequeueCount[m]] = result

\* A message that leaves the queue other than by giving up or as a poisoned one was
\* dealt with completely.  If it was accepted, it is readable, its sender is on
\* record, and every channel of the notification of the last attempt has its event;
\* if it was refused or failed, that is on record.
SettledIsComplete ==
  \A m \in Msgs : wellFormed[m] =>
    /\ Settled(m, "permanent") => versions[m] \cap {"REJECTED", "FAILED"} # {}
    /\ Settled(m, "ok") =>
         /\ content[m] /\ ~pending[m] /\ SenderServices # {}
         /\ \A x \in notifications[m] : x.id = dequeueCount[m] =>
              \A c \in x.channels : [id |-> x.id, channel |-> c] \in queued[m]

\* As long as no attempt crashes and no operation fails there is one notification
\* of a message at most.
NotifiedOnce == \A m \in Msgs : ~glitch[m] => Cardinality(notifications[m]) <= 1
=============================================================================
