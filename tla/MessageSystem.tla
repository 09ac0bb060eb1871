---------------------------- MODULE MessageSystem ----------------------------
(***************************************************************************)
(* The whole way of a message with all its handlers: MessagePipeline, with *)
(* the notification handlers themselves (NotificationHandler) where it has *)
(* what they promise (Notification).                                       *)
(*                                                                         *)
(* The variables of Notification remain, as a view of the state of the     *)
(* handlers (Shown).  So this specification implements MessagePipeline     *)
(* exactly if every step, seen that way, is one of MessagePipeline.        *)
(***************************************************************************)
EXTENDS MessagePipeline

CONSTANTS DeliveryRetries,  \* MAX_RETRIES of the notification queues
          Answers           \* the answers of the webhook

\* The state of NotificationHandler, of every delivery.
VARIABLES dVisibility, dDequeueCount, dOwner, dPc, dOutcome, dPoisoned,
          dChannel, dFormat, dExpired, dStep, dSent, dVersions, dStatus,
          dGlitch, dServerFault

\* The notification handlers, and what is proved of them.
H == INSTANCE NotificationHandlerProofs WITH
       Msgs <- Deliveries, MaxDequeueCount <- DeliveryTries, MaxRetries <- DeliveryRetries,
       visibility <- dVisibility, dequeueCount <- dDequeueCount, owner <- dOwner,
       pc <- dPc, outcome <- dOutcome, poisoned <- dPoisoned,
       channel <- dChannel, format <- dFormat, expired <- dExpired, step <- dStep,
       sent <- dSent, versions <- dVersions, status <- dStatus,
       glitch <- dGlitch, serverFault <- dServerFault

handlerVars == <<dVisibility, dDequeueCount, dOwner, dPc, dOutcome, dPoisoned,
                 dChannel, dFormat, dExpired, dStep, dSent, dVersions, dStatus,
                 dGlitch, dServerFault>>
systemVars == <<pipelineVars, handlerVars>>

\* QueueAssumption and AnswerAssumption, of the notification queues.
DeliveryAssumption ==
  /\ DeliveryTries \in Nat \ {0}
  /\ DeliveryRetries \in Nat
  /\ DeliveryRetries < DeliveryTries
  /\ Answers \subseteq [timeout : BOOLEAN, status : {0} \cup 100..599]

\* What Notification sees of the handlers.
Shown ==
  /\ phase = [d \in Deliveries |-> H!PhaseOf(d)]
  /\ tries = dDequeueCount
  /\ reached = [d \in Deliveries |-> dSent[d] > 0]
  /\ silent = [d \in Deliveries |-> "EXPIRED" \in dVersions[d]]
  /\ channelStatus = dStatus

\* It sees every change of theirs at once: this is Shown'.
Show ==
  /\ phase' = [d \in Deliveries |-> H!PhaseOf(d)']
  /\ tries' = dDequeueCount'
  /\ reached' = [d \in Deliveries |-> dSent'[d] > 0]
  /\ silent' = [d \in Deliveries |-> "EXPIRED" \in dVersions'[d]]
  /\ channelStatus' = dStatus'

\* An event decodes, and its notification is on record: CreatedMessageHandler only
\* queues events of notifications it has stored.
SystemInit ==
  /\ PipelineInit
  /\ H!Init
  /\ dChannel = [d \in Deliveries |-> d.channel]
  /\ \A d \in Deliveries : dFormat[d] \in {"good", "badContent"}

\* An output binding puts an event on the queue of a notification handler.
NotifyHandler(m, n, c) ==
  /\ FlushOutput(m, n, c)
  /\ H!Send([msg |-> m, id |-> n, channel |-> c])
  /\ UNCHANGED get
  /\ Show

\* A step of the queue, the host and the handler of a notification, or the end of the
\* message's time to live, from the moment when it matters.
HandleDelivery(d) ==
  /\ \/ dVisibility[d] # "absent" /\ H!ExpireMessage(d)
     \/ H!HostStep(d)
     \/ \E n \in H!Attempts : \/ H!EndAttempt(d, n) \/ H!CrashAttempt(d, n)
                              \/ H!EmailIndex(d, n) \/ H!WebhookIndex(d, n)
  /\ UNCHANGED <<vars, get>>
  /\ Show

\* The rest is as in MessagePipeline.
SystemNext ==
  \/ /\ \/ \E m \in Msgs : Process(m)
        \/ \E r \in Readers : GetMessage(r)
        \/ Environment
     /\ UNCHANGED handlerVars
  \/ \E m \in Msgs, n \in Attempts, c \in Channels : NotifyHandler(m, n, c)
  \/ \E d \in Deliveries : HandleDelivery(d)

SystemSpec == SystemInit /\ [][SystemNext]_systemVars

-----------------------------------------------------------------------------
(* Properties.                                                             *)

\* The notification handlers may be taken for what they promise.
ImplementsPipeline == PipelineSpec

\* Nothing went wrong while message m was processed and its notifications delivered:
\* no crash, no failed operation, no lost answer.
NothingLost(m) ==
  /\ ~glitch[m]
  /\ \A d \in Deliveries : d.msg = m => ~dGlitch[d]

\* If nothing goes wrong, the recipient is notified of a message once at most on each
\* channel, however often any of the handlers is retried.
ReachedOnce ==
  \A d, e \in Deliveries :
    NothingLost(d.msg) /\ d.msg = e.msg /\ d.channel = e.channel /\ reached[d] /\ reached[e]
      => d = e /\ dSent[d] = 1

\* Nobody is forgotten: of a message that was processed, every channel of the
\* notification has its event queued, and once that has left its queue, the
\* recipient was reached, or the message had expired, or the failure is on record,
\* or its copy is in the poison queue, or the last attempt allowed has failed.
NobodyForgotten ==
  \A m \in Msgs : Settled(m, "ok") =>
    \A x \in notifications[m] : x.id = dequeueCount[m] =>
      \A c \in x.channels :
        LET d == [msg |-> m, id |-> x.id, channel |-> c]
        IN  /\ dVisibility[d] # "absent"
            /\ dVisibility[d] = "gone" =>
                 \/ dSent[d] > 0
                 \/ dVersions[d] \cap {"EXPIRED", "FAILED"} # {}
                 \/ dPoisoned[d] > 0
                 \/ dDequeueCount[d] > DeliveryRetries

\* Nobody is notified through a channel that no profile of theirs allowed.
ReachedAsChosen ==
  \A d \in Deliveries : reached[d] =>
    \E p \in pastProfiles :
      /\ p.exists /\ p.inbox /\ p.blocked \cap {"INBOX", d.channel} = {}
      /\ d.channel = "WEBHOOK" => p.webhook
      /\ d.channel = "EMAIL" => p.email \/ defaultEmail[d.msg]
=============================================================================
