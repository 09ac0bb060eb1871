--------------------------- MODULE MessagePipeline ---------------------------
(***************************************************************************)
(* A message from its queue to the recipient: the handler of the created   *)
(* messages (CreatedMessageHandler) puts events on the queues of the       *)
(* notification handlers, which are modelled by what they promise          *)
(* (Notification), while clients list the messages and ask for one of them *)
(* and the statuses of its notification (lib/controllers/messages.ts).     *)
(***************************************************************************)
EXTENDS CreatedMessageHandler

CONSTANTS Readers,       \* the GET requests for a single message
          DeliveryTries  \* bounds the dequeues of an event of a notification queue

\* Notification id of message msg, on one channel: an event of its queue.
Deliveries == [msg : Msgs, id : Attempts, channel : Channels]

VARIABLES
  phase, tries, reached, silent, channelStatus,  \* Notification, of every delivery
  get  \* get[r]: where GET request r is, and what it has read

N == INSTANCE Notification WITH Msgs <- Deliveries,
                                MaxTries <- DeliveryTries,
                                status <- channelStatus

deliveryVars == <<phase, tries, reached, silent, channelStatus>>
pipelineVars == <<vars, deliveryVars, get>>

GetStep == {"idle", "content", "notification", "channels", "status"}

\* msg: the message asked for; promised: it was promised before; lacking: and
\* yet it has no content; id: the notification found, 0 if none; sent: the channels
\* whose status is SENT.
Get == [step : GetStep, msg : Msgs \cup {"none"}, promised : BOOLEAN,
        lacking : BOOLEAN, id : Attempts \cup {0}, sent : SUBSET Channels]

NoGet == [step |-> "idle", msg |-> "none", promised |-> FALSE, lacking |-> FALSE,
          id |-> 0, sent |-> {}]

PipelineInit ==
  /\ Init
  /\ N!NotificationInit
  /\ get = [r \in Readers |-> NoGet]

-----------------------------------------------------------------------------
(* The handlers.                                                           *)

\* The output binding of channel c puts the event on the queue of the channel's
\* handler; a repeated flush does not happen, as every attempt has its own id.
Notify(m, n, c) ==
  /\ FlushOutput(m, n, c)
  /\ N!Send([msg |-> m, id |-> n, channel |-> c])
  /\ UNCHANGED <<reached, silent, channelStatus, get>>

\* The host and the handler of the created messages, apart from its output bindings.
Process(m) ==
  /\ \/ HostStep(m)
     \/ \E n \in Attempts : EndAttempt(m, n) \/ Index(m, n)
  /\ UNCHANGED <<deliveryVars, get>>

\* The queue of the notification, and its host.
DeliveryStep(d) ==
  /\ N!Try(d) \/ N!Fail(d) \/ N!Settle(d) \/ N!Bury(d)
  /\ UNCHANGED <<vars, reached, silent, channelStatus, get>>

\* The handler of the notification.
DeliveryWork(d) == N!Work(d) /\ UNCHANGED <<vars, get>>

\* The API only queues an event that decodes (MessagesApi).
Environment ==
  /\ \/ ChangeProfile
     \/ \E m \in Msgs : wellFormed[m] /\ Send(m)
     \/ \E m \in Msgs, n \in Attempts : CrashAttempt(m, n)
  /\ UNCHANGED <<deliveryVars, get>>

-----------------------------------------------------------------------------
(* GetMessageHandler and GetMessagesHandler.                               *)

Gets(r, reply) == get' = [get EXCEPT ![r] = reply]

EndGet(r) == Gets(r, NoGet)

\* Variant: pending messages are not filtered out.
ListAll == Msgs

\* findMessages, without the pending ones: what a list may show.
ListMessages == {m \in Msgs : ~pending[m]}

\* Messages that a reply may report as processed, or as notified.
Reported ==
  {m \in Msgs : \/ status[m] = "PROCESSED"
                \/ \E d \in Deliveries : d.msg = m /\ channelStatus[d] = "SENT"}

\* findMessageForRecipient, by a trusted application or by the sender.  There is a
\* document of m before its event is queued (MessagesApi), and even if it never is.
ReadMessage(r, m) ==
  /\ get[r].step = "idle"
  /\ Gets(r, [NoGet EXCEPT !.step = "content", !.msg = m,
                           !.promised = m \in ListMessages \cup Reported])
  /\ UNCHANGED <<vars, deliveryVars>>

\* getStoredContent: some content, or none, or an error.
ReadContent(r) ==
  /\ get[r].step = "content"
  /\ \/ Gets(r, [NoGet EXCEPT !.step = "notification", !.msg = get[r].msg,
                           !.lacking = get[r].promised /\ ~content[get[r].msg]])
     \/ EndGet(r)
  /\ UNCHANGED <<vars, deliveryVars>>

\* findNotificationForMessage: a notification of the message, or none (even if there
\* is one, "due to some latency"), or an error.
ReadNotification(r) ==
  /\ get[r].step = "notification"
  /\ \/ \E x \in notifications[get[r].msg] :
          Gets(r, [get[r] EXCEPT !.step = "channels", !.id = x.id])
     \/ Gets(r, [get[r] EXCEPT !.step = "status"])
     \/ EndGet(r)
  /\ UNCHANGED <<vars, deliveryVars>>

\* Variant: the query looks for the channel, of any notification of the message.
SentForSome(m, id) ==
  {d.channel : d \in {x \in Deliveries : x.msg = m /\ channelStatus[x] = "SENT"}}

\* The channels with status SENT, of a notification.
Sent(m, id) ==
  {c \in Channels : channelStatus[[msg |-> m, id |-> id, channel |-> c]] = "SENT"}

\* The rest of getMessageNotificationStatuses: getChannelStatus for all channels.
\* A channel whose query fails is left out.
ReadChannels(r) ==
  /\ get[r].step = "channels"
  /\ \E sent \in SUBSET Sent(get[r].msg, get[r].id) :
       Gets(r, [get[r] EXCEPT !.step = "status", !.sent = sent])
  /\ UNCHANGED <<vars, deliveryVars>>

\* findOneByMessageId on the message statuses, and the reply, or an error.
ReadStatus(r) ==
  /\ get[r].step = "status"
  /\ EndGet(r)
  /\ UNCHANGED <<vars, deliveryVars>>

GetMessage(r) ==
  \/ \E m \in Msgs : ReadMessage(r, m)
  \/ ReadContent(r)
  \/ ReadNotification(r)
  \/ ReadChannels(r)
  \/ ReadStatus(r)

PipelineNext ==
  \/ \E m \in Msgs : \/ Process(m)
                    \/ \E n \in Attempts, c \in Channels : Notify(m, n, c)
  \/ \E d \in Deliveries : DeliveryStep(d) \/ DeliveryWork(d)
  \/ \E r \in Readers : GetMessage(r)
  \/ Environment

PipelineSpec == PipelineInit /\ [][PipelineNext]_pipelineVars

-----------------------------------------------------------------------------
(* Properties.                                                             *)

\* Whoever gets a notification can read the message: its content is there, it is
\* listed, its sender is listed, and the notification and its channel are on record,
\* whatever failed and was tried again on the way.
ReachedCanRead ==
  \A d \in Deliveries : reached[d] =>
    /\ content[d.msg] /\ ~pending[d.msg] /\ SenderServices # {}
    /\ \E x \in notifications[d.msg] : x.id = d.id /\ d.channel \in x.channels

\* A message that a client has seen in the list, or has seen reported as
\* processed or notified, has its content in every reply to a GET that starts
\* later, although that reply is put together from several reads and the handler
\* may be at work, or at work again, between them.
PromisedIsReadable == \A r \in Readers : ~get[r].lacking

\* The statuses in a reply belong together: a channel is reported as SENT only if
\* the recipient got the very notification that was found first, on that channel;
\* and if nothing failed while the message was processed, the notification shown is
\* not one whose events are never sent.
ReplyTellsTruth ==
  \A r \in Readers : get[r].id # 0 =>
    /\ \A c \in get[r].sent :
         reached[[msg |-> get[r].msg, id |-> get[r].id, channel |-> c]]
    /\ ~glitch[get[r].msg] /\ Settled(get[r].msg, "ok") =>
         \A x \in notifications[get[r].msg] : x.id = get[r].id =>
           \A c \in x.channels : [id |-> x.id, channel |-> c] \in queued[get[r].msg]
==============================================================================
