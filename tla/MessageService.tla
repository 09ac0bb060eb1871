--------------------------- MODULE MessageService ---------------------------
(***************************************************************************)
(* From the sender's request to the recipient: the requests (MessagesApi), *)
(* and behind them all handlers with their queues, and the readers         *)
(* (MessageSystem).                                                        *)
(*                                                                         *)
(* Both parts contain the handler of the created messages and share its    *)
(* state.  The requests are where its events come from, and they create    *)
(* the documents that the readers find.                                    *)
(***************************************************************************)
EXTENDS MessageSystem, MessagesApi

serviceVars == <<systemVars, apiVars>>

ServiceInit == SystemInit /\ ApiInit

\* A sender's request; it ends with the event on the queue of the created messages.
Request(m) ==
  /\ AskProfile(m) \/ Post(m) \/ CrashRequest(m)
  /\ UNCHANGED <<deliveryVars, handlerVars, get>>

\* GET of a message, of which there is a document.
GetStored(r) ==
  /\ GetMessage(r)
  /\ get'[r].msg # "none" => stored[get'[r].msg]
  /\ UNCHANGED <<handlerVars, apiVars>>

\* The recipient changes the profile; an attempt crashes.
Disturb ==
  /\ ChangeProfile \/ \E m \in Msgs, n \in Attempts : CrashAttempt(m, n)
  /\ UNCHANGED <<deliveryVars, handlerVars, get, apiVars>>

ServiceNext ==
  \/ \E m \in Msgs : Request(m)
  \/ \E m \in Msgs : Process(m) /\ UNCHANGED <<handlerVars, apiVars>>
  \/ \E m \in Msgs, n \in Attempts, c \in Channels :
       NotifyHandler(m, n, c) /\ UNCHANGED apiVars
  \/ \E d \in Deliveries : HandleDelivery(d) /\ UNCHANGED apiVars
  \/ \E r \in Readers : GetStored(r)
  \/ Disturb

ServiceSpec == ServiceInit /\ [][ServiceNext]_serviceVars

-----------------------------------------------------------------------------
(* Properties.                                                             *)

\* The handlers and the readers may be seen without the requests, and the requests
\* without what comes after the handler of the created messages.
ImplementsSystem == SystemSpec
ImplementsApi == ApiSpec

\* An error of CreateMessageHandler is final.  The recipient is not notified of the
\* message, no list shows it, and of all that a GET could tell there is nothing but
\* its document, if that came to be.
RefusedIsNeverShown ==
  \A m \in Msgs : response[m] \in {"forbidden", "invalid", "queryError"} =>
    /\ m \notin ListMessages \cup Reported
    /\ \A d \in Deliveries : d.msg = m => dVisibility[d] = "absent" /\ ~reached[d]
    /\ \A r \in Readers : get[r].msg = m => ~get[r].promised /\ get[r].id = 0

\* The recipient is only notified of messages that are on record.  If the sender was told
\* of the profile that the message is unwelcome, this was true at some time, and at
\* another the recipient allowed the sender: nothing but a change of mind gets it in.
ReachedWasWelcome ==
  \A d \in Deliveries : reached[d] =>
    /\ stored[d.msg]
    /\ told[d.msg] \in {"notFound", "blocked"} =>
         \E p, q \in pastProfiles :
           TellProfile(p) = told[d.msg] /\ TellProfile(q) = "allowed"

\* A client that was told "created" can count on it.  The message is on record and was
\* queued; and when its queue and its handler are done with it, either that it was
\* refused or failed is on record, or its copy is in the poison queue, or all retries
\* have failed, or it can be read, and every channel of its notification was taken
\* care of (NobodyForgotten).
CreatedIsNotLost ==
  \A m \in Msgs : response[m] = "created" =>
    /\ stored[m] /\ visibility[m] # "absent"
    /\ visibility[m] = "gone" /\ (\A n \in Attempts : ~Running(m, n)) =>
         \/ versions[m] \cap {"REJECTED", "FAILED"} # {}
         \/ poisoned[m] > 0
         \/ Settled(m, "transient") /\ dequeueCount[m] > MaxRetries
         \/ Settled(m, "ok") /\ content[m] /\ ~pending[m] /\ SenderServices # {}
=============================================================================
