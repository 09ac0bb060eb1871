----------------------------- MODULE MessagesApi -----------------------------
(***************************************************************************)
(* How a sender has a message sent: it asks for the profile of the         *)
(* recipient (lib/controllers/profiles.ts, GetProfile), and then creates   *)
(* the message (lib/controllers/messages.ts, CreateMessage), which the     *)
(* handler of the created messages (CreatedMessageHandler) processes.      *)
(*                                                                         *)
(* Message m is the one that POST request m creates: every request         *)
(* generates the id of its message.                                        *)
(***************************************************************************)
EXTENDS CreatedMessageHandler

VARIABLES
  told,      \* told[m]: what the sender of m was told of the profile
  api,       \* api[m]: where the POST request m is
  response,  \* response[m]: what its client was told
  binding,   \* binding[m]: the output binding createdMessage is set
  stored     \* stored[m]: the message document exists

apiVars == <<told, api, response, binding, stored>>
allVars == <<vars, apiVars>>

Told == {"nothing", "notFound", "allowed", "blocked"}
PostStep == {"idle", "create", "prepare", "flush", "respond", "end"}
PostResponse == {"none", "created", "forbidden", "invalid", "queryError", "hostError"}

ApiInit ==
  /\ Init
  /\ told = [m \in Msgs |-> "nothing"]
  /\ api = [m \in Msgs |-> "idle"]
  /\ response = [m \in Msgs |-> "none"]
  /\ binding = [m \in Msgs |-> FALSE]
  /\ stored = [m \in Msgs |-> FALSE]

-----------------------------------------------------------------------------
(* GetProfileHandler, for a client that is not a trusted application.      *)

\* Variant: a sender is allowed only if nothing at all is blocked.
AllowedEverywhere(p) == p.blocked = {}

\* isSenderAllowed.  It looks at what is blocked for the sender only.
IsSenderAllowed(p) == "INBOX" \notin p.blocked

\* toLimitedProfile.
TellProfile(p) ==
  IF ~p.exists THEN "notFound" ELSE IF IsSenderAllowed(p) THEN "allowed" ELSE "blocked"

\* The sender asks before it sends, as public_api_v1.yaml tells it to, or does not
\* ask at all.  The query may miss the recipient's latest edits; when it fails, the
\* sender knows as much as before.
AskProfile(m) ==
  /\ api[m] = "idle"
  /\ told[m] = "nothing"
  /\ \E p \in pastProfiles : told' = [told EXCEPT ![m] = TellProfile(p)]
  /\ UNCHANGED <<vars, api, response, binding, stored>>

-----------------------------------------------------------------------------
(* CreateMessageHandler.                                                   *)

\* write: in the group ApiMessageWrite; limited: in ApiLimitedMessageWrite;
\* recipient: the recipient is an authorized one; address: in the group
\* ApiMessageWriteDefaultAddress; amount: the amount asked is within the limit.
Sender == [write : BOOLEAN, limited : BOOLEAN, recipient : BOOLEAN,
           address : BOOLEAN, amount : BOOLEAN]

Forbidden(s, m) ==
  \/ s.limited /\ ~s.recipient
  \/ ~s.limited /\ ~s.write
  \/ defaultEmail[m] /\ ~s.address

PostGoes(m, s) == api' = [api EXCEPT ![m] = s]

PostAnswer(m, s, kind) == /\ PostGoes(m, s)
                          /\ response' = [response EXCEPT ![m] = kind]

\* The authorization checks and the check of the amount.
CheckRequest(m) ==
  /\ api[m] = "idle"
  /\ \E s \in Sender :
       \/ Forbidden(s, m) /\ PostAnswer(m, "end", "forbidden")
       \/ ~Forbidden(s, m) /\ ~s.amount /\ PostAnswer(m, "end", "invalid")
       \/ ~Forbidden(s, m) /\ s.amount /\ PostGoes(m, "create") /\ UNCHANGED response
  /\ UNCHANGED <<vars, told, binding, stored>>

\* Variant: the binding is set before the result of the creation is looked at.
BindBeforeCreate(m) ==
  /\ api[m] = "create"
  /\ binding' = [binding EXCEPT ![m] = TRUE]
  /\ \/ stored' = [stored EXCEPT ![m] = TRUE] /\ PostGoes(m, "prepare") /\ UNCHANGED response
     \/ PostAnswer(m, "flush", "queryError") /\ UNCHANGED stored
  /\ UNCHANGED <<vars, told>>

\* messageModel.create, with isPending: true.  When it fails it may have taken
\* effect all the same.
CreateMessage(m) ==
  /\ api[m] = "create"
  /\ \/ /\ stored' = [stored EXCEPT ![m] = TRUE]
        /\ PostGoes(m, "prepare")
        /\ UNCHANGED response
     \/ /\ stored' \in {stored, [stored EXCEPT ![m] = TRUE]}
        /\ PostAnswer(m, "end", "queryError")
  /\ UNCHANGED <<vars, binding, told>>

\* Variant: a message whose event does not decode is reported as created.
SwallowDecodeError(m) ==
  /\ api[m] = "prepare"
  /\ \/ wellFormed[m] /\ binding' = [binding EXCEPT ![m] = TRUE]
     \/ ~wellFormed[m] /\ UNCHANGED binding
  /\ PostGoes(m, "flush")
  /\ UNCHANGED <<vars, response, stored, told>>

\* CreatedMessageEvent.decode; the output binding createdMessage.
PrepareEvent(m) ==
  /\ api[m] = "prepare"
  /\ \/ /\ wellFormed[m]
        /\ binding' = [binding EXCEPT ![m] = TRUE]
        /\ PostGoes(m, "flush")
        /\ UNCHANGED response
     \/ /\ ~wellFormed[m]
        /\ PostAnswer(m, "end", "invalid")
        /\ UNCHANGED binding
  /\ UNCHANGED <<vars, stored, told>>

\* The host enqueues the output binding, if it is set, before it responds; if that
\* fails, which may take effect all the same, the client gets an error of the host.
FlushEvent(m) ==
  /\ api[m] = "flush"
  /\ \/ binding[m] /\ Send(m) /\ PostGoes(m, "respond") /\ UNCHANGED response
     \/ binding[m] /\ PostAnswer(m, "end", "hostError") /\ (Send(m) \/ UNCHANGED vars)
     \/ ~binding[m] /\ PostGoes(m, "respond") /\ UNCHANGED <<vars, response>>
  /\ UNCHANGED <<binding, stored, told>>

\* ResponseSuccessRedirectToResource reaches the client.
Respond(m) ==
  /\ api[m] = "respond"
  /\ PostAnswer(m, "end", IF response[m] = "none" THEN "created" ELSE response[m])
  /\ UNCHANGED <<vars, binding, stored, told>>

\* The process running the request dies, or the host stops it.
CrashRequest(m) ==
  /\ api[m] \notin {"idle", "end"}
  /\ PostGoes(m, "end")
  /\ UNCHANGED <<vars, response, binding, stored, told>>

Post(m) ==
  \/ CheckRequest(m)
  \/ CreateMessage(m)
  \/ PrepareEvent(m)
  \/ FlushEvent(m)
  \/ Respond(m)

-----------------------------------------------------------------------------
(* The handler, as in CreatedMessageHandler; what it is sent comes from    *)
(* FlushEvent.                                                             *)

ApiProcess(m) ==
  /\ \/ HostStep(m)
     \/ \E n \in Attempts : \/ EndAttempt(m, n)
                            \/ Index(m, n)
                            \/ \E c \in Channels : FlushOutput(m, n, c)
  /\ UNCHANGED apiVars

ApiEnvironment ==
  /\ ChangeProfile \/ \E m \in Msgs, n \in Attempts : CrashAttempt(m, n)
  /\ UNCHANGED apiVars

ApiNext ==
  \/ \E m \in Msgs : AskProfile(m) \/ Post(m) \/ CrashRequest(m) \/ ApiProcess(m)
  \/ ApiEnvironment

ApiSpec == ApiInit /\ [][ApiNext]_allVars

\* As in QueueDelivery; the outputs of an attempt are flushed.  No request has to be
\* made or answered, no profile to change, and no operation to succeed.
ApiFairness ==
  \A m \in Msgs :
    /\ WF_allVars(HostStep(m) /\ UNCHANGED apiVars)
    /\ \A n \in Attempts :
         WF_allVars(/\ \/ EndAttempt(m, n)
                       \/ Index(m, n)
                       \/ \E c \in Channels : FlushOutput(m, n, c)
                    /\ UNCHANGED apiVars)

FairApiSpec == ApiSpec /\ ApiFairness

-----------------------------------------------------------------------------
(* Properties.                                                             *)

ApiTypeOK ==
  /\ TypeOK
  /\ told \in [Msgs -> Told]
  /\ api \in [Msgs -> PostStep] /\ response \in [Msgs -> PostResponse]
  /\ binding \in [Msgs -> BOOLEAN] /\ stored \in [Msgs -> BOOLEAN]

\* public_api_v1.yaml: sender_allowed "is set to false in case the service ... is
\* blacklisted by the user", and a sender must check it before sending.  What
\* GetProfile says, and what the handler later decides in code of its own, agree
\* as long as the profile is the same: an allowed sender is refused only by
\* a recipient whose inbox is disabled, and a message that was announced to be
\* unwelcome does not get in.
ToldIsTrue ==
  \A m \in Msgs : pastProfiles = {profile} =>
    /\ told[m] = "allowed" /\ "REJECTED" \in versions[m] => ~profile.inbox
    /\ told[m] \in {"notFound", "blocked"} => pending[m] /\ notifications[m] = {}

\* A request that was answered with an error of the handler leaves nothing that
\* the recipient could notice: no event, no content, no listed message or sender.
RefusedIsInvisible ==
  \A m \in Msgs : response[m] \in {"forbidden", "invalid", "queryError"} =>
    /\ visibility[m] = "absent" /\ pending[m] /\ ~content[m]
    /\ notifications[m] = {} /\ senderService # m

\* A client that was told "created" does not wait in vain: in the end its message can
\* be read, or that it was refused or failed is on record, or its copy is in the poison
\* queue. The one message that may stay pending without any of that is one of which
\* every attempt up to the last permitted retry was made, and the last one failed for
\* a transient reason.
CreatedIsHandled ==
  \A m \in Msgs : response[m] = "created" ~>
    /\ visibility[m] = "gone"
    /\ \/ content[m] /\ ~pending[m]
       \/ versions[m] \cap {"REJECTED", "FAILED"} # {}
       \/ poisoned[m] > 0
       \/ /\ dequeueCount[m] > MaxRetries
          /\ outcome[m][dequeueCount[m]] = "transient"
=============================================================================
