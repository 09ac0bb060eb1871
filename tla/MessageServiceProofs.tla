------------------------ MODULE MessageServiceProofs ------------------------
(***************************************************************************)
(* Proofs about MessageService, and about the specifications it is made    *)
(* of: MessagesApi, MessagePipeline and MessageSystem.                     *)
(***************************************************************************)
EXTENDS MessageService, CreatedMessageHandlerProofs

-----------------------------------------------------------------------------
(* The handler of the created messages.                                    *)

\* A message that was not queued was never handled.
AbsentInv(m) ==
  visibility[m] = "absent" => dequeueCount[m] = 0 /\ pending[m] /\ ~content[m]

\* Everybody but the request that sends it leaves a message alone that was not queued.
LEMMA AbsentKept ==
  ASSUME QueueInv, NEW m \in Msgs, visibility[m] = "absent",
         \/ ChangeProfile
         \/ \E k \in Msgs : \/ HostStep(k)
                          \/ \E n \in Attempts : \/ EndAttempt(k, n) \/ CrashAttempt(k, n)
                                               \/ Index(k, n)
                                               \/ \E c \in Channels : FlushOutput(k, n, c)
  PROVE  visibility'[m] = "absent"
<1>1. ASSUME NEW k \in Msgs,
             \/ UNCHANGED queueVars \/ HostMessageStep(k)
             \/ \E n \in Attempts : \/ HostAttemptStep(k, n) \/ Crash(k, n)
                                  \/ Handler(k, n) \/ HandleQueueProcessingFailure(k, n)
      PROVE  visibility'[m] = "absent"
  BY <1>1, NotSentByHost
<1>2. ASSUME NEW k \in Msgs, HostStep(k)
      PROVE  visibility'[m] = "absent"
  BY <1>1, <1>2 DEF HostStep
<1>3. ASSUME NEW k \in Msgs, NEW n \in Attempts, EndAttempt(k, n) \/ CrashAttempt(k, n)
      PROVE  visibility'[m] = "absent"
  BY <1>1, <1>3 DEF EndAttempt, CrashAttempt
<1>4. ASSUME NEW k \in Msgs, NEW n \in Attempts, Index(k, n)
      PROVE  visibility'[m] = "absent"
  BY <1>1, <1>4, IndexIsQueueStep
<1>5. CASE ChangeProfile \/ \E k \in Msgs, n \in Attempts, c \in Channels : FlushOutput(k, n, c)
  BY <1>1, <1>5 DEF ChangeProfile, FlushOutput, queueVars
<1> QED
  BY <1>2, <1>3, <1>4, <1>5

\* Only the attempts of a message touch its content and its visibility to readers.
LEMMA WorkStep ==
  ASSUME CreatedInv, [Next]_vars, NEW m \in Msgs, \A n \in Attempts : pc[m][n] # "handle"
  PROVE  pending'[m] = pending[m] /\ content'[m] = content[m]
<1> USE DEF CreatedInv, TypeOK
<1>1. ASSUME NEW k \in Msgs, NEW n \in Attempts, HandleMessage(k, n)
      PROVE  pending'[m] = pending[m] /\ content'[m] = content[m]
  <2>1. pc[k][n] = "handle"
    BY <1>1 DEF HandleMessage, FindProfile, AttachStoredContent, MakeVisible,
       SaveSenderService, SkipNotification, CreateNotification, At
  <2>2. k # m
    BY <2>1
  <2>3. content' = content \/ content' = [content EXCEPT ![k] = TRUE]
    BY <1>1 DEF HandleMessage, FindProfile, AttachStoredContent, MakeVisible, Write,
       SaveSenderService, SkipNotification, CreateNotification, store
  <2>4. pending' = pending \/ pending' = [pending EXCEPT ![k] = FALSE]
    BY <1>1 DEF HandleMessage, FindProfile, AttachStoredContent, MakeVisible, Write,
       SaveSenderService, SkipNotification, CreateNotification, store
  <2> QED
    BY <2>2, <2>3, <2>4
<1>2. ASSUME NEW k \in Msgs, NEW n \in Attempts, Index(k, n), ~HandleMessage(k, n)
      PROVE  UNCHANGED <<content, pending>>
  BY <1>2 DEF Index, DropBadEvent, RecordProcessed, ThrowUnexpected, SetVisibility,
     RecordThrottled, RecordRejected, ownVars, store
<1>3. ASSUME NEW k \in Msgs,
             \/ Send(k) \/ HostStep(k)
             \/ \E n \in Attempts : \/ EndAttempt(k, n) \/ CrashAttempt(k, n)
                                    \/ \E c \in Channels : FlushOutput(k, n, c)
      PROVE  UNCHANGED <<content, pending>>
  BY <1>3 DEF Send, HostStep, EndAttempt, CrashAttempt, FlushOutput, ownVars, store
<1>4. CASE ChangeProfile \/ UNCHANGED vars
  BY <1>4 DEF ChangeProfile, vars, ownVars, store
<1> QED
  BY <1>1, <1>2, <1>3, <1>4 DEF Next

LEMMA AbsentStep ==
  ASSUME CreatedInv, [Next]_vars, NEW m \in Msgs, AbsentInv(m)
  PROVE  AbsentInv(m)'
<1> SUFFICES ASSUME visibility'[m] = "absent"
             PROVE  dequeueCount'[m] = 0 /\ pending'[m] /\ ~content'[m]
  BY DEF AbsentInv
<1>1. visibility[m] = "absent" /\ dequeueCount'[m] = dequeueCount[m]
  BY HandlerStepIsQueueStep, AbsentQueueStep DEF CreatedInv
<1>2. dequeueCount[m] = 0 /\ pending[m] /\ ~content[m]
  BY <1>1 DEF AbsentInv
<1>3. \A n \in Attempts : pc[m][n] # "handle"
  BY <1>1, OneWorks DEF CreatedInv, WorkStage
<1> QED
  BY <1>1, <1>2, <1>3, WorkStep

\* Only an output binding queues an event.
LEMMA QueuedKept ==
  ASSUME \/ UNCHANGED vars \/ ChangeProfile
         \/ \E m \in Msgs : \/ Send(m) \/ HostStep(m)
                          \/ \E n \in Attempts : \/ EndAttempt(m, n) \/ CrashAttempt(m, n)
                                               \/ Index(m, n)
  PROVE  queued' = queued
<1>1. ASSUME NEW m \in Msgs, NEW n \in Attempts, HandleMessage(m, n)
      PROVE  queued' = queued
  BY <1>1 DEF HandleMessage, FindProfile, AttachStoredContent, MakeVisible,
     SaveSenderService, SkipNotification, CreateNotification, store
<1>2. ASSUME NEW m \in Msgs, NEW n \in Attempts, Index(m, n)
      PROVE  queued' = queued
  BY <1>1, <1>2 DEF Index, DropBadEvent, RecordProcessed, ThrowUnexpected, SetVisibility,
     RecordThrottled, RecordRejected, ownVars, store
<1>3. CASE ChangeProfile \/ UNCHANGED vars
  BY <1>3 DEF ChangeProfile, vars, ownVars, store
<1>4. ASSUME NEW m \in Msgs,
             Send(m) \/ HostStep(m) \/ \E n \in Attempts : EndAttempt(m, n) \/ CrashAttempt(m, n)
      PROVE  queued' = queued
  BY <1>4 DEF Send, HostStep, EndAttempt, CrashAttempt, ownVars, store
<1> QED
  BY <1>2, <1>3, <1>4

\* No event is taken back.
LEMMA QueuedGrows ==
  ASSUME CreatedInv, [Next]_vars, NEW m \in Msgs
  PROVE  queued[m] \subseteq queued'[m]
<1>1. ASSUME NEW k \in Msgs, NEW n \in Attempts, NEW c \in Channels, FlushOutput(k, n, c)
      PROVE  queued[m] \subseteq queued'[m]
  BY <1>1 DEF FlushOutput, CreatedInv, TypeOK
<1> QED
  BY <1>1, QueuedKept DEF Next

LEMMA InputKept == [Next]_vars => UNCHANGED wellFormed
<1> SUFFICES ASSUME [Next]_vars
             PROVE  UNCHANGED wellFormed
  OBVIOUS
<1>1. ASSUME NEW m \in Msgs, NEW n \in Attempts, HandleMessage(m, n)
      PROVE  UNCHANGED wellFormed
  BY <1>1 DEF HandleMessage, FindProfile, AttachStoredContent, MakeVisible,
     SaveSenderService, SkipNotification, CreateNotification, input
<1>2. ASSUME NEW m \in Msgs, NEW n \in Attempts, Index(m, n)
      PROVE  UNCHANGED wellFormed
  BY <1>1, <1>2 DEF Index, DropBadEvent, RecordProcessed, ThrowUnexpected, SetVisibility,
     RecordThrottled, RecordRejected, ownVars, input
<1>3. ASSUME NEW m \in Msgs,
             \/ Send(m) \/ HostStep(m)
             \/ \E n \in Attempts : \/ EndAttempt(m, n) \/ CrashAttempt(m, n)
                                    \/ \E c \in Channels : FlushOutput(m, n, c)
      PROVE  UNCHANGED wellFormed
  BY <1>3 DEF Send, HostStep, EndAttempt, CrashAttempt, FlushOutput, ownVars, input
<1>4. CASE ChangeProfile \/ UNCHANGED vars
  BY <1>4 DEF ChangeProfile, vars, ownVars, input
<1> QED
  BY <1>2, <1>3, <1>4 DEF Next

\* PROCESSED is only recorded of a visible message.
ProcessedInv == \A m \in Msgs : status[m] = "PROCESSED" => ~pending[m]

LEMMA ProcessedStep ==
  ASSUME CreatedInv, ProcessedInv, [Next]_vars
  PROVE  ProcessedInv'
<1> SUFFICES ASSUME NEW m \in Msgs, status'[m] = "PROCESSED"
             PROVE  ~pending'[m]
  BY DEF ProcessedInv
<1>1. ~pending[m] => ~pending'[m]
  BY GrowthStep DEF Growth, CreatedInv
<1>2. CASE status' = status
  BY <1>1, <1>2 DEF ProcessedInv
<1>3. ASSUME NEW k \in Msgs, NEW n \in Attempts, NEW value,
             SaveStatus(k, value), value = "PROCESSED" => step[k][n] = "done"
      PROVE  ~pending[m]
  <2>1. status'[m] = IF m = k THEN value ELSE status[m]
    BY <1>3 DEF SaveStatus, CreatedInv, TypeOK
  <2>2. CASE m = k
    BY <1>3, <2>1, <2>2 DEF CreatedInv, StoreInv, ProgressInv
  <2>3. CASE m # k
    BY <2>1, <2>3 DEF ProcessedInv
  <2> QED
    BY <2>2, <2>3
<1>4. ASSUME NEW k \in Msgs, NEW n \in Attempts, HandleMessage(k, n)
      PROVE  status' = status
  BY <1>4 DEF HandleMessage, FindProfile, AttachStoredContent, MakeVisible,
     SaveSenderService, SkipNotification, CreateNotification
<1>5. ASSUME NEW k \in Msgs, NEW n \in Attempts, Index(k, n)
      PROVE  \/ status' = status
             \/ \E value : SaveStatus(k, value) /\ (value = "PROCESSED" => step[k][n] = "done")
  BY <1>4, <1>5 DEF Index, DropBadEvent, RecordProcessed, At, ThrowUnexpected, SetVisibility,
     RecordThrottled, RecordRejected, NoStatusSaved, ownVars
<1>6. ASSUME NEW k \in Msgs,
             \/ Send(k) \/ HostStep(k)
             \/ \E n \in Attempts : \/ EndAttempt(k, n) \/ CrashAttempt(k, n)
                                    \/ \E c \in Channels : FlushOutput(k, n, c)
      PROVE  status' = status
  BY <1>6 DEF Send, HostStep, EndAttempt, CrashAttempt, FlushOutput, ownVars
<1>7. CASE ChangeProfile \/ UNCHANGED vars
  BY <1>2, <1>7 DEF ChangeProfile, vars, ownVars
<1> QED
  BY <1>1, <1>2, <1>3, <1>5, <1>6, <1>7 DEF Next

-----------------------------------------------------------------------------
(* MessagesApi.                                                            *)

\* A request that has not queued its event, and one that is answered with an error.
PostInv(m) ==
  /\ api[m] \in {"idle", "create", "prepare", "flush"} =>
       visibility[m] = "absent" /\ response[m] = "none"
  /\ response[m] \in {"forbidden", "invalid", "queryError"} =>
       visibility[m] = "absent" /\ api[m] = "end"
  /\ api[m] = "prepare" => stored[m]
  /\ api[m] = "flush" => binding[m]
  /\ binding[m] => wellFormed[m] /\ stored[m]
  /\ visibility[m] # "absent" => binding[m]
  /\ api[m] = "respond" \/ response[m] = "created" => visibility[m] # "absent"

\* What a sender was told is true of some profile of the recipient.
ToldInv(m) == told[m] # "nothing" => \E p \in pastProfiles : told[m] = TellProfile(p)

ApiInv == /\ CreatedInv
          /\ ApiTypeOK
          /\ \A m \in Msgs : AbsentInv(m) /\ PostInv(m) /\ ToldInv(m)

\* A step of the API is one of the handler, or none.
LEMMA ApiStepIsHandlerStep == [ApiNext]_allVars => [Next]_vars
<1> SUFFICES ASSUME [ApiNext]_allVars
             PROVE  [Next]_vars
  OBVIOUS
<1>1. CASE UNCHANGED allVars
  BY <1>1 DEF allVars
<1>2. ASSUME NEW m \in Msgs, AskProfile(m) \/ Post(m) \/ CrashRequest(m)
      PROVE  [Next]_vars
  BY <1>2 DEF AskProfile, Post, CheckRequest, CreateMessage, PrepareEvent, FlushEvent,
     Respond, CrashRequest, Next
<1>3. ASSUME NEW m \in Msgs, ApiProcess(m)
      PROVE  Next
  BY <1>3 DEF ApiProcess, Next
<1>4. ASSUME ApiEnvironment
      PROVE  Next
  BY <1>4 DEF ApiEnvironment, Next
<1> QED
  BY <1>1, <1>2, <1>3, <1>4 DEF ApiNext

-----------------------------------------------------------------------------
(* The requests.                                                           *)

ApiOthers(m) ==
  \A k \in Msgs \ {m} :
    /\ api'[k] = api[k] /\ response'[k] = response[k] /\ told'[k] = told[k]
    /\ binding'[k] = binding[k] /\ stored'[k] = stored[k]

\* A request does not touch its message before it queues its event.
LEMMA RequestStep ==
  ASSUME CreatedInv, ApiTypeOK, NEW m \in Msgs, PostInv(m), UNCHANGED wellFormed,
         AskProfile(m) \/ Post(m) \/ CrashRequest(m)
  PROVE  /\ told' \in [Msgs -> Told] /\ api' \in [Msgs -> PostStep]
         /\ response' \in [Msgs -> PostResponse]
         /\ binding' \in [Msgs -> BOOLEAN] /\ stored' \in [Msgs -> BOOLEAN]
         /\ ApiOthers(m) /\ PostInv(m)'
         /\ \A k \in Msgs \ {m} : visibility'[k] = visibility[k]
<1> USE DEF ApiTypeOK, Told, PostStep, PostResponse, ApiOthers, PostInv, PostGoes, PostAnswer
<1>1. CASE AskProfile(m)
  <2>1. \A p : TellProfile(p) \in Told
    BY DEF TellProfile
  <2> QED
    BY <1>1, <2>1 DEF AskProfile, vars, queueVars
<1>2. CASE CheckRequest(m)
  BY <1>2 DEF CheckRequest, vars, queueVars
<1>3. CASE CreateMessage(m)
  BY <1>3 DEF CreateMessage, vars, queueVars
<1>4. CASE PrepareEvent(m)
  BY <1>4 DEF PrepareEvent, vars, queueVars
<1>5. CASE FlushEvent(m)
  BY <1>5 DEF FlushEvent, Send, Enqueue, vars, queueVars, CreatedInv, TypeOK, QueueTypeOK
<1>6. CASE Respond(m)
  BY <1>6 DEF Respond, vars, queueVars
<1>7. CASE CrashRequest(m)
  BY <1>7 DEF CrashRequest, vars, queueVars
<1> QED
  BY <1>1, <1>2, <1>3, <1>4, <1>5, <1>6, <1>7 DEF Post

LEMMA ToldStep ==
  ASSUME ApiTypeOK, NEW m \in Msgs, ToldInv(m), pastProfiles \subseteq pastProfiles',
         UNCHANGED told \/ \E k \in Msgs : AskProfile(k)
  PROVE  ToldInv(m)'
<1>1. \A p : TellProfile(p)' = TellProfile(p)
  BY DEF TellProfile, IsSenderAllowed
<1>2. CASE told'[m] = told[m]
  BY <1>1, <1>2 DEF ToldInv
<1>3. CASE \E p \in pastProfiles : told'[m] = TellProfile(p)
  BY <1>1, <1>3 DEF ToldInv
<1>4. ASSUME NEW k \in Msgs, AskProfile(k)
      PROVE  told'[m] = told[m] \/ \E p \in pastProfiles : told'[m] = TellProfile(p)
  BY <1>4 DEF AskProfile, ApiTypeOK
<1> QED
  BY <1>2, <1>3, <1>4

-----------------------------------------------------------------------------
(* The invariant.                                                          *)

LEMMA ApiInvInit == ApiInit => ApiInv
<1> SUFFICES ASSUME ApiInit
             PROVE  ApiInv
  OBVIOUS
<1>1. CreatedInv
  BY CreatedInvInit DEF ApiInit
<1>2. ApiTypeOK
  BY <1>1 DEF ApiInit, CreatedInv, ApiTypeOK, Told, PostStep, PostResponse
<1>3. ASSUME NEW m \in Msgs
      PROVE  AbsentInv(m) /\ PostInv(m) /\ ToldInv(m)
  BY DEF ApiInit, Init, QueueInit, AbsentInv, PostInv, ToldInv
<1> QED
  BY <1>1, <1>2, <1>3 DEF ApiInv

LEMMA ApiInvStep == ApiInv /\ [ApiNext]_allVars => ApiInv'
<1> SUFFICES ASSUME ApiInv, [ApiNext]_allVars
             PROVE  ApiInv'
  OBVIOUS
<1> USE DEF ApiInv
<1>1. [Next]_vars
  BY ApiStepIsHandlerStep
<1>2. CreatedInv' /\ \A m \in Msgs : AbsentInv(m)'
  BY <1>1, CreatedInvStep, AbsentStep
<1>3. pastProfiles \subseteq pastProfiles' /\ TypeOK'
  <2>1. CASE Msgs = {}
    BY <1>1, <1>2, <2>1 DEF CreatedInv, Next, ChangeProfile, vars, ownVars
  <2>2. CASE Msgs # {}
    BY <1>1, <1>2, <2>2, GrowthStep DEF CreatedInv, Growth
  <2> QED
    BY <2>1, <2>2
<1>4. ASSUME NEW m \in Msgs, AskProfile(m) \/ Post(m) \/ CrashRequest(m)
      PROVE  ApiInv'
  <2>1. /\ told' \in [Msgs -> Told] /\ api' \in [Msgs -> PostStep]
        /\ response' \in [Msgs -> PostResponse]
        /\ binding' \in [Msgs -> BOOLEAN] /\ stored' \in [Msgs -> BOOLEAN]
        /\ ApiOthers(m) /\ PostInv(m)'
        /\ \A k \in Msgs \ {m} : visibility'[k] = visibility[k]
    BY <1>1, <1>4, InputKept, RequestStep
  <2>2. \A k \in Msgs : PostInv(k)'
    BY <1>1, <2>1, InputKept DEF ApiOthers, PostInv
  <2>3. UNCHANGED told \/ \E k \in Msgs : AskProfile(k)
    BY <1>4 DEF Post, CheckRequest, CreateMessage, PrepareEvent, FlushEvent, Respond,
       CrashRequest
  <2>4. \A k \in Msgs : ToldInv(k)'
    BY <1>3, <2>3, ToldStep
  <2>5. ApiTypeOK'
    BY <1>3, <2>1 DEF ApiTypeOK
  <2> QED
    BY <1>2, <2>2, <2>4, <2>5
<1>5. ASSUME UNCHANGED apiVars,
             \A m \in Msgs : visibility'[m] = "absent" <=> visibility[m] = "absent"
      PROVE  ApiInv'
  <2>1. UNCHANGED <<told, api, response, binding, stored>>
    BY <1>5 DEF apiVars
  <2>2. \A m \in Msgs : PostInv(m)'
    BY <1>1, <1>5, <2>1, InputKept DEF PostInv
  <2>3. \A m \in Msgs : ToldInv(m)'
    BY <1>3, <2>1, ToldStep
  <2>4. ApiTypeOK'
    BY <1>3, <2>1 DEF ApiTypeOK
  <2> QED
    BY <1>2, <2>2, <2>3, <2>4
<1>6. CASE UNCHANGED allVars
  BY <1>5, <1>6 DEF allVars, vars, queueVars
<1>7. ASSUME ApiEnvironment \/ \E k \in Msgs : ApiProcess(k)
      PROVE  ApiInv'
  <2>1. UNCHANGED apiVars
    BY <1>7 DEF ApiEnvironment, ApiProcess
  <2>2. \A m \in Msgs : visibility'[m] = "absent" <=> visibility[m] = "absent"
    BY <1>1, <1>7, AbsentKept, HandlerStepIsQueueStep, AbsentQueueStep
       DEF ApiEnvironment, ApiProcess, CreatedInv
  <2> QED
    BY <1>5, <2>1, <2>2
<1> QED
  BY <1>4, <1>6, <1>7 DEF ApiNext

LEMMA ApiInvariant == ApiSpec => []ApiInv
BY ApiInvInit, ApiInvStep, PTL DEF ApiSpec

-----------------------------------------------------------------------------
(* The theorems.                                                           *)

\* Every variable of MessagesApi and of the handler keeps its type.
THEOREM ApiTypeCorrect == ApiSpec => []ApiTypeOK
<1>1. ApiInv => ApiTypeOK
  BY DEF ApiInv
<1> QED
  BY <1>1, ApiInvariant, PTL

\* What a sender is told of a profile, and what becomes of its message, agree: see
\* ToldIsTrue.
THEOREM ToldIsTrueCorrect == ApiSpec => []ToldIsTrue
<1>1. ApiInv => ToldIsTrue
  <2> SUFFICES ASSUME ApiInv, NEW m \in Msgs, pastProfiles = {profile}
               PROVE  /\ told[m] = "allowed" /\ "REJECTED" \in versions[m] => ~profile.inbox
                      /\ told[m] \in {"notFound", "blocked"} =>
                           pending[m] /\ notifications[m] = {}
    BY DEF ToldIsTrue
  <2>1. told[m] # "nothing" => told[m] = TellProfile(profile)
    BY DEF ApiInv, ToldInv
  <2>2. "REJECTED" \in versions[m] => ~Accepts(profile)
    BY DEF ApiInv, CreatedInv, StoreInv, RefusedInv
  <2>3. /\ ~pending[m] => Accepts(profile)
        /\ notifications[m] # {} => ~pending[m]
    BY DEF ApiInv, CreatedInv, StoreInv, VisibleInv, NotificationInv
  <2>4. told[m] = "allowed" => profile.exists /\ "INBOX" \notin profile.blocked
    BY <2>1 DEF TellProfile, IsSenderAllowed
  <2>5. told[m] \in {"notFound", "blocked"} => ~Accepts(profile)
    BY <2>1 DEF TellProfile, IsSenderAllowed, Accepts
  <2>6. pending[m] \in BOOLEAN
    BY DEF ApiInv, CreatedInv, TypeOK
  <2> QED
    BY <2>2, <2>3, <2>4, <2>5, <2>6 DEF Accepts
<1> QED
  BY <1>1, ApiInvariant, PTL

\* A request answered with an error leaves nothing behind: see RefusedIsInvisible.
THEOREM RefusedIsInvisibleCorrect == ApiSpec => []RefusedIsInvisible
<1>1. ApiInv => RefusedIsInvisible
  <2> SUFFICES ASSUME ApiInv, NEW m \in Msgs,
                      response[m] \in {"forbidden", "invalid", "queryError"}
               PROVE  /\ visibility[m] = "absent" /\ pending[m] /\ ~content[m]
                      /\ notifications[m] = {} /\ senderService # m
    BY DEF RefusedIsInvisible
  <2>1. visibility[m] = "absent" /\ pending[m] /\ ~content[m]
    BY DEF ApiInv, PostInv, AbsentInv
  <2>2. notifications[m] = {}
    BY <2>1 DEF ApiInv, CreatedInv, StoreInv, NotificationInv
  <2>3. senderService # m
    BY <2>1, SenderAssumption DEF ApiInv, CreatedInv, SenderInv
  <2> QED
    BY <2>1, <2>2, <2>3
<1> QED
  BY <1>1, ApiInvariant, PTL
-----------------------------------------------------------------------------
(* MessagePipeline.                                                        *)

\* Delivery d has its event.
Event(d) == [id |-> d.id, channel |-> d.channel]

DeliveryType ==
  /\ phase \in [Deliveries -> N!Phase]
  /\ reached \in [Deliveries -> BOOLEAN]
  /\ channelStatus \in [Deliveries -> N!Status \cup {"none"}]
  /\ get \in [Readers -> Get]

\* Nothing is delivered but what was queued, and SENT is only recorded of what was
\* delivered.
DeliveryInv ==
  \A d \in Deliveries :
    /\ phase[d] # "unsent" => Event(d) \in queued[d.msg]
    /\ reached[d] => Event(d) \in queued[d.msg]
    /\ channelStatus[d] = "SENT" => reached[d]

\* An event that was queued decodes.
DecodesInv == \A m \in Msgs : visibility[m] # "absent" => wellFormed[m]

\* What a reader was promised, and what it has read, still holds.
GetInv ==
  \A r \in Readers :
    /\ ~get[r].lacking
    /\ get[r].step # "idle" => get[r].msg \in Msgs
    /\ get[r].promised => get[r].step = "content" /\ ~pending[get[r].msg]
    /\ get[r].step \in {"idle", "content", "notification"} => get[r].id = 0
    /\ get[r].step = "channels" => get[r].id # 0
    /\ get[r].id = 0 => get[r].sent = {}
    /\ get[r].id # 0 => \E x \in notifications[get[r].msg] : x.id = get[r].id
    /\ \A c \in get[r].sent :
         reached[[msg |-> get[r].msg, id |-> get[r].id, channel |-> c]]

PipelineInv == /\ CreatedInv
               /\ DeliveryType
               /\ DeliveryInv
               /\ ProcessedInv
               /\ GetInv
               /\ DecodesInv

\* A step of the pipeline is one of the handler, or none.
LEMMA PipelineStepIsHandlerStep == [PipelineNext]_pipelineVars => [Next]_vars
<1> SUFFICES ASSUME [PipelineNext]_pipelineVars
             PROVE  [Next]_vars
  OBVIOUS
<1>1. CASE UNCHANGED pipelineVars
  BY <1>1 DEF pipelineVars
<1>2. ASSUME NEW m \in Msgs, Process(m) \/ \E n \in Attempts, c \in Channels : Notify(m, n, c)
      PROVE  Next
  BY <1>2 DEF Process, Notify, Next
<1>3. ASSUME NEW d \in Deliveries, DeliveryStep(d) \/ DeliveryWork(d)
      PROVE  UNCHANGED vars
  BY <1>3 DEF DeliveryStep, DeliveryWork
<1>4. ASSUME NEW r \in Readers, GetMessage(r)
      PROVE  UNCHANGED vars
  BY <1>4 DEF GetMessage, ReadMessage, ReadContent, ReadNotification, ReadChannels,
     ReadStatus
<1>5. ASSUME Environment
      PROVE  Next
  BY <1>5 DEF Environment, Next
<1> QED
  BY <1>1, <1>2, <1>3, <1>4, <1>5 DEF PipelineNext

\* Nothing but an event that decodes is put on the queue.
LEMMA DecodesStep ==
  ASSUME PipelineInv, [PipelineNext]_pipelineVars
  PROVE  DecodesInv'
<1> SUFFICES ASSUME NEW m \in Msgs, visibility'[m] # "absent"
             PROVE  wellFormed[m]
  BY PipelineStepIsHandlerStep, InputKept DEF DecodesInv
<1>1. CASE visibility[m] # "absent"
  BY <1>1 DEF PipelineInv, DecodesInv
<1>2. ASSUME NEW k \in Msgs, wellFormed[k], Send(k), visibility[m] = "absent"
      PROVE  wellFormed[m]
  BY <1>2 DEF Send, Enqueue, PipelineInv, CreatedInv, QueueInv, QueueTypeOK
<1>3. ASSUME UNCHANGED vars
      PROVE  visibility'[m] = visibility[m]
  BY <1>3 DEF vars, queueVars
<1>4. UNCHANGED pipelineVars => UNCHANGED vars
  BY DEF pipelineVars
<1>5. ASSUME NEW d \in Deliveries, DeliveryStep(d) \/ DeliveryWork(d)
      PROVE  UNCHANGED vars
  BY <1>5 DEF DeliveryStep, DeliveryWork
<1>6. ASSUME NEW r \in Readers, GetMessage(r)
      PROVE  UNCHANGED vars
  BY <1>6 DEF GetMessage, ReadMessage, ReadContent, ReadNotification, ReadChannels,
     ReadStatus
<1>7. ASSUME visibility[m] = "absent",
             \/ \E k \in Msgs : Process(k)
             \/ \E k \in Msgs, n \in Attempts, c \in Channels : Notify(k, n, c)
      PROVE  visibility'[m] = "absent"
  BY <1>7, AbsentKept DEF Process, Notify, PipelineInv, CreatedInv
<1>8. ASSUME visibility[m] = "absent",
             ChangeProfile \/ \E k \in Msgs, n \in Attempts : CrashAttempt(k, n)
      PROVE  visibility'[m] = "absent"
  BY <1>8, AbsentKept DEF PipelineInv, CreatedInv
<1> QED
  BY <1>1, <1>2, <1>3, <1>4, <1>5, <1>6, <1>7, <1>8 DEF PipelineNext, Environment

-----------------------------------------------------------------------------
(* The deliveries.                                                         *)

LEMMA DeliveryStepKeepsInv ==
  ASSUME PipelineInv, CreatedInv', [PipelineNext]_pipelineVars
  PROVE  /\ DeliveryInv'
         /\ phase' \in [Deliveries -> N!Phase]
         /\ reached' \in [Deliveries -> BOOLEAN]
         /\ channelStatus' \in [Deliveries -> N!Status \cup {"none"}]
         /\ \A d \in Deliveries : reached[d] => reached'[d]
<1> USE DEF PipelineInv, DeliveryType
<1> DEFINE Goal == /\ DeliveryInv'
                   /\ phase' \in [Deliveries -> N!Phase]
                   /\ reached' \in [Deliveries -> BOOLEAN]
                   /\ channelStatus' \in [Deliveries -> N!Status \cup {"none"}]
                   /\ \A d \in Deliveries : reached[d] => reached'[d]
<1>1. \A d \in Deliveries : queued[d.msg] \subseteq queued'[d.msg]
  BY PipelineStepIsHandlerStep, QueuedGrows DEF Deliveries
<1>2. CASE UNCHANGED deliveryVars
  BY <1>1, <1>2 DEF deliveryVars, DeliveryInv, Event
<1>3. ASSUME NEW m \in Msgs, NEW n \in Attempts, NEW c \in Channels, Notify(m, n, c)
      PROVE  Goal
  <2> DEFINE e == [msg |-> m, id |-> n, channel |-> c]
  <2>1. /\ e \in Deliveries /\ e.msg = m /\ Event(e) = [id |-> n, channel |-> c]
        /\ phase' = [phase EXCEPT ![e] = "waiting"]
        /\ UNCHANGED <<reached, channelStatus>>
    BY <1>3 DEF Notify, N!Send, N!Move, Deliveries, Event
  <2> HIDE DEF e
  <2>2. Event(e) \in queued'[e.msg]
    BY <1>3, <2>1 DEF Notify, FlushOutput, CreatedInv, TypeOK
  <2>3. phase' \in [Deliveries -> N!Phase]
    BY <2>1 DEF N!Phase
  <2>4. DeliveryInv'
    BY <1>1, <2>1, <2>2 DEF DeliveryInv, Event
  <2> QED
    BY <2>1, <2>3, <2>4
<1>4. ASSUME NEW e \in Deliveries, DeliveryStep(e)
      PROVE  Goal
  <2>1. /\ phase[e] # "unsent"
        /\ \E to \in N!Phase : phase' = [phase EXCEPT ![e] = to]
        /\ UNCHANGED <<reached, channelStatus, vars>>
    BY <1>4 DEF DeliveryStep, N!Try, N!Fail, N!Settle, N!Bury, N!Move, N!Phase
  <2>2. DeliveryInv'
    BY <1>1, <2>1 DEF DeliveryInv, Event
  <2> QED
    BY <2>1, <2>2
<1>5. ASSUME NEW e \in Deliveries, DeliveryWork(e)
      PROVE  Goal
  <2>1. CASE N!Deliver(e)
    <3>1. /\ phase[e] # "unsent" /\ reached' = [reached EXCEPT ![e] = TRUE]
          /\ UNCHANGED <<phase, channelStatus>>
      BY <2>1 DEF N!Deliver, N!vars
    <3>2. reached' \in [Deliveries -> BOOLEAN]
      BY <3>1
    <3>3. \A d \in Deliveries : reached'[d] => reached[d] \/ d = e
      BY <3>1
    <3>4. \A d \in Deliveries : reached[d] => reached'[d]
      BY <3>1
    <3>5. DeliveryInv'
      BY <1>1, <3>1, <3>3, <3>4 DEF DeliveryInv, Event
    <3> QED
      BY <3>1, <3>2, <3>4, <3>5
  <2>2. CASE N!Conclude(e) \/ N!Throttle(e)
    <3>1. PICK value \in N!Status :
            /\ value = "SENT" => reached[e]
            /\ channelStatus' = [channelStatus EXCEPT ![e] = value]
            /\ UNCHANGED <<phase, reached>>
      BY <2>2 DEF N!Conclude, N!Throttle, N!vars, N!Status, N!FinalStatus
    <3>2. DeliveryInv'
      BY <1>1, <3>1 DEF DeliveryInv, Event
    <3> QED
      BY <3>1, <3>2
  <2> QED
    BY <1>5, <2>1, <2>2 DEF DeliveryWork, N!Work
<1>6. ASSUME NEW m \in Msgs, Process(m)
      PROVE  Goal
  BY <1>2, <1>6 DEF Process
<1>7. ASSUME NEW r \in Readers, GetMessage(r)
      PROVE  Goal
  BY <1>2, <1>7 DEF GetMessage, ReadMessage, ReadContent, ReadNotification, ReadChannels,
     ReadStatus
<1>8. CASE Environment \/ UNCHANGED pipelineVars
  BY <1>2, <1>8 DEF Environment, pipelineVars
<1> QED
  BY <1>3, <1>4, <1>5, <1>6, <1>7, <1>8 DEF PipelineNext

-----------------------------------------------------------------------------
(* The readers.                                                            *)

\* What a reader has read stays true.
LEMMA GetKept ==
  ASSUME PipelineInv, UNCHANGED get,
         \A m \in Msgs : ~pending[m] => ~pending'[m],
         \A m \in Msgs : notifications[m] \subseteq notifications'[m],
         \A d \in Deliveries : reached[d] => reached'[d]
  PROVE  GetInv'
<1>0. ASSUME NEW r \in Readers, get[r].id # 0
      PROVE  \E x \in notifications'[get[r].msg] : x.id = get[r].id
  BY <1>0 DEF PipelineInv, GetInv
<1> SUFFICES ASSUME NEW r \in Readers, NEW c \in get[r].sent
             PROVE  reached'[[msg |-> get[r].msg, id |-> get[r].id, channel |-> c]]
  BY <1>0 DEF PipelineInv, GetInv
<1>1. get[r] \in Get /\ get[r].id # 0 /\ get[r].step # "idle"
  BY DEF PipelineInv, GetInv, DeliveryType
<1>2. /\ get[r].msg \in Msgs /\ get[r].id \in Attempts /\ c \in Channels
      /\ reached[[msg |-> get[r].msg, id |-> get[r].id, channel |-> c]]
  BY <1>1 DEF PipelineInv, GetInv, Get
<1>3. [msg |-> get[r].msg, id |-> get[r].id, channel |-> c] \in Deliveries
  BY <1>2 DEF Deliveries
<1> QED
  BY <1>2, <1>3

\* A message that the list shows, or that is reported, is not pending.
LEMMA PromisedIsVisible ==
  ASSUME PipelineInv, NEW m \in ListMessages \cup Reported
  PROVE  ~pending[m]
<1>1. CASE \E d \in Deliveries : d.msg = m /\ channelStatus[d] = "SENT"
  <2>1. PICK d \in Deliveries : d.msg = m /\ Event(d) \in queued[m]
    BY <1>1 DEF PipelineInv, DeliveryInv
  <2>2. m \in Msgs /\ NotifiedCanRead
    BY <2>1, QueuedCanRead DEF PipelineInv, Deliveries
  <2> QED
    BY <2>1, <2>2 DEF NotifiedCanRead
<1> QED
  BY <1>1 DEF ListMessages, Reported, PipelineInv, ProcessedInv

LEMMA ReadKeepsInv ==
  ASSUME PipelineInv, NEW r \in Readers, GetMessage(r)
  PROVE  get' \in [Readers -> Get] /\ GetInv'
<1> USE DEF PipelineInv, GetInv, DeliveryType, Gets, EndGet
<1> DEFINE Fine(g) ==
             /\ g \in Get
             /\ ~g.lacking
             /\ g.step # "idle" => g.msg \in Msgs
             /\ g.promised => g.step = "content" /\ ~pending[g.msg]
             /\ g.step \in {"idle", "content", "notification"} => g.id = 0
             /\ g.step = "channels" => g.id # 0
             /\ g.id = 0 => g.sent = {}
             /\ g.id # 0 => \E x \in notifications[g.msg] : x.id = g.id
             /\ \A c \in g.sent : reached[[msg |-> g.msg, id |-> g.id, channel |-> c]]
<1>1. Fine(get[r]) /\ \A q \in Readers : Fine(get[q])
  OBVIOUS
<1>2. ASSUME NEW g, Fine(g), get' = [get EXCEPT ![r] = g], UNCHANGED <<vars, deliveryVars>>
      PROVE  get' \in [Readers -> Get] /\ GetInv'
  <2>1. pending' = pending /\ reached' = reached /\ notifications' = notifications
    BY <1>2 DEF vars, ownVars, store, deliveryVars
  <2>2. \A q \in Readers : Fine(get'[q]) /\ get'[q] \in Get
    BY <1>1, <1>2
  <2>3. get' \in [Readers -> Get]
    BY <1>2
  <2> QED
    BY <2>1, <2>2, <2>3
<1>3. NoGet \in Get /\ Fine(NoGet)
  BY DEF NoGet, Get, GetStep
<1>4. CASE EndGet(r) /\ UNCHANGED <<vars, deliveryVars>>
  BY <1>2, <1>3, <1>4
<1>5. ASSUME NEW m \in Msgs, ReadMessage(r, m)
      PROVE  get' \in [Readers -> Get] /\ GetInv'
  <2> DEFINE g == [NoGet EXCEPT !.step = "content", !.msg = m,
                                !.promised = m \in ListMessages \cup Reported]
  <2>1. (m \in ListMessages \cup Reported) \in BOOLEAN
    OBVIOUS
  <2>2. g.promised => ~pending[m]
    BY PromisedIsVisible DEF NoGet
  <2>3. Fine(g)
    BY <2>1, <2>2 DEF NoGet, Get, GetStep
  <2> QED
    BY <1>2, <1>5, <2>3 DEF ReadMessage
<1>6. CASE ReadContent(r)
  <2> DEFINE g == [NoGet EXCEPT !.step = "notification", !.msg = get[r].msg,
                                !.lacking = get[r].promised /\ ~content[get[r].msg]]
  <2>1. get[r].msg \in Msgs /\ ~(get[r].promised /\ ~content[get[r].msg])
    BY <1>6 DEF ReadContent, CreatedInv, StoreInv, VisibleInv
  <2>2. Fine(g)
    BY <2>1 DEF NoGet, Get, GetStep
  <2> QED
    BY <1>2, <1>4, <1>6, <2>2 DEF ReadContent
<1>7. CASE ReadNotification(r)
  <2>1. get[r].step = "notification" /\ get[r].msg \in Msgs
    BY <1>7 DEF ReadNotification
  <2>2. ASSUME NEW x \in notifications[get[r].msg]
        PROVE  Fine([get[r] EXCEPT !.step = "channels", !.id = x.id])
    <3>1. x.id \in Attempts /\ x.id # 0
      BY <2>1, QueueAssumption DEF CreatedInv, TypeOK, Attempts
    <3>2. get[r].sent = {}
      BY <2>1
    <3> QED
      BY <1>1, <2>1, <3>1, <3>2 DEF Get, GetStep
  <2>3. Fine([get[r] EXCEPT !.step = "status"])
    BY <1>1, <2>1 DEF Get, GetStep
  <2> QED
    BY <1>2, <1>4, <1>7, <2>2, <2>3 DEF ReadNotification
<1>8. CASE ReadChannels(r)
  <2>1. PICK sent \in SUBSET Sent(get[r].msg, get[r].id) :
          get' = [get EXCEPT ![r] = [get[r] EXCEPT !.step = "status", !.sent = sent]]
    BY <1>8 DEF ReadChannels
  <2>2. /\ get[r].step = "channels" /\ get[r].msg \in Msgs
        /\ get[r].id # 0 /\ get[r].id \in Attempts
    BY <1>1, <1>8 DEF ReadChannels, Get
  <2>3. \A c \in Sent(get[r].msg, get[r].id) :
          c \in Channels /\ reached[[msg |-> get[r].msg, id |-> get[r].id, channel |-> c]]
    BY <2>2 DEF Sent, DeliveryInv, Deliveries
  <2>4. Fine([get[r] EXCEPT !.step = "status", !.sent = sent])
    BY <1>1, <2>2, <2>3 DEF Get, GetStep
  <2> QED
    BY <1>2, <1>8, <2>1, <2>4 DEF ReadChannels
<1>9. CASE ReadStatus(r)
  BY <1>4, <1>9 DEF ReadStatus
<1> QED
  BY <1>5, <1>6, <1>7, <1>8, <1>9 DEF GetMessage

-----------------------------------------------------------------------------
(* The invariant.                                                          *)

LEMMA PipelineInvInit == PipelineInit => PipelineInv
<1> SUFFICES ASSUME PipelineInit
             PROVE  PipelineInv
  OBVIOUS
<1>1. CreatedInv
  BY CreatedInvInit DEF PipelineInit
<1>2. DeliveryType /\ DeliveryInv
  BY DEF PipelineInit, N!NotificationInit, N!Init, DeliveryType, DeliveryInv, N!Phase, Get,
     NoGet, GetStep
<1>3. ProcessedInv
  BY DEF PipelineInit, Init, ProcessedInv
<1>4. GetInv
  BY DEF PipelineInit, GetInv, NoGet
<1>5. DecodesInv
  BY DEF PipelineInit, Init, QueueInit, DecodesInv
<1> QED
  BY <1>1, <1>2, <1>3, <1>4, <1>5 DEF PipelineInv

LEMMA PipelineInvStep == PipelineInv /\ [PipelineNext]_pipelineVars => PipelineInv'
<1> SUFFICES ASSUME PipelineInv, [PipelineNext]_pipelineVars
             PROVE  PipelineInv'
  OBVIOUS
<1>1. CreatedInv' /\ ProcessedInv'
  BY PipelineStepIsHandlerStep, CreatedInvStep, ProcessedStep DEF PipelineInv
<1>2. /\ DeliveryInv'
      /\ phase' \in [Deliveries -> N!Phase]
      /\ reached' \in [Deliveries -> BOOLEAN]
      /\ channelStatus' \in [Deliveries -> N!Status \cup {"none"}]
      /\ \A d \in Deliveries : reached[d] => reached'[d]
  BY <1>1, DeliveryStepKeepsInv
<1>3. \A m \in Msgs : /\ ~pending[m] => ~pending'[m]
                     /\ notifications[m] \subseteq notifications'[m]
  BY PipelineStepIsHandlerStep, GrowthStep DEF Growth, PipelineInv, CreatedInv
<1>4. ASSUME UNCHANGED get
      PROVE  get' \in [Readers -> Get] /\ GetInv'
  BY <1>2, <1>3, <1>4, GetKept DEF PipelineInv, DeliveryType
<1>5. ASSUME NEW r \in Readers, GetMessage(r)
      PROVE  get' \in [Readers -> Get] /\ GetInv'
  BY <1>5, ReadKeepsInv
<1>6. \/ UNCHANGED get
      \/ \E r \in Readers : GetMessage(r)
  BY DEF PipelineNext, pipelineVars, Process, Notify, DeliveryStep, DeliveryWork, Environment
<1>7. DecodesInv'
  BY DecodesStep
<1> QED
  BY <1>1, <1>2, <1>4, <1>5, <1>6, <1>7 DEF PipelineInv, DeliveryType

LEMMA PipelineInvariant == PipelineSpec => []PipelineInv
BY PipelineInvInit, PipelineInvStep, PTL DEF PipelineSpec

-----------------------------------------------------------------------------
(* The theorems.                                                           *)

\* Whoever gets a notification can read the message: see ReachedCanRead.
THEOREM ReachedCanReadCorrect == PipelineSpec => []ReachedCanRead
<1>1. PipelineInv => ReachedCanRead
  <2> SUFFICES ASSUME PipelineInv, NEW d \in Deliveries, reached[d]
               PROVE  /\ content[d.msg] /\ ~pending[d.msg] /\ SenderServices # {}
                      /\ \E x \in notifications[d.msg] : x.id = d.id /\ d.channel \in x.channels
    BY DEF ReachedCanRead
  <2>1. Event(d) \in queued[d.msg] /\ d.msg \in Msgs
    BY DEF PipelineInv, DeliveryInv, Deliveries
  <2>2. /\ content[d.msg] /\ ~pending[d.msg]
        /\ \E x \in notifications[d.msg] : x.id = d.id /\ d.channel \in x.channels
    BY <2>1, QueuedCanRead DEF PipelineInv, NotifiedCanRead, Event
  <2>3. senderService # "none"
    BY <2>1, <2>2 DEF PipelineInv, CreatedInv, StoreInv, NotificationInv
  <2> QED
    BY <2>2, <2>3 DEF SenderServices
<1> QED
  BY <1>1, PipelineInvariant, PTL

\* What was listed or reported has its content in every later reply: see
\* PromisedIsReadable.
THEOREM PromisedIsReadableCorrect == PipelineSpec => []PromisedIsReadable
<1>1. PipelineInv => PromisedIsReadable
  BY DEF PipelineInv, GetInv, PromisedIsReadable
<1> QED
  BY <1>1, PipelineInvariant, PTL

\* The statuses in a reply belong together: see ReplyTellsTruth.
THEOREM ReplyTellsTruthCorrect == PipelineSpec => []ReplyTellsTruth
<1>1. PipelineInv => ReplyTellsTruth
  <2> SUFFICES ASSUME PipelineInv, NEW r \in Readers, get[r].id # 0
               PROVE  /\ \A c \in get[r].sent :
                           reached[[msg |-> get[r].msg, id |-> get[r].id, channel |-> c]]
                      /\ ~glitch[get[r].msg] /\ Settled(get[r].msg, "ok") =>
                           \A x \in notifications[get[r].msg] : x.id = get[r].id =>
                             \A c \in x.channels :
                               [id |-> x.id, channel |-> c] \in queued[get[r].msg]
    BY DEF ReplyTellsTruth
  <2> DEFINE m == get[r].msg
  <2>1. m \in Msgs
    BY DEF PipelineInv, GetInv
  <2>2. \A c \in get[r].sent : reached[[msg |-> m, id |-> get[r].id, channel |-> c]]
    BY DEF PipelineInv, GetInv
  <2> HIDE DEF m
  <2>3. ASSUME ~glitch[m], Settled(m, "ok"), NEW x \in notifications[m], NEW c \in x.channels
        PROVE  [id |-> x.id, channel |-> c] \in queued[m]
    <3>1. x.id = dequeueCount[m]
      BY <2>1, <2>3 DEF PipelineInv, CreatedInv, OnceInv
    <3>2. /\ OnRecord(m, dequeueCount[m]) /\ outputs[m][dequeueCount[m]] = {}
          /\ outcome[m][dequeueCount[m]] = "ok"
      BY <2>1, <2>3 DEF PipelineInv, CreatedInv, EndInv, Settled
    <3>3. wellFormed[m]
      BY <2>1, <2>3 DEF PipelineInv, DecodesInv, Settled
    <3> QED
      BY <2>3, <3>1, <3>2, <3>3 DEF OnRecord
  <2> QED
    BY <2>2, <2>3 DEF m
<1> QED
  BY <1>1, PipelineInvariant, PTL

-----------------------------------------------------------------------------
(* MessageSystem: the notification handlers are what MessagePipeline takes *)
(* them for.                                                               *)

\* The queues of the notifications hold the events that were put on them.
SentInv == \A d \in Deliveries : Event(d) \in queued[d.msg] <=> dVisibility[d] # "absent"

SystemInv == /\ PipelineInv
             /\ H!HandlerInv
             /\ Shown
             /\ SentInv
             /\ \A d \in Deliveries : dChannel[d] = d.channel /\ dFormat[d] # "badEvent"

\* The abstraction of a handler is what Shown shows of it.
LEMMA ShownTry ==
  ASSUME Shown, Shown', NEW d \in Deliveries,
         \/ H!AbstractNotification!Try(d) \/ H!AbstractNotification!Fail(d)
         \/ H!AbstractNotification!Settle(d) \/ H!AbstractNotification!Bury(d)
  PROVE  N!Try(d) \/ N!Fail(d) \/ N!Settle(d) \/ N!Bury(d)
<1>1. H!AbstractNotification!Try(d) => N!Try(d)
  BY DEF Shown, H!AbstractNotification!Try, N!Try, H!AbstractNotification!Move, N!Move
<1>2. H!AbstractNotification!Fail(d) => N!Fail(d)
  BY DEF Shown, H!AbstractNotification!Fail, N!Fail, H!AbstractNotification!Move, N!Move
<1>3. H!AbstractNotification!Settle(d) => N!Settle(d)
  BY DEF Shown, H!AbstractNotification!Settle, N!Settle, H!AbstractNotification!Move, N!Move
<1>4. H!AbstractNotification!Bury(d) => N!Bury(d)
  BY DEF Shown, H!AbstractNotification!Bury, N!Bury, H!AbstractNotification!Move, N!Move
<1> QED
  BY <1>1, <1>2, <1>3, <1>4

LEMMA ShownWork ==
  ASSUME Shown, Shown', NEW d \in Deliveries, H!AbstractNotification!Work(d)
  PROVE  N!Work(d)
<1> USE DEF Shown, H!AbstractNotification!vars, N!vars
<1>1. H!AbstractNotification!Deliver(d) => N!Deliver(d)
  BY DEF H!AbstractNotification!Deliver, N!Deliver
<1>2. H!AbstractNotification!Conclude(d) => N!Conclude(d)
  BY DEF H!AbstractNotification!Conclude, N!Conclude, H!AbstractNotification!FinalStatus,
     N!FinalStatus
<1>3. H!AbstractNotification!Throttle(d) => N!Throttle(d)
  BY DEF H!AbstractNotification!Throttle, N!Throttle
<1> QED
  BY <1>1, <1>2, <1>3 DEF H!AbstractNotification!Work, N!Work

\* A step of a handler is one of Notification, with the event sent before.
LEMMA HandleDeliveryStep ==
  ASSUME DeliveryAssumption, SystemInv, NEW d \in Deliveries, HandleDelivery(d)
  PROVE  /\ [PipelineNext]_pipelineVars
         /\ H!Next
         /\ \A e \in Deliveries : dVisibility'[e] = "absent" <=> dVisibility[e] = "absent"
<1>1. /\ \/ H!ExpireMessage(d) \/ H!HostStep(d)
         \/ \E n \in H!Attempts : \/ H!EndAttempt(d, n) \/ H!CrashAttempt(d, n)
                                \/ H!EmailIndex(d, n) \/ H!WebhookIndex(d, n)
      /\ UNCHANGED <<vars, get>>
      /\ Shown /\ Shown'
  BY DEF HandleDelivery, Show, Shown, SystemInv
<1>2. \/ UNCHANGED H!AbstractNotification!notificationVars
      \/ \E e \in Deliveries : H!AbstractNotification!Work(e)
      \/ /\ \E e \in Deliveries :
              \/ H!AbstractNotification!Try(e) \/ H!AbstractNotification!Fail(e)
              \/ H!AbstractNotification!Settle(e) \/ H!AbstractNotification!Bury(e)
         /\ UNCHANGED <<[e \in Deliveries |-> dSent[e] > 0],
                        [e \in Deliveries |-> "EXPIRED" \in dVersions[e]], dStatus>>
  BY <1>1, H!HandlerWorkStep DEF SystemInv, DeliveryAssumption
<1>3. ASSUME UNCHANGED H!AbstractNotification!notificationVars
      PROVE  UNCHANGED pipelineVars
  <2>1. UNCHANGED <<[e \in Deliveries |-> H!PhaseOf(e)], dDequeueCount,
                    [e \in Deliveries |-> dSent[e] > 0],
                    [e \in Deliveries |-> "EXPIRED" \in dVersions[e]], dStatus>>
    BY <1>3 DEF H!AbstractNotification!notificationVars, H!AbstractNotification!vars
  <2>2. UNCHANGED deliveryVars
    BY <1>1, <2>1 DEF Shown, deliveryVars
  <2> QED
    BY <1>1, <2>2 DEF pipelineVars
<1>4. ASSUME NEW e \in Deliveries, H!AbstractNotification!Work(e)
      PROVE  PipelineNext
  BY <1>1, <1>4, ShownWork DEF PipelineNext, DeliveryWork
<1>5. ASSUME NEW e \in Deliveries,
             \/ H!AbstractNotification!Try(e) \/ H!AbstractNotification!Fail(e)
             \/ H!AbstractNotification!Settle(e) \/ H!AbstractNotification!Bury(e),
             UNCHANGED <<[x \in Deliveries |-> dSent[x] > 0],
                         [x \in Deliveries |-> "EXPIRED" \in dVersions[x]], dStatus>>
      PROVE  PipelineNext
  <2>1. UNCHANGED <<reached, silent, channelStatus>>
    BY <1>1, <1>5 DEF Shown
  <2> QED
    BY <1>1, <1>5, <2>1, ShownTry DEF PipelineNext, DeliveryStep
<1>6. H!Next
  BY <1>1 DEF H!Next
<1>7. \A e \in Deliveries : dVisibility'[e] = "absent" <=> dVisibility[e] = "absent"
  BY <1>1, H!NotSentByHandler DEF SystemInv, DeliveryAssumption
<1> QED
  BY <1>2, <1>3, <1>4, <1>5, <1>6, <1>7

\* An event that is put on its queue is one that was not sent before.
LEMMA NotifyHandlerStep ==
  ASSUME DeliveryAssumption, SystemInv, NEW m \in Msgs, NEW n \in Attempts,
         NEW c \in Channels, NotifyHandler(m, n, c)
  PROVE  Notify(m, n, c) /\ H!Next /\ Shown' /\ SentInv'
<1> DEFINE e == [msg |-> m, id |-> n, channel |-> c]
<1>1. /\ e \in Deliveries /\ e.msg = m /\ Event(e) = [id |-> n, channel |-> c]
      /\ \A d \in Deliveries : d.msg = m /\ Event(d) = [id |-> n, channel |-> c] => d = e
  BY DEF Deliveries, Event
<1>2. /\ dVisibility[e] = "absent"
      /\ dVisibility' = [dVisibility EXCEPT ![e] = "visible"]
      /\ UNCHANGED <<dDequeueCount, dPoisoned, dSent, dVersions, dStatus, get>>
      /\ FlushOutput(m, n, c) /\ Shown /\ Shown'
  BY DEF NotifyHandler, H!Send, H!Enqueue, H!ownVars, Show, Shown, SystemInv
<1> HIDE DEF e
<1>3. /\ dPoisoned[e] = 0
      /\ dVisibility \in [Deliveries -> H!Visibility]
  <2>1. H!PoisonedOnce /\ H!QueueTypeOK
    BY DEF SystemInv, H!HandlerInv, H!QueueInv
  <2>2. dPoisoned[e] \in Nat /\ dPoisoned[e] <= 1 /\ dPoisoned[e] # 1
    BY <1>1, <1>2, <2>1 DEF H!PoisonedOnce, H!QueueTypeOK
  <2>3. dPoisoned[e] = 0
    BY <2>2
  <2> QED
    BY <2>1, <2>3 DEF H!QueueTypeOK
<1>4. phase[e] = "unsent" /\ phase' = [phase EXCEPT ![e] = "waiting"]
  <2>1. phase[e] = "unsent" /\ H!PhaseOf(e)' = "waiting"
    BY <1>1, <1>2, <1>3 DEF Shown, H!PhaseOf, H!PhaseName
  <2>2. \A d \in Deliveries : d # e => H!PhaseOf(d)' = H!PhaseOf(d)
    BY <1>2, <1>3 DEF H!PhaseOf
  <2> QED
    BY <1>2, <2>1, <2>2 DEF Shown
<1>5. UNCHANGED <<tries, reached, silent, channelStatus>>
  BY <1>2 DEF Shown
<1>6. Notify(m, n, c)
  BY <1>2, <1>4, <1>5 DEF Notify, N!Send, N!Move, e
<1>7. H!Next
  BY <1>1 DEF NotifyHandler, H!Next, e
<1>8. SentInv'
  <2>1. queued' = [queued EXCEPT ![m] = @ \cup {[id |-> n, channel |-> c]}]
    BY <1>2 DEF FlushOutput
  <2>2. queued \in [Msgs -> SUBSET [id : Attempts, channel : Channels]]
    BY DEF SystemInv, PipelineInv, CreatedInv, TypeOK
  <2> SUFFICES ASSUME NEW d \in Deliveries
               PROVE  Event(d) \in queued'[d.msg] <=> dVisibility'[d] # "absent"
    BY DEF SentInv, Event
  <2>3. d.msg \in Msgs
    BY DEF Deliveries
  <2>4. CASE d = e
    BY <1>1, <1>2, <1>3, <2>1, <2>2, <2>4
  <2>5. CASE d # e
    <3>1. Event(d) \in queued'[d.msg] <=> Event(d) \in queued[d.msg]
      BY <1>1, <2>1, <2>2, <2>3, <2>5
    <3>2. dVisibility'[d] = dVisibility[d]
      BY <1>2, <1>3, <2>5
    <3> QED
      BY <3>1, <3>2 DEF SystemInv, SentInv
  <2> QED
    BY <2>4, <2>5
<1> QED
  BY <1>2, <1>6, <1>7, <1>8

\* Every step of the system is one of the pipeline, and one of the handlers or none.
LEMMA SystemStep ==
  ASSUME DeliveryAssumption, SystemInv, [SystemNext]_systemVars
  PROVE  /\ [PipelineNext]_pipelineVars
         /\ [H!Next]_(H!vars)
         /\ Shown' /\ SentInv'
<1>1. ASSUME UNCHANGED handlerVars, UNCHANGED deliveryVars, queued' = queued
      PROVE  [H!Next]_(H!vars) /\ Shown' /\ SentInv'
  <2>1. UNCHANGED H!vars
    BY <1>1 DEF handlerVars, H!vars, H!queueVars, H!ownVars, H!input
  <2>2. \A d \in Deliveries : H!PhaseOf(d)' = H!PhaseOf(d)
    BY <1>1 DEF handlerVars, H!PhaseOf
  <2>3. Shown'
    BY <1>1, <2>2 DEF handlerVars, deliveryVars, SystemInv, Shown
  <2>4. SentInv'
    BY <1>1 DEF handlerVars, SystemInv, SentInv, Event
  <2> QED
    BY <2>1, <2>3, <2>4
<1>2. ASSUME NEW m \in Msgs, Process(m), UNCHANGED handlerVars
      PROVE  PipelineNext /\ UNCHANGED deliveryVars /\ queued' = queued
  BY <1>2, QueuedKept DEF Process, PipelineNext
<1>3. ASSUME NEW r \in Readers, GetMessage(r)
      PROVE  PipelineNext /\ UNCHANGED deliveryVars /\ queued' = queued
  <2>1. UNCHANGED <<vars, deliveryVars>>
    BY <1>3 DEF GetMessage, ReadMessage, ReadContent, ReadNotification, ReadChannels,
       ReadStatus
  <2> QED
    BY <1>3, <2>1, QueuedKept DEF PipelineNext
<1>4. ASSUME Environment
      PROVE  PipelineNext /\ UNCHANGED deliveryVars /\ queued' = queued
  BY <1>4, QueuedKept DEF Environment, PipelineNext
<1>5. ASSUME NEW m \in Msgs, NEW n \in Attempts, NEW c \in Channels, NotifyHandler(m, n, c)
      PROVE  PipelineNext /\ H!Next /\ Shown' /\ SentInv'
  BY <1>5, NotifyHandlerStep DEF PipelineNext
<1>6. ASSUME NEW d \in Deliveries, HandleDelivery(d)
      PROVE  [PipelineNext]_pipelineVars /\ H!Next /\ Shown' /\ SentInv'
  <2>1. Shown' /\ queued' = queued
    BY <1>6 DEF HandleDelivery, Show, Shown, vars, ownVars, store
  <2> QED
    BY <1>6, <2>1, HandleDeliveryStep DEF SystemInv, SentInv, Event
<1>7. CASE UNCHANGED systemVars
  <2>1. UNCHANGED <<handlerVars, deliveryVars, vars, pipelineVars>>
    BY <1>7 DEF systemVars, pipelineVars
  <2> QED
    BY <1>1, <2>1, QueuedKept
<1> QED
  BY <1>1, <1>2, <1>3, <1>4, <1>5, <1>6, <1>7 DEF SystemNext

LEMMA SystemInvStep ==
  ASSUME DeliveryAssumption, SystemInv, [SystemNext]_systemVars
  PROVE  SystemInv'
<1>1. /\ [PipelineNext]_pipelineVars
      /\ [H!Next]_(H!vars)
      /\ Shown' /\ SentInv'
  BY SystemStep
<1>2. PipelineInv'
  BY <1>1, PipelineInvStep DEF SystemInv
<1>3. H!HandlerInv'
  BY <1>1, H!HandlerInvStep DEF SystemInv, DeliveryAssumption
<1>4. UNCHANGED <<dChannel, dFormat>>
  BY <1>1, H!InputKept DEF DeliveryAssumption, H!input
<1> QED
  BY <1>1, <1>2, <1>3, <1>4 DEF SystemInv

LEMMA SystemInvInit ==
  ASSUME DeliveryAssumption, SystemInit
  PROVE  SystemInv
<1>1. PipelineInv
  BY PipelineInvInit DEF SystemInit
<1>2. H!HandlerInv
  BY H!HandlerInvInit DEF SystemInit, DeliveryAssumption
<1>3. Shown
  <2>1. \A d \in Deliveries : /\ H!PhaseOf(d) = "unsent"
                             /\ (dSent[d] > 0) = FALSE
                             /\ ("EXPIRED" \in dVersions[d]) = FALSE
    BY DEF SystemInit, H!Init, H!QueueInit, H!PhaseOf, H!PhaseName
  <2>2. /\ phase = [d \in Deliveries |-> "unsent"] /\ tries = dDequeueCount
        /\ reached = [d \in Deliveries |-> FALSE] /\ silent = [d \in Deliveries |-> FALSE]
        /\ channelStatus = dStatus
    BY DEF SystemInit, PipelineInit, N!NotificationInit, N!Init, H!Init, H!QueueInit
  <2> QED
    BY <2>1, <2>2, Zenon DEF Shown
<1>4. SentInv
  BY DEF SystemInit, PipelineInit, Init, H!Init, H!QueueInit, SentInv, Event, Deliveries
<1>5. \A d \in Deliveries : dChannel[d] = d.channel /\ dFormat[d] # "badEvent"
  BY DEF SystemInit
<1> QED
  BY <1>1, <1>2, <1>3, <1>4, <1>5 DEF SystemInv

LEMMA SystemInvariant ==
  ASSUME DeliveryAssumption
  PROVE  SystemSpec => []SystemInv
BY SystemInvInit, SystemInvStep, PTL DEF SystemSpec

-----------------------------------------------------------------------------
(* The theorems about MessageSystem.                                       *)

\* In the whole system the notification handlers may be taken for what they
\* promise: see ImplementsPipeline.
THEOREM SystemImplementsPipeline ==
  ASSUME DeliveryAssumption
  PROVE  SystemSpec => ImplementsPipeline
<1>1. SystemInit => PipelineInit
  BY DEF SystemInit
<1>2. SystemInv /\ [SystemNext]_systemVars => [PipelineNext]_pipelineVars
  BY SystemStep
<1> QED
  BY <1>1, <1>2, SystemInvariant, PTL DEF SystemSpec, ImplementsPipeline, PipelineSpec

\* So whatever a client reads of a message or was promised of it is true in the whole
\* system as well, and whoever the handlers really reached can read it.
THEOREM SystemKeepsPromises ==
  ASSUME DeliveryAssumption
  PROVE  SystemSpec => [](ReachedCanRead /\ PromisedIsReadable /\ ReplyTellsTruth)
BY SystemImplementsPipeline, ReachedCanReadCorrect, PromisedIsReadableCorrect,
   ReplyTellsTruthCorrect, PTL DEF ImplementsPipeline

\* If nothing gets lost, nobody is notified twice of one message on one channel, by
\* retries of either handler: see ReachedOnce.
THEOREM ReachedOnceCorrect ==
  ASSUME DeliveryAssumption
  PROVE  SystemSpec => []ReachedOnce
<1>1. SystemInv => ReachedOnce
  <2> SUFFICES ASSUME SystemInv, NEW d \in Deliveries, NEW e \in Deliveries,
                      NothingLost(d.msg), d.msg = e.msg, d.channel = e.channel,
                      reached[d], reached[e]
               PROVE  d = e /\ dSent[d] = 1
    BY DEF ReachedOnce
  <2>1. /\ d.msg \in Msgs /\ ~glitch[d.msg] /\ ~dGlitch[d]
        /\ Event(d) \in queued[d.msg] /\ Event(e) \in queued[d.msg]
    BY DEF Deliveries, NothingLost, SystemInv, PipelineInv, DeliveryInv
  <2>2. PICK x \in notifications[d.msg] : x.id = d.id
    BY <2>1, QueuedCanRead DEF SystemInv, PipelineInv, NotifiedCanRead, Event
  <2>3. PICK y \in notifications[d.msg] : y.id = e.id
    BY <2>1, QueuedCanRead DEF SystemInv, PipelineInv, NotifiedCanRead, Event
  <2>4. d.id = e.id
    BY <2>1, <2>2, <2>3 DEF SystemInv, PipelineInv, CreatedInv, OnceInv
  <2>5. d = e
    BY <2>4 DEF Deliveries
  <2>6. dSent[d] > 0
    BY DEF SystemInv, Shown
  <2>7. dSent[d] = 1
    BY <2>1, <2>6 DEF SystemInv, H!HandlerInv, H!MessageInv, H!OnceInv
  <2> QED
    BY <2>5, <2>7
<1> QED
  BY <1>1, SystemInvariant, PTL

\* Nothing is lost on the way from the one queue to the other: see NobodyForgotten.
THEOREM NobodyForgottenCorrect ==
  ASSUME DeliveryAssumption
  PROVE  SystemSpec => []NobodyForgotten
<1>1. SystemInv => NobodyForgotten
  <2> SUFFICES ASSUME SystemInv, NEW m \in Msgs, Settled(m, "ok"),
                      NEW x \in notifications[m], x.id = dequeueCount[m],
                      NEW c \in x.channels, NEW d, d = [msg |-> m, id |-> x.id, channel |-> c]
               PROVE  /\ dVisibility[d] # "absent"
                      /\ dVisibility[d] = "gone" =>
                           \/ dSent[d] > 0
                           \/ dVersions[d] \cap {"EXPIRED", "FAILED"} # {}
                           \/ dPoisoned[d] > 0
                           \/ dDequeueCount[d] > DeliveryRetries
    BY DEF NobodyForgotten
  <2>1. d \in Deliveries /\ d.msg = m /\ Event(d) = [id |-> x.id, channel |-> c]
    BY DEF SystemInv, PipelineInv, CreatedInv, TypeOK, Deliveries, Event
  <2>2. Event(d) \in queued[m]
    BY <2>1, HandledCompletely
       DEF SystemInv, PipelineInv, DecodesInv, Settled, SettledIsComplete
  <2>3. dVisibility[d] # "absent"
    BY <2>1, <2>2 DEF SystemInv, SentInv
  <2>4. ASSUME dVisibility[d] = "gone", ~(dPoisoned[d] > 0),
               ~(dDequeueCount[d] > DeliveryRetries)
        PROVE  dSent[d] > 0 \/ dVersions[d] \cap {"EXPIRED", "FAILED"} # {}
    <3>1. H!HandlerInv /\ H!MessageInv(d) /\ dFormat[d] # "badEvent" /\ dPoisoned[d] = 0
      BY <2>1, <2>4 DEF SystemInv, H!HandlerInv, H!TypeOK, H!QueueTypeOK
    <3>2. dOutcome[d][dDequeueCount[d]] \in {"ok", "permanent"}
      BY <2>1, <2>4, <3>1 DEF H!HandlerInv, H!QueueInv, H!NeverLost
    <3>3. \/ dVersions[d] \cap {"SENT", "EXPIRED"} # {}
          \/ "FAILED" \in dVersions[d]
      BY <2>4, <3>1, <3>2 DEF H!MessageInv, H!EndInv, H!OnRecord
    <3>4. "SENT" \in dVersions[d] => dSent[d] > 0
      BY <3>1 DEF H!MessageInv, H!SentInv
    <3> QED
      BY <3>3, <3>4
  <2> QED
    BY <2>3, <2>4
<1> QED
  BY <1>1, SystemInvariant, PTL

\* The recipient's choices count all the way to the delivery: see ReachedAsChosen.
THEOREM ReachedAsChosenCorrect ==
  ASSUME DeliveryAssumption
  PROVE  SystemSpec => []ReachedAsChosen
<1>1. SystemInv => ReachedAsChosen
  <2> SUFFICES ASSUME SystemInv, NEW d \in Deliveries, reached[d]
               PROVE  \E p \in pastProfiles :
                        /\ p.exists /\ p.inbox /\ p.blocked \cap {"INBOX", d.channel} = {}
                        /\ d.channel = "WEBHOOK" => p.webhook
                        /\ d.channel = "EMAIL" => p.email \/ defaultEmail[d.msg]
    BY DEF ReachedAsChosen
  <2>1. Event(d) \in queued[d.msg] /\ d.msg \in Msgs
    BY DEF SystemInv, PipelineInv, DeliveryInv, Deliveries
  <2>2. ChoicesRespected
    BY QueuedAsChosen DEF SystemInv, PipelineInv
  <2>3. Event(d).channel = d.channel
    BY DEF Event
  <2> QED
    BY <2>1, <2>2, <2>3 DEF ChoicesRespected
<1> QED
  BY <1>1, SystemInvariant, PTL

-----------------------------------------------------------------------------
(* MessageService: the requests, with the system behind them.              *)

ServiceInv == SystemInv /\ ApiInv

\* A request either leaves the system alone or puts an event that decodes on the queue.
LEMMA RequestIsSystemStep ==
  ASSUME ApiInv, NEW m \in Msgs, Request(m)
  PROVE  [SystemNext]_systemVars /\ [ApiNext]_allVars
<1>1. /\ AskProfile(m) \/ Post(m) \/ CrashRequest(m)
      /\ UNCHANGED <<deliveryVars, handlerVars, get>>
  BY DEF Request
<1>2. UNCHANGED vars \/ (binding[m] /\ Send(m))
  BY <1>1 DEF AskProfile, Post, CheckRequest, CreateMessage, PrepareEvent, FlushEvent, Respond,
     CrashRequest
<1>3. UNCHANGED vars => UNCHANGED systemVars
  BY <1>1 DEF systemVars, pipelineVars
<1>4. ASSUME binding[m], Send(m)
      PROVE  SystemNext
  <2>1. wellFormed[m]
    BY <1>4 DEF ApiInv, PostInv
  <2>2. Environment
    BY <1>1, <1>4, <2>1 DEF Environment
  <2> QED
    BY <1>1, <2>2 DEF SystemNext
<1> QED
  BY <1>1, <1>2, <1>3, <1>4 DEF ApiNext

\* Every step of the service is one of the system, or none, and one of the API, or none.
LEMMA ServiceStep ==
  ASSUME ApiInv, [ServiceNext]_serviceVars
  PROVE  [SystemNext]_systemVars /\ [ApiNext]_allVars
<1>1. CASE UNCHANGED serviceVars
  BY <1>1 DEF serviceVars, systemVars, pipelineVars, allVars
<1>2. ASSUME NEW m \in Msgs, Process(m), UNCHANGED <<handlerVars, apiVars>>
      PROVE  SystemNext /\ ApiNext
  <2>1. ApiProcess(m)
    BY <1>2 DEF Process, ApiProcess
  <2> QED
    BY <1>2, <2>1 DEF SystemNext, ApiNext
<1>3. ASSUME NEW m \in Msgs, NEW n \in Attempts, NEW c \in Channels,
             NotifyHandler(m, n, c), UNCHANGED apiVars
      PROVE  SystemNext /\ ApiNext
  <2>1. ApiProcess(m)
    BY <1>3 DEF NotifyHandler, ApiProcess
  <2> QED
    BY <1>3, <2>1 DEF SystemNext, ApiNext
<1>4. ASSUME NEW d \in Deliveries, HandleDelivery(d), UNCHANGED apiVars
      PROVE  SystemNext /\ UNCHANGED allVars
  BY <1>4 DEF SystemNext, HandleDelivery, allVars
<1>5. ASSUME NEW r \in Readers, GetStored(r)
      PROVE  SystemNext /\ UNCHANGED allVars
  <2>1. GetMessage(r) /\ UNCHANGED <<handlerVars, apiVars>>
    BY <1>5 DEF GetStored
  <2>2. UNCHANGED vars
    BY <2>1 DEF GetMessage, ReadMessage, ReadContent, ReadNotification, ReadChannels, ReadStatus
  <2> QED
    BY <2>1, <2>2 DEF SystemNext, allVars
<1>6. ASSUME Disturb
      PROVE  SystemNext /\ ApiNext
  <2>1. Environment /\ ApiEnvironment /\ UNCHANGED handlerVars
    BY <1>6 DEF Disturb, Environment, ApiEnvironment
  <2> QED
    BY <2>1 DEF SystemNext, ApiNext
<1> QED
  BY <1>1, <1>2, <1>3, <1>4, <1>5, <1>6, RequestIsSystemStep DEF ServiceNext

LEMMA ServiceInvariant ==
  ASSUME DeliveryAssumption
  PROVE  ServiceSpec => []ServiceInv
<1>1. ServiceInit => ServiceInv
  BY SystemInvInit, ApiInvInit DEF ServiceInit, ServiceInv
<1>2. ServiceInv /\ [ServiceNext]_serviceVars => ServiceInv'
  BY ServiceStep, SystemInvStep, ApiInvStep DEF ServiceInv
<1> QED
  BY <1>1, <1>2, PTL DEF ServiceSpec

\* The requests do to the system no more than MessagePipeline expects of its
\* environment: see ImplementsSystem.
THEOREM ServiceImplementsSystem ==
  ASSUME DeliveryAssumption
  PROVE  ServiceSpec => ImplementsSystem
<1>1. ServiceInit => SystemInit
  BY DEF ServiceInit
<1>2. ServiceInv /\ [ServiceNext]_serviceVars => [SystemNext]_systemVars
  BY ServiceStep DEF ServiceInv
<1> QED
  BY <1>1, <1>2, ServiceInvariant, PTL DEF ServiceSpec, ImplementsSystem, SystemSpec

\* What comes after the handler of the created messages does not disturb the requests:
\* see ImplementsApi.
THEOREM ServiceImplementsApi ==
  ASSUME DeliveryAssumption
  PROVE  ServiceSpec => ImplementsApi
<1>1. ServiceInit => ApiInit
  BY DEF ServiceInit
<1>2. ServiceInv /\ [ServiceNext]_serviceVars => [ApiNext]_allVars
  BY ServiceStep DEF ServiceInv
<1> QED
  BY <1>1, <1>2, ServiceInvariant, PTL DEF ServiceSpec, ImplementsApi, ApiSpec

\* So all that was proved of the parts is true of the whole.
THEOREM ServiceKeepsPromises ==
  ASSUME DeliveryAssumption
  PROVE  ServiceSpec => [](/\ ReachedCanRead /\ PromisedIsReadable /\ ReplyTellsTruth
                           /\ ReachedOnce /\ NobodyForgotten /\ ReachedAsChosen
                           /\ ToldIsTrue /\ RefusedIsInvisible)
BY ServiceImplementsSystem, ServiceImplementsApi, SystemKeepsPromises, ReachedOnceCorrect,
   NobodyForgottenCorrect, ReachedAsChosenCorrect, ToldIsTrueCorrect,
   RefusedIsInvisibleCorrect, PTL DEF ImplementsSystem, ImplementsApi

\* A notification was stored, and its message was queued, before an event is queued.
LEMMA QueuedIsVisible ==
  ASSUME CreatedInv, NEW d \in Deliveries, Event(d) \in queued[d.msg]
  PROVE  ~pending[d.msg] /\ notifications[d.msg] # {}
<1>1. d.msg \in Msgs
  BY DEF Deliveries
<1> QED
  BY <1>1, QueuedCanRead DEF NotifiedCanRead, Event

\* An error of CreateMessageHandler is final, wherever one looks: see
\* RefusedIsNeverShown.
THEOREM RefusedIsNeverShownCorrect ==
  ASSUME DeliveryAssumption
  PROVE  ServiceSpec => []RefusedIsNeverShown
<1>1. ServiceInv => RefusedIsNeverShown
  <2> SUFFICES ASSUME ServiceInv, NEW m \in Msgs,
                      response[m] \in {"forbidden", "invalid", "queryError"}
               PROVE  /\ m \notin ListMessages \cup Reported
                      /\ \A d \in Deliveries : d.msg = m =>
                           dVisibility[d] = "absent" /\ ~reached[d]
                      /\ \A r \in Readers : get[r].msg = m =>
                           ~get[r].promised /\ get[r].id = 0
    BY DEF RefusedIsNeverShown
  <2> USE DEF ServiceInv, SystemInv, PipelineInv
  <2>1. pending[m]
    BY DEF ApiInv, PostInv, AbsentInv
  <2>2. notifications[m] = {}
    BY <2>1 DEF CreatedInv, StoreInv, NotificationInv
  <2>3. m \notin ListMessages \cup Reported
    BY <2>1, PromisedIsVisible
  <2>4. ASSUME NEW d \in Deliveries, d.msg = m
        PROVE  dVisibility[d] = "absent" /\ ~reached[d]
    <3>1. Event(d) \notin queued[d.msg]
      BY <2>1, <2>4, QueuedIsVisible
    <3> QED
      BY <3>1 DEF SentInv, DeliveryInv
  <2>5. ASSUME NEW r \in Readers, get[r].msg = m
        PROVE  ~get[r].promised /\ get[r].id = 0
    BY <2>1, <2>2, <2>5 DEF GetInv
  <2> QED
    BY <2>3, <2>4, <2>5
<1> QED
  BY <1>1, ServiceInvariant, PTL

\* Nobody is notified of a message that is not on record or was announced to be
\* unwelcome: see ReachedWasWelcome.
THEOREM ReachedWasWelcomeCorrect ==
  ASSUME DeliveryAssumption
  PROVE  ServiceSpec => []ReachedWasWelcome
<1>1. ServiceInv => ReachedWasWelcome
  <2> SUFFICES ASSUME ServiceInv, NEW d \in Deliveries, reached[d]
               PROVE  /\ stored[d.msg]
                      /\ told[d.msg] \in {"notFound", "blocked"} =>
                           \E p, q \in pastProfiles :
                             TellProfile(p) = told[d.msg] /\ TellProfile(q) = "allowed"
    BY DEF ReachedWasWelcome
  <2>1. d.msg \in Msgs /\ ~pending[d.msg]
    BY QueuedIsVisible DEF ServiceInv, SystemInv, PipelineInv, DeliveryInv, Deliveries
  <2>2. stored[d.msg]
    BY <2>1 DEF ServiceInv, ApiInv, AbsentInv, PostInv
  <2>3. PICK q \in pastProfiles : Accepts(q)
    BY <2>1 DEF ServiceInv, ApiInv, CreatedInv, StoreInv, VisibleInv
  <2>4. TellProfile(q) = "allowed"
    BY <2>3 DEF Accepts, TellProfile, IsSenderAllowed
  <2>5. ASSUME told[d.msg] \in {"notFound", "blocked"}
        PROVE  \E p \in pastProfiles : TellProfile(p) = told[d.msg]
    BY <2>1, <2>5 DEF ServiceInv, ApiInv, ToldInv
  <2> QED
    BY <2>2, <2>4, <2>5
<1> QED
  BY <1>1, ServiceInvariant, PTL

\* A client can count on "created": see CreatedIsNotLost.
THEOREM CreatedIsNotLostCorrect ==
  ASSUME DeliveryAssumption
  PROVE  ServiceSpec => []CreatedIsNotLost
<1>1. ServiceInv => CreatedIsNotLost
  <2> SUFFICES ASSUME ServiceInv, NEW m \in Msgs, response[m] = "created"
               PROVE  /\ stored[m] /\ visibility[m] # "absent"
                      /\ visibility[m] = "gone" /\ (\A n \in Attempts : ~Running(m, n)) =>
                           \/ versions[m] \cap {"REJECTED", "FAILED"} # {}
                           \/ poisoned[m] > 0
                           \/ Settled(m, "transient") /\ dequeueCount[m] > MaxRetries
                           \/ Settled(m, "ok") /\ content[m] /\ ~pending[m]
                                /\ SenderServices # {}
    BY DEF CreatedIsNotLost
  <2> USE DEF ServiceInv, ApiInv, CreatedInv
  <2>1. stored[m] /\ wellFormed[m] /\ visibility[m] # "absent"
    BY DEF PostInv
  <2>2. ASSUME visibility[m] = "gone", \A n \in Attempts : ~Running(m, n),
               ~(poisoned[m] > 0)
        PROVE  \/ versions[m] \cap {"REJECTED", "FAILED"} # {}
               \/ Settled(m, "transient") /\ dequeueCount[m] > MaxRetries
               \/ Settled(m, "ok") /\ content[m] /\ ~pending[m] /\ SenderServices # {}
    <3>1. poisoned[m] = 0
      BY <2>2 DEF QueueInv, QueueTypeOK
    <3>2. \/ Settled(m, "ok") \/ Settled(m, "permanent")
          \/ Settled(m, "transient") /\ dequeueCount[m] > MaxRetries
      BY <2>2, <3>1 DEF QueueInv, NeverLost, Settled
    <3> QED
      BY <2>1, <3>2, HandledCompletely DEF SettledIsComplete
  <2> QED
    BY <2>1, <2>2
<1> QED
  BY <1>1, ServiceInvariant, PTL
=============================================================================
