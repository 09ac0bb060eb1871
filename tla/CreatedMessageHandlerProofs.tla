-------------------- MODULE CreatedMessageHandlerProofs --------------------
(***************************************************************************)
(* Proofs about CreatedMessageHandler for every set of messages and        *)
(* profiles, and every MaxDequeueCount and MaxRetries as in QueueDelivery. *)
(*                                                                         *)
(* What is stored only ever grows, so that what a step of the handler      *)
(* relies on stays true while it waits: that is StoreInv, and it holds     *)
(* however the attempts overlap.  That a message left the queue completely *)
(* handled, or notified only once, needs QueueInv besides: an attempt at   *)
(* work is the only one of its message.                                    *)
(***************************************************************************)
EXTENDS CreatedMessageHandler, QueueDeliveryProofs, FiniteSetTheorems

\* Some profile of the recipient accepted messages and allowed channel c for m.
Allowed(m, c) == \E p \in pastProfiles : Accepts(p) /\ c \in AllowedChannels(p, m)

\* Attempt n has stored a notification with channel c.
Notified(m, n, c) == \E x \in notifications[m] : x.id = n /\ c \in x.channels

\* An attempt that goes on has read a profile that accepts the message.
AcceptedInv(m) ==
  \A n \in Attempts :
    step[m][n] # "start" => seen[m][n] \in pastProfiles /\ Accepts(seen[m][n])

\* What the steps of an attempt have left behind.
ProgressInv(m) ==
  \A n \in Attempts :
    /\ step[m][n] \in {"stored", "visible", "recorded", "done"} => content[m]
    /\ step[m][n] \in {"visible", "recorded", "done"} => ~pending[m]
    /\ step[m][n] \in {"recorded", "done"} => senderService # "none"

VisibleInv(m) == ~pending[m] => content[m] /\ \E p \in pastProfiles : Accepts(p)

NotificationInv(m) ==
  \A x \in notifications[m] :
    ~pending[m] /\ senderService # "none" /\ \A c \in x.channels : Allowed(m, c)

\* What goes out is in a stored notification.
OutputInv(m) ==
  /\ \A n \in Attempts : \A c \in outputs[m][n] : Notified(m, n, c)
  /\ \A e \in queued[m] : Notified(m, e.id, e.channel)

RefusedInv(m) ==
  (\E n \in Attempts : refused[m][n]) \/ "REJECTED" \in versions[m] =>
    \E p \in pastProfiles : ~Accepts(p)

StoreInv(m) == /\ AcceptedInv(m)
               /\ ProgressInv(m)
               /\ VisibleInv(m)
               /\ NotificationInv(m)
               /\ OutputInv(m)
               /\ RefusedInv(m)

SenderInv == senderService # "none" => ~pending[senderService]

\* How attempt n has dealt with the message, once it returns.
OnRecord(m, n) ==
  wellFormed[m] =>
    /\ outcome[m][n] = "permanent" => versions[m] \cap {"REJECTED", "FAILED"} # {}
    /\ outcome[m][n] = "ok" =>
         /\ step[m][n] = "done"
         /\ \A x \in notifications[m] : x.id = n =>
              \A c \in x.channels : c \in outputs[m][n] \/ [id |-> n, channel |-> c] \in queued[m]

\* An attempt returns, and a message leaves the queue, with everything on record.
EndInv(m) ==
  /\ \A n \in Attempts : pc[m][n] = "return" => OnRecord(m, n)
  /\ visibility[m] = "gone" /\ poisoned[m] = 0 =>
       /\ dequeueCount[m] \in Attempts
       /\ OnRecord(m, dequeueCount[m]) /\ outputs[m][dequeueCount[m]] = {}

\* If nothing failed, a message with a notification is on its way out of the queue, and
\* the notification is the one of its last attempt.
OnceInv(m) ==
  ~glitch[m] /\ notifications[m] # {} =>
    /\ \A x, y \in notifications[m] : x = y
    /\ \A x \in notifications[m] : x.id = dequeueCount[m]
    /\ \/ visibility[m] = "gone"
       \/ \E n \in Attempts : At(m, n, "done") \/ pc[m][n] = "return"

CreatedInv == /\ QueueInv
              /\ TypeOK
              /\ SenderInv
              /\ \A m \in Msgs : StoreInv(m) /\ EndInv(m) /\ OnceInv(m)

-----------------------------------------------------------------------------
(* The steps of the handler are steps of the queue.                        *)

LEMMA IndexIsQueueStep ==
  ASSUME NEW m \in Msgs, NEW n \in Attempts, Index(m, n)
  PROVE  UNCHANGED queueVars \/ Handler(m, n) \/ HandleQueueProcessingFailure(m, n)
BY DEF Handler, Outcome, Index, DropBadEvent, HandleMessage, FindProfile,
   AttachStoredContent, MakeVisible, SaveSenderService, SkipNotification,
   CreateNotification, Write, GoStep, FailTransiently, RecordProcessed, ThrowUnexpected,
   SetVisibility, RecordThrottled, RecordRejected, HandleQueueProcessingFailure

LEMMA HandlerStepIsQueueStep == [Next]_vars => [QueueNext]_queueVars
<1> SUFFICES ASSUME [Next]_vars
             PROVE  [QueueNext]_queueVars
  OBVIOUS
<1>1. CASE UNCHANGED vars \/ ChangeProfile
  BY <1>1 DEF vars, ChangeProfile
<1>2. ASSUME NEW m \in Msgs, Send(m) \/ HostStep(m)
      PROVE  [QueueNext]_queueVars
  BY <1>2 DEF Send, HostStep, QueueNext
<1>3. ASSUME NEW m \in Msgs, NEW n \in Attempts,
             \/ EndAttempt(m, n) \/ CrashAttempt(m, n)
             \/ \E c \in Channels : FlushOutput(m, n, c)
      PROVE  [QueueNext]_queueVars
  BY <1>3 DEF EndAttempt, CrashAttempt, FlushOutput, QueueNext
<1> QED
  BY <1>1, <1>2, <1>3, IndexIsQueueStep DEF Next, QueueNext

-----------------------------------------------------------------------------
(* Types.                                                                  *)

\* What a write comes to.
LEMMA WriteCases ==
  ASSUME NEW m \in Msgs, NEW n \in Attempts, NEW next \in HandlerStep,
         NEW ACTION effect, NEW ACTION nothing, Write(m, n, next, effect, nothing)
  PROVE  /\ effect \/ nothing
         /\ \/ effect /\ GoStep(m, n, next) /\ UNCHANGED glitch
            \/ FailTransiently(m, n)
BY DEF Write

LEMMA StepType ==
  ASSUME TypeOK, NEW m \in Msgs, NEW n \in Attempts, NEW s \in HandlerStep,
         GoStep(m, n, s) \/ UNCHANGED step
  PROVE  step' \in [Msgs -> [Attempts -> HandlerStep]]
<1>1. CASE GoStep(m, n, s)
  BY <1>1 DEF GoStep, TypeOK
<1>2. CASE UNCHANGED step
  BY <1>2 DEF TypeOK
<1> QED
  BY <1>1, <1>2

LEMMA GlitchType ==
  ASSUME TypeOK, NEW m \in Msgs, glitch' = [glitch EXCEPT ![m] = TRUE] \/ UNCHANGED glitch
  PROVE  glitch' \in [Msgs -> BOOLEAN]
BY DEF TypeOK

LEMMA StatusType ==
  ASSUME TypeOK, NEW m \in Msgs, NEW value \in Status,
         SaveStatus(m, value) \/ NoStatusSaved
  PROVE  versions' \in [Msgs -> SUBSET Status] /\ status' \in [Msgs -> Status \cup {"none"}]
<1>1. versions \in [Msgs -> SUBSET Status] /\ status \in [Msgs -> Status \cup {"none"}]
  BY DEF TypeOK
<1>2. CASE SaveStatus(m, value)
  <2>1. versions[m] \cup {value} \in SUBSET Status
    BY <1>1
  <2>2. /\ versions' = [versions EXCEPT ![m] = versions[m] \cup {value}]
        /\ status' = [status EXCEPT ![m] = value]
    BY <1>2 DEF SaveStatus
  <2> QED
    BY <1>1, <2>1, <2>2
<1>3. CASE NoStatusSaved
  BY <1>1, <1>3 DEF NoStatusSaved
<1> QED
  BY <1>2, <1>3

LEMMA NewNotificationType ==
  ASSUME NEW m \in Msgs, NEW n \in Attempts
  PROVE  NewNotification(m, n) \in [id : Attempts, channels : SUBSET Channels]
<1>1. AllowedChannels(seen[m][n], m) \in SUBSET Channels
  BY DEF AllowedChannels
<1> QED
  BY <1>1 DEF NewNotification

LEMMA TypeStep == TypeOK /\ QueueTypeOK' /\ [Next]_vars => TypeOK'
<1> SUFFICES ASSUME TypeOK, QueueTypeOK', [Next]_vars
             PROVE  TypeOK'
  OBVIOUS
<1> USE DEF ownVars, input, store, locals
<1>1. CASE UNCHANGED ownVars
  BY <1>1 DEF TypeOK
<1>2. CASE ChangeProfile
  BY <1>2 DEF ChangeProfile, TypeOK
<1>3. ASSUME NEW m \in Msgs, NEW n \in Attempts, CrashAttempt(m, n)
      PROVE  TypeOK'
  <2>1. outputs' \in [Msgs -> [Attempts -> SUBSET Channels]]
    BY <1>3 DEF CrashAttempt, TypeOK
  <2>2. glitch' \in [Msgs -> BOOLEAN]
    BY <1>3, GlitchType DEF CrashAttempt
  <2> QED
    BY <1>3, <2>1, <2>2 DEF CrashAttempt, TypeOK
<1>4. ASSUME NEW m \in Msgs, NEW n \in Attempts, NEW c \in Channels, FlushOutput(m, n, c)
      PROVE  TypeOK'
  <2>1. outputs' \in [Msgs -> [Attempts -> SUBSET Channels]]
    <3>1. outputs[m][n] \ {c} \in SUBSET Channels
      BY DEF TypeOK
    <3> QED
      BY <1>4, <3>1 DEF FlushOutput, TypeOK
  <2>2. queued' \in [Msgs -> SUBSET [id : Attempts, channel : Channels]]
    <3>1. queued[m] \cup {[id |-> n, channel |-> c]} \in SUBSET [id : Attempts, channel : Channels]
      BY DEF TypeOK
    <3> QED
      BY <1>4, <3>1 DEF FlushOutput, TypeOK
  <2> QED
    BY <1>4, <2>1, <2>2 DEF FlushOutput, TypeOK
<1>5. ASSUME NEW m \in Msgs, NEW n \in Attempts, FindProfile(m, n)
      PROVE  TypeOK'
  <2>1. step' \in [Msgs -> [Attempts -> HandlerStep]]
    BY <1>5, StepType DEF FindProfile, FailTransiently, HandlerStep
  <2>2. glitch' \in [Msgs -> BOOLEAN]
    BY <1>5, GlitchType DEF FindProfile, FailTransiently
  <2>3. seen' \in [Msgs -> [Attempts -> ProfileType]]
    <3>1. \/ \E p \in pastProfiles : seen' = [seen EXCEPT ![m][n] = p]
          \/ UNCHANGED seen
      BY <1>5 DEF FindProfile
    <3>2. \A p \in pastProfiles : p \in ProfileType
      BY ProfileAssumption DEF TypeOK
    <3>3. seen \in [Msgs -> [Attempts -> ProfileType]]
      BY DEF TypeOK
    <3> QED
      BY <3>1, <3>2, <3>3
  <2>4. refused' \in [Msgs -> [Attempts -> BOOLEAN]]
    <3>1. refused' = [refused EXCEPT ![m][n] = TRUE] \/ UNCHANGED refused
      BY <1>5 DEF FindProfile
    <3>2. refused \in [Msgs -> [Attempts -> BOOLEAN]]
      BY DEF TypeOK
    <3>3. [refused[m] EXCEPT ![n] = TRUE] \in [Attempts -> BOOLEAN]
      BY <3>2
    <3>4. [refused EXCEPT ![m] = [refused[m] EXCEPT ![n] = TRUE]]
            \in [Msgs -> [Attempts -> BOOLEAN]]
      BY <3>2, <3>3
    <3> QED
      BY <3>1, <3>2, <3>4, Zenon
  <2> QED
    BY <1>5, <2>1, <2>2, <2>3, <2>4 DEF FindProfile, TypeOK
<1>6. ASSUME NEW m \in Msgs, NEW n \in Attempts,
             \/ AttachStoredContent(m, n) \/ MakeVisible(m, n)
             \/ SaveSenderService(m, n) \/ SkipNotification(m, n)
      PROVE  TypeOK'
  <2>1. step' \in [Msgs -> [Attempts -> HandlerStep]]
    BY <1>6, StepType DEF AttachStoredContent, MakeVisible, SaveSenderService,
       SkipNotification, Write, FailTransiently, HandlerStep
  <2>2. glitch' \in [Msgs -> BOOLEAN]
    BY <1>6, GlitchType DEF AttachStoredContent, MakeVisible, SaveSenderService,
       SkipNotification, Write, FailTransiently
  <2>3. /\ content' \in [Msgs -> BOOLEAN] /\ pending' \in [Msgs -> BOOLEAN]
        /\ senderService' \in Msgs \cup {"none"}
    BY <1>6 DEF AttachStoredContent, MakeVisible, SaveSenderService,
       SkipNotification, Write, TypeOK
  <2>4. UNCHANGED <<profile, pastProfiles, input, notifications, queued, versions, status,
                    seen, outputs, refused>>
    BY <1>6 DEF AttachStoredContent, MakeVisible, SaveSenderService, SkipNotification
  <2> QED
    BY <2>1, <2>2, <2>3, <2>4 DEF TypeOK
<1>7. ASSUME NEW m \in Msgs, NEW n \in Attempts, CreateNotification(m, n)
      PROVE  TypeOK'
  <2>1. step' \in [Msgs -> [Attempts -> HandlerStep]]
    BY <1>7, StepType DEF CreateNotification, Write, FailTransiently, HandlerStep
  <2>2. glitch' \in [Msgs -> BOOLEAN]
    BY <1>7, GlitchType DEF CreateNotification, Write, FailTransiently
  <2>3. notifications' \in [Msgs -> SUBSET [id : Attempts, channels : SUBSET Channels]]
    <3>1. notifications[m] \cup {NewNotification(m, n)}
            \in SUBSET [id : Attempts, channels : SUBSET Channels]
      BY NewNotificationType DEF TypeOK
    <3> QED
      BY <1>7, <3>1 DEF CreateNotification, Write, TypeOK
  <2> QED
    BY <1>7, <2>1, <2>2, <2>3 DEF CreateNotification, TypeOK
<1>8. ASSUME NEW m \in Msgs, NEW n \in Attempts, RecordProcessed(m, n)
      PROVE  TypeOK'
  <2>1. versions' \in [Msgs -> SUBSET Status] /\ status' \in [Msgs -> Status \cup {"none"}]
    BY <1>8, StatusType DEF RecordProcessed, Status
  <2>2. glitch' \in [Msgs -> BOOLEAN]
    BY <1>8, GlitchType DEF RecordProcessed
  <2>3. outputs' \in [Msgs -> [Attempts -> SUBSET Channels]]
    <3> DEFINE all == UNION {x.channels : x \in {y \in notifications[m] : y.id = n}}
    <3>1. \A x \in notifications[m] : x.channels \in SUBSET Channels
      BY DEF TypeOK
    <3>2. all \in SUBSET Channels
      BY <3>1
    <3>3. outputs' = [outputs EXCEPT ![m][n] = all]
      BY <1>8 DEF RecordProcessed
    <3> HIDE DEF all
    <3> QED
      BY <3>2, <3>3 DEF TypeOK
  <2> QED
    BY <1>8, <2>1, <2>2, <2>3 DEF RecordProcessed, TypeOK
<1>9. ASSUME NEW m \in Msgs, NEW n \in Attempts, ThrowUnexpected(m, n)
      PROVE  TypeOK'
  <2>1. glitch' \in [Msgs -> BOOLEAN]
    BY <1>9, GlitchType DEF ThrowUnexpected
  <2> QED
    BY <1>9, <2>1 DEF ThrowUnexpected, TypeOK
<1>10. ASSUME NEW m \in Msgs, NEW n \in Attempts, RecordThrottled(m, n) \/ RecordRejected(m, n)
       PROVE  TypeOK'
  <2>1. versions' \in [Msgs -> SUBSET Status] /\ status' \in [Msgs -> Status \cup {"none"}]
    BY <1>10, StatusType DEF RecordThrottled, RecordRejected, Status
  <2>2. UNCHANGED <<profile, pastProfiles, input, store, locals, glitch>>
    BY <1>10 DEF RecordThrottled, RecordRejected
  <2> QED
    BY <2>1, <2>2 DEF TypeOK
<1>11. ASSUME NEW m \in Msgs, NEW n \in Attempts,
              Send(m) \/ HostStep(m) \/ EndAttempt(m, n) \/ DropBadEvent(m, n) \/ SetVisibility(m, n)
       PROVE  UNCHANGED ownVars
  BY <1>11 DEF Send, HostStep, EndAttempt, DropBadEvent, SetVisibility
<1>12. 1 \in Attempts
  BY QueueAssumption DEF Attempts
<1> QED
  BY <1>1, <1>2, <1>3, <1>4, <1>5, <1>6, <1>7, <1>8, <1>9, <1>10, <1>11, <1>12
     DEF Next, Index, HandleMessage, vars

-----------------------------------------------------------------------------
(* What is stored only grows.                                              *)

Growth(m) ==
  /\ pastProfiles \subseteq pastProfiles'
  /\ defaultEmail' = defaultEmail
  /\ content[m] => content'[m]
  /\ ~pending[m] => ~pending'[m]
  /\ notifications[m] \subseteq notifications'[m]
  /\ senderService # "none" => senderService' # "none"

\* What the steps of message m leave alone in message k.
SameLocals(k) ==
  /\ step'[k] = step[k] /\ seen'[k] = seen[k] /\ refused'[k] = refused[k]
  /\ "REJECTED" \in versions'[k] => "REJECTED" \in versions[k]

SameStore(k) ==
  /\ pending'[k] = pending[k] /\ notifications'[k] = notifications[k]
  /\ \A n \in Attempts : outputs'[k][n] \subseteq outputs[k][n]
  /\ queued'[k] = queued[k]

LEMMA AllowedGrows ==
  ASSUME NEW m \in Msgs, Growth(m), NEW c, Allowed(m, c)
  PROVE  Allowed(m, c)'
<1>1. \A p : AllowedChannels(p, m)' = AllowedChannels(p, m)
  BY DEF AllowedChannels, Growth
<1> QED
  BY <1>1 DEF Allowed, Growth, Accepts

LEMMA NotifiedGrows ==
  ASSUME NEW m \in Msgs, Growth(m), NEW n, NEW c, Notified(m, n, c)
  PROVE  Notified(m, n, c)'
BY DEF Notified, Growth

\* The parts of StoreInv, each with what it depends on.
LEMMA AcceptedKept ==
  ASSUME NEW m \in Msgs, Growth(m), AcceptedInv(m), step'[m] = step[m], seen'[m] = seen[m]
  PROVE  AcceptedInv(m)'
BY DEF AcceptedInv, Growth, Accepts

LEMMA ProgressKept ==
  ASSUME NEW m \in Msgs, Growth(m), ProgressInv(m), step'[m] = step[m]
  PROVE  ProgressInv(m)'
BY DEF ProgressInv, Growth

LEMMA VisibleKept ==
  ASSUME NEW m \in Msgs, Growth(m), VisibleInv(m), pending'[m] = pending[m]
  PROVE  VisibleInv(m)'
BY DEF VisibleInv, Growth, Accepts

LEMMA NotificationKept ==
  ASSUME NEW m \in Msgs, Growth(m), NotificationInv(m), notifications'[m] = notifications[m]
  PROVE  NotificationInv(m)'
BY AllowedGrows DEF NotificationInv, Growth

LEMMA OutputKept ==
  ASSUME NEW m \in Msgs, Growth(m), OutputInv(m), queued'[m] = queued[m],
         \A n \in Attempts : outputs'[m][n] \subseteq outputs[m][n]
  PROVE  OutputInv(m)'
BY NotifiedGrows DEF OutputInv

LEMMA RefusedKept ==
  ASSUME NEW m \in Msgs, Growth(m), RefusedInv(m), refused'[m] = refused[m],
         "REJECTED" \in versions'[m] => "REJECTED" \in versions[m]
  PROVE  RefusedInv(m)'
BY DEF RefusedInv, Growth, Accepts

LEMMA StoreKept ==
  ASSUME NEW m \in Msgs, Growth(m), StoreInv(m), SameLocals(m), SameStore(m)
  PROVE  StoreInv(m)'
BY AcceptedKept, ProgressKept, VisibleKept, NotificationKept, OutputKept, RefusedKept
   DEF StoreInv, SameLocals, SameStore

\* A step of an attempt of m, seen from the other messages.
OthersUnchanged(m) ==
  \A k \in Msgs \ {m} :
    /\ SameLocals(k) /\ SameStore(k)
    /\ content'[k] = content[k] /\ glitch'[k] = glitch[k]
    /\ versions'[k] = versions[k] /\ outputs'[k] = outputs[k]

LEMMA GrowthStep == TypeOK /\ [Next]_vars => \A m \in Msgs : Growth(m)
<1> SUFFICES ASSUME TypeOK, [Next]_vars, NEW k \in Msgs
             PROVE  Growth(k)
  OBVIOUS
<1> USE SenderAssumption DEF TypeOK, Growth, ownVars, input, store
<1>1. CASE UNCHANGED ownVars \/ ChangeProfile
  BY <1>1 DEF ChangeProfile
<1>2. ASSUME NEW m \in Msgs, NEW n \in Attempts,
             \/ CrashAttempt(m, n) \/ RecordProcessed(m, n) \/ ThrowUnexpected(m, n)
             \/ RecordThrottled(m, n) \/ RecordRejected(m, n) \/ SkipNotification(m, n)
             \/ FindProfile(m, n) \/ \E c \in Channels : FlushOutput(m, n, c)
      PROVE  UNCHANGED <<pastProfiles, defaultEmail, content, pending, notifications, senderService>>
  BY <1>2 DEF CrashAttempt, RecordProcessed, ThrowUnexpected, RecordThrottled, RecordRejected,
     SkipNotification, FindProfile, FlushOutput
<1>3. ASSUME NEW m \in Msgs, NEW n \in Attempts,
             \/ AttachStoredContent(m, n) \/ MakeVisible(m, n)
             \/ SaveSenderService(m, n) \/ CreateNotification(m, n)
      PROVE  Growth(k)
  <2>1. UNCHANGED <<pastProfiles, defaultEmail>>
    BY <1>3 DEF AttachStoredContent, MakeVisible, SaveSenderService, CreateNotification
  <2>2. content[k] => content'[k]
    BY <1>3 DEF AttachStoredContent, MakeVisible, SaveSenderService, CreateNotification, Write
  <2>3. ~pending[k] => ~pending'[k]
    BY <1>3 DEF AttachStoredContent, MakeVisible, SaveSenderService, CreateNotification, Write
  <2>4. notifications[k] \subseteq notifications'[k]
    <3>1. CASE UNCHANGED notifications
      BY <3>1
    <3>2. CASE notifications' = [notifications EXCEPT ![m] =
                                   notifications[m] \cup {NewNotification(m, n)}]
      <4>1. notifications'[k] = IF k = m THEN notifications[m] \cup {NewNotification(m, n)}
                                ELSE notifications[k]
        BY <3>2
      <4> QED
        BY <4>1
    <3> QED
      BY <1>3, <3>1, <3>2 DEF AttachStoredContent, MakeVisible, SaveSenderService,
         CreateNotification, Write
  <2>5. senderService # "none" => senderService' # "none"
    BY <1>3 DEF AttachStoredContent, MakeVisible, SaveSenderService, CreateNotification, Write
  <2> QED
    BY <2>1, <2>2, <2>3, <2>4, <2>5
<1>4. ASSUME NEW m \in Msgs, NEW n \in Attempts,
             Send(m) \/ HostStep(m) \/ EndAttempt(m, n) \/ DropBadEvent(m, n) \/ SetVisibility(m, n)
      PROVE  UNCHANGED ownVars
  BY <1>4 DEF Send, HostStep, EndAttempt, DropBadEvent, SetVisibility
<1>5. 1 \in Attempts
  BY QueueAssumption DEF Attempts
<1> QED
  BY <1>1, <1>2, <1>3, <1>4, <1>5 DEF Next, Index, HandleMessage, vars

-----------------------------------------------------------------------------
(* StoreInv is kept by the steps of handleMessage.                         *)

\* Attempt n of m goes on, or fails, and leaves the rest of the handler alone.
LEMMA FindKeepsStore ==
  ASSUME TypeOK, NEW m \in Msgs, Growth(m), StoreInv(m), NEW n \in Attempts, FindProfile(m, n)
  PROVE  OthersUnchanged(m) /\ StoreInv(m)'
<1> USE DEF StoreInv, store, input
<1>1. /\ SameStore(m)
      /\ UNCHANGED <<pastProfiles, content, pending, senderService, notifications, queued,
                     versions, outputs>>
  BY DEF FindProfile, SameStore
<1>2. OthersUnchanged(m)
  BY DEF FindProfile, OthersUnchanged, SameLocals, SameStore, TypeOK, GoStep, FailTransiently
<1>3. VisibleInv(m)' /\ NotificationInv(m)' /\ OutputInv(m)'
  BY <1>1, VisibleKept, NotificationKept, OutputKept DEF SameStore
<1>4. CASE SameLocals(m)
  BY <1>1, <1>2, <1>4, StoreKept
<1>5. ASSUME NEW p \in pastProfiles, Accepts(p), GoStep(m, n, "accepted"),
             seen' = [seen EXCEPT ![m][n] = p], UNCHANGED refused
      PROVE  AcceptedInv(m)' /\ ProgressInv(m)' /\ RefusedInv(m)'
  <2>1. AcceptedInv(m)'
    BY <1>1, <1>5 DEF AcceptedInv, Accepts, GoStep, TypeOK
  <2>2. ProgressInv(m)'
    BY <1>1, <1>5 DEF ProgressInv, GoStep, TypeOK
  <2>3. RefusedInv(m)'
    BY <1>1, <1>5, RefusedKept
  <2> QED
    BY <2>1, <2>2, <2>3
<1>6. ASSUME \E p \in pastProfiles : ~Accepts(p), UNCHANGED <<step, seen>>
      PROVE  AcceptedInv(m)' /\ ProgressInv(m)' /\ RefusedInv(m)'
  BY <1>1, <1>6, AcceptedKept, ProgressKept DEF RefusedInv, Accepts
<1>7. ASSUME FailTransiently(m, n), UNCHANGED <<seen, refused>>
      PROVE  SameLocals(m)
  BY <1>1, <1>7 DEF FailTransiently, SameLocals
<1> QED
  BY <1>2, <1>3, <1>4, <1>5, <1>6, <1>7 DEF FindProfile

LEMMA AttachKeepsStore ==
  ASSUME TypeOK, NEW m \in Msgs, Growth(m), StoreInv(m), NEW n \in Attempts,
         AttachStoredContent(m, n)
  PROVE  OthersUnchanged(m) /\ StoreInv(m)'
<1> USE DEF StoreInv, store, input
<1>1. /\ SameStore(m) /\ seen' = seen /\ refused' = refused /\ versions' = versions
      /\ pastProfiles' = pastProfiles
      /\ step[m][n] = "accepted"
  BY DEF AttachStoredContent, SameStore, At
<1>2. OthersUnchanged(m)
  BY DEF AttachStoredContent, Write, OthersUnchanged, SameLocals, SameStore, TypeOK, GoStep,
     FailTransiently
<1>3. VisibleInv(m)' /\ NotificationInv(m)' /\ OutputInv(m)' /\ RefusedInv(m)'
  BY <1>1, VisibleKept, NotificationKept, OutputKept, RefusedKept DEF SameStore
<1>4. CASE step' = step
  BY <1>1, <1>2, <1>3, <1>4, AcceptedKept, ProgressKept
<1>5. CASE GoStep(m, n, "stored") /\ content'[m]
  <2>1. AcceptedInv(m)'
    BY <1>1, <1>5 DEF AcceptedInv, Accepts, GoStep, TypeOK
  <2>2. ProgressInv(m)'
    BY <1>1, <1>5 DEF ProgressInv, GoStep, TypeOK, Growth
  <2> QED
    BY <1>2, <1>3, <2>1, <2>2
<1> QED
  BY <1>2, <1>4, <1>5 DEF AttachStoredContent, Write, FailTransiently, TypeOK

LEMMA MakeVisibleKeepsStore ==
  ASSUME TypeOK, NEW m \in Msgs, Growth(m), StoreInv(m), NEW n \in Attempts, MakeVisible(m, n)
  PROVE  OthersUnchanged(m) /\ StoreInv(m)'
<1> USE DEF StoreInv, store, input
<1>1. /\ UNCHANGED <<seen, refused, versions, pastProfiles, notifications, outputs, queued, content>>
      /\ step[m][n] = "stored"
  BY DEF MakeVisible, At
<1>2. OthersUnchanged(m)
  BY DEF MakeVisible, Write, OthersUnchanged, SameLocals, SameStore, TypeOK, GoStep,
     FailTransiently
<1>3. NotificationInv(m)' /\ OutputInv(m)' /\ RefusedInv(m)'
  BY <1>1, NotificationKept, OutputKept, RefusedKept
<1>4. VisibleInv(m)'
  <2>1. content[m] /\ \E p \in pastProfiles : Accepts(p)
    BY <1>1 DEF ProgressInv, AcceptedInv
  <2> QED
    BY <1>1, <2>1 DEF VisibleInv, Accepts
<1>5. CASE step' = step
  BY <1>1, <1>2, <1>3, <1>4, <1>5, AcceptedKept, ProgressKept
<1>6. CASE GoStep(m, n, "visible") /\ ~pending'[m]
  <2>1. AcceptedInv(m)'
    BY <1>1, <1>6 DEF AcceptedInv, Accepts, GoStep, TypeOK
  <2>2. ProgressInv(m)'
    BY <1>1, <1>6 DEF ProgressInv, GoStep, TypeOK, Growth
  <2> QED
    BY <1>2, <1>3, <1>4, <2>1, <2>2
<1> QED
  BY <1>2, <1>5, <1>6 DEF MakeVisible, Write, FailTransiently, TypeOK

\* The steps from "visible" to "recorded", and from there past the notification if none
\* is to be made.
LEMMA SaveSenderKeepsStore ==
  ASSUME TypeOK, NEW m \in Msgs, Growth(m), StoreInv(m), NEW n \in Attempts,
         SaveSenderService(m, n) \/ SkipNotification(m, n)
  PROVE  OthersUnchanged(m) /\ StoreInv(m)' /\ ~pending[m]
<1> USE SenderAssumption DEF StoreInv, store, input
<1>1. /\ UNCHANGED <<seen, refused, versions, pastProfiles, notifications, outputs, queued,
                     content, pending>>
      /\ SameStore(m)
      /\ step[m][n] \in {"visible", "recorded"}
  BY DEF SaveSenderService, SkipNotification, At, SameStore
<1>2. OthersUnchanged(m)
  BY DEF SaveSenderService, SkipNotification, Write, OthersUnchanged, SameLocals, SameStore,
     TypeOK, GoStep, FailTransiently
<1>3. /\ VisibleInv(m)' /\ NotificationInv(m)' /\ OutputInv(m)' /\ RefusedInv(m)'
      /\ ~pending[m]
  BY <1>1, VisibleKept, NotificationKept, OutputKept, RefusedKept DEF ProgressInv
<1>4. CASE step' = step
  BY <1>1, <1>2, <1>3, <1>4, AcceptedKept, ProgressKept
<1>5. ASSUME NEW s \in {"recorded", "done"}, GoStep(m, n, s), senderService' # "none"
      PROVE  AcceptedInv(m)' /\ ProgressInv(m)'
  <2>1. AcceptedInv(m)'
    BY <1>1, <1>5 DEF AcceptedInv, Accepts, GoStep, TypeOK
  <2>2. ProgressInv(m)'
    BY <1>1, <1>5 DEF ProgressInv, GoStep, TypeOK, Growth
  <2> QED
    BY <2>1, <2>2
<1>6. CASE SaveSenderService(m, n)
  BY <1>2, <1>3, <1>4, <1>5, <1>6 DEF SaveSenderService, Write, FailTransiently
<1>7. CASE SkipNotification(m, n)
  <2>1. senderService' # "none"
    BY <1>7 DEF SkipNotification, At, ProgressInv
  <2> QED
    BY <1>2, <1>3, <1>5, <1>7, <2>1 DEF SkipNotification
<1> QED
  BY <1>6, <1>7

LEMMA CreateKeepsStore ==
  ASSUME TypeOK, NEW m \in Msgs, Growth(m), StoreInv(m), NEW n \in Attempts,
         CreateNotification(m, n)
  PROVE  OthersUnchanged(m) /\ StoreInv(m)'
<1> USE DEF StoreInv, store, input
<1>1. /\ UNCHANGED <<seen, refused, versions, pastProfiles, outputs, queued, content, pending,
                     senderService>>
      /\ step[m][n] = "recorded"
  BY DEF CreateNotification, At
<1>2. OthersUnchanged(m)
  BY DEF CreateNotification, Write, OthersUnchanged, SameLocals, SameStore, TypeOK, GoStep,
     FailTransiently
<1>3. VisibleInv(m)' /\ OutputInv(m)' /\ RefusedInv(m)'
  BY <1>1, VisibleKept, OutputKept, RefusedKept
<1>4. NotificationInv(m)'
  <2>1. \A c \in NewNotification(m, n).channels : Allowed(m, c)
    BY <1>1 DEF NewNotification, AcceptedInv, Allowed
  <2>2. ~pending[m] /\ senderService # "none"
    BY <1>1 DEF ProgressInv
  <2>3. \A x \in notifications'[m] : x \in notifications[m] \/ x = NewNotification(m, n)
    BY DEF CreateNotification, Write, TypeOK
  <2>4. \A x \in notifications'[m] : \A c \in x.channels : Allowed(m, c)
    BY <2>1, <2>3 DEF NotificationInv
  <2>5. \A c : Allowed(m, c) => Allowed(m, c)'
    BY AllowedGrows
  <2>6. ~pending'[m] /\ senderService' # "none"
    BY <1>1, <2>2
  <2> HIDE DEF StoreInv
  <2> QED
    BY <2>4, <2>5, <2>6 DEF NotificationInv
<1>5. CASE step' = step
  BY <1>1, <1>2, <1>3, <1>4, <1>5, AcceptedKept, ProgressKept
<1>6. CASE GoStep(m, n, "done")
  <2>1. AcceptedInv(m)'
    BY <1>1, <1>6 DEF AcceptedInv, Accepts, GoStep, TypeOK
  <2>2. ProgressInv(m)'
    BY <1>1, <1>6 DEF ProgressInv, GoStep, TypeOK, Growth
  <2> QED
    BY <1>2, <1>3, <1>4, <2>1, <2>2
<1> QED
  BY <1>5, <1>6 DEF CreateNotification, Write, FailTransiently

-----------------------------------------------------------------------------
(* StoreInv is kept by index and by the host.                              *)

LEMMA ProcessedKeepsStore ==
  ASSUME TypeOK, NEW m \in Msgs, Growth(m), StoreInv(m), NEW n \in Attempts,
         RecordProcessed(m, n)
  PROVE  OthersUnchanged(m) /\ StoreInv(m)'
<1> USE DEF StoreInv, store, input
<1>1. UNCHANGED <<seen, refused, step, pastProfiles, notifications, queued, content, pending>>
  BY DEF RecordProcessed
<1>2. OthersUnchanged(m)
  BY DEF RecordProcessed, OthersUnchanged, SameLocals, SameStore, TypeOK, SaveStatus,
     NoStatusSaved
<1>3. "REJECTED" \in versions'[m] => "REJECTED" \in versions[m]
  BY DEF RecordProcessed, SaveStatus, NoStatusSaved, TypeOK
<1>4. /\ AcceptedInv(m)' /\ ProgressInv(m)' /\ VisibleInv(m)' /\ NotificationInv(m)'
      /\ RefusedInv(m)'
  BY <1>1, <1>3, AcceptedKept, ProgressKept, VisibleKept, NotificationKept, RefusedKept
<1>5. \A c \in outputs'[m][n] : Notified(m, n, c)
  BY DEF RecordProcessed, TypeOK, Notified
<1>6. \A k \in Attempts \ {n} : outputs'[m][k] = outputs[m][k]
  BY DEF RecordProcessed, TypeOK
<1>7. OutputInv(m)'
  BY <1>1, <1>5, <1>6 DEF OutputInv, Notified
<1> QED
  BY <1>2, <1>4, <1>7

LEMMA FlushKeepsStore ==
  ASSUME TypeOK, NEW m \in Msgs, Growth(m), StoreInv(m), NEW n \in Attempts,
         NEW c \in Channels, FlushOutput(m, n, c)
  PROVE  OthersUnchanged(m) /\ StoreInv(m)'
<1> USE DEF StoreInv, store, input
<1>1. UNCHANGED <<seen, refused, step, versions, pastProfiles, notifications, content, pending,
                  glitch>>
  BY DEF FlushOutput
<1>2. OthersUnchanged(m)
  BY <1>1 DEF FlushOutput, OthersUnchanged, SameLocals, SameStore, TypeOK
<1>3. /\ AcceptedInv(m)' /\ ProgressInv(m)' /\ VisibleInv(m)' /\ NotificationInv(m)'
      /\ RefusedInv(m)'
  BY <1>1, AcceptedKept, ProgressKept, VisibleKept, NotificationKept, RefusedKept
<1>4. \A k \in Attempts : outputs'[m][k] \subseteq outputs[m][k]
  BY DEF FlushOutput, TypeOK
<1>5. \A e \in queued'[m] : e \in queued[m] \/ e = [id |-> n, channel |-> c]
  BY DEF FlushOutput, TypeOK
<1>6. Notified(m, n, c)
  BY DEF FlushOutput, OutputInv
<1>7. OutputInv(m)'
  BY <1>1, <1>4, <1>5, <1>6 DEF OutputInv, Notified
<1> QED
  BY <1>2, <1>3, <1>7

LEMMA RejectedKeepsStore ==
  ASSUME TypeOK, NEW m \in Msgs, Growth(m), StoreInv(m), NEW n \in Attempts,
         RecordRejected(m, n) \/ RecordThrottled(m, n)
  PROVE  OthersUnchanged(m) /\ StoreInv(m)'
<1> USE DEF StoreInv, store, input, locals
<1>1. /\ UNCHANGED <<pastProfiles, store, locals, glitch>>
      /\ SameStore(m)
  BY DEF RecordRejected, RecordThrottled, SameStore
<1>2. OthersUnchanged(m)
  BY <1>1 DEF RecordRejected, RecordThrottled, OthersUnchanged, SameLocals, SameStore, TypeOK,
     SaveStatus, NoStatusSaved
<1>3. "REJECTED" \in versions'[m] => "REJECTED" \in versions[m] \/ refused[m][n]
  BY DEF RecordRejected, RecordThrottled, SaveStatus, NoStatusSaved, TypeOK
<1>4. RefusedInv(m)'
  BY <1>1, <1>3 DEF RefusedInv, Accepts
<1> QED
  BY <1>1, <1>2, <1>4, AcceptedKept, ProgressKept, VisibleKept, NotificationKept, OutputKept
     DEF SameStore

\* The rest of the steps of m: a crash at most drops outputs.
LEMMA HostKeepsStore ==
  ASSUME TypeOK, NEW m \in Msgs, Growth(m), StoreInv(m), NEW n \in Attempts,
         CrashAttempt(m, n) \/ ThrowUnexpected(m, n) \/ UNCHANGED ownVars
  PROVE  OthersUnchanged(m) /\ StoreInv(m)'
<1> USE DEF store, input, locals, ownVars
<1>1. SameLocals(m)
  BY DEF CrashAttempt, ThrowUnexpected, SameLocals
<1>2. SameStore(m)
  BY DEF CrashAttempt, ThrowUnexpected, SameStore, TypeOK
<1>3. OthersUnchanged(m)
  BY DEF CrashAttempt, ThrowUnexpected, OthersUnchanged, SameLocals, SameStore, TypeOK
<1> QED
  BY <1>1, <1>2, <1>3, StoreKept

-----------------------------------------------------------------------------
(* EndInv and OnceInv: one attempt at work, and one way out of the queue.  *)

LEMMA OthersKeepEnd ==
  ASSUME NEW m \in Msgs, OthersUnchanged(m), QueueOthers(m), UNCHANGED wellFormed,
         NEW k \in Msgs \ {m}, EndInv(k), OnceInv(k)
  PROVE  EndInv(k)' /\ OnceInv(k)'
<1> USE DEF OthersUnchanged, QueueOthers, SameLocals, SameStore
<1>1. EndInv(k)'
  BY DEF EndInv, OnRecord
<1>2. OnceInv(k)'
  BY DEF OnceInv, At
<1> QED
  BY <1>1, <1>2

\* The queue and the host, as far as they do not end an attempt.
LEMMA HostKeepsEnd ==
  ASSUME QueueInv, TypeOK, NEW m \in Msgs, EndInv(m), OnceInv(m),
         Enqueue(m) \/ HostMessageStep(m), UNCHANGED ownVars
  PROVE  EndInv(m)' /\ OnceInv(m)'
<1> USE DEF ownVars, input, store, locals, TypeOK, QueueTypeOK, Goto
<1>1. CASE Enqueue(m) \/ BecomeVisible(m)
  <2> USE <1>1 DEF Enqueue, BecomeVisible
  <2>1. EndInv(m)'
    BY DEF EndInv, OnRecord
  <2>2. OnceInv(m)'
    BY DEF OnceInv, At
  <2> QED
    BY <2>1, <2>2
<1>2. visibility[m] = "visible" => glitch[m] \/ notifications[m] = {}
  <2>1. \A n \in Attempts : pc[m][n] \in WorkStage => visibility[m] = "leased"
    BY OneWorks
  <2> QED
    BY <2>1 DEF OnceInv, At, WorkStage
<1>3. CASE Dequeue(m)
  <2> DEFINE n == dequeueCount[m] + 1
  <2>1. /\ n \in Attempts /\ pc[m][n] = "idle"
        /\ visibility[m] = "visible"
    BY <1>3, QueueAssumption DEF Dequeue, Attempts, QueueInv, StartedInv
  <2>2. /\ visibility' = [visibility EXCEPT ![m] = "leased"]
        /\ pc' = [pc EXCEPT ![m][n] = "handle"]
        /\ UNCHANGED <<outcome, poisoned>>
    BY <1>3 DEF Dequeue
  <2> HIDE DEF n
  <2>3. EndInv(m)'
    BY <2>1, <2>2 DEF EndInv, OnRecord
  <2>4. OnceInv(m)'
    BY <2>1, <1>2 DEF OnceInv
  <2> QED
    BY <2>3, <2>4
<1>4. CASE DeadLetter(m)
  <2> USE <1>4 DEF DeadLetter
  <2>1. EndInv(m)'
    BY DEF EndInv, OnRecord
  <2>2. OnceInv(m)'
    BY <1>2 DEF OnceInv
  <2> QED
    BY <2>1, <2>2
<1> QED
  BY <1>1, <1>3, <1>4 DEF HostMessageStep

\* The host ends an attempt, with nothing left to flush, or the attempt crashes.
LEMMA EndKeepsEnd ==
  ASSUME QueueInv, TypeOK, NEW m \in Msgs, EndInv(m), OnceInv(m), NEW n \in Attempts,
         EndAttempt(m, n) \/ CrashAttempt(m, n)
  PROVE  EndInv(m)' /\ OnceInv(m)'
<1> USE DEF ownVars, input, store, locals, TypeOK, QueueTypeOK, Goto
<1>1. /\ pc' = [pc EXCEPT ![m][n] = "over"]
      /\ UNCHANGED <<dequeueCount, outcome, wellFormed, notifications, queued, versions, step>>
      /\ \A k \in Attempts \ {n} : outputs'[m][k] = outputs[m][k]
      /\ outputs'[m][n] = {}
      /\ glitch[m] => glitch'[m]
      /\ poisoned'[m] >= poisoned[m]
  BY DEF EndAttempt, HostAttemptStep, Complete, Release, Poison, CrashAttempt, Crash
<1>2. visibility[m] = "gone" => visibility'[m] = "gone"
  <2>1. owner[m] = n => visibility[m] = "leased"
    BY QueueAssumption DEF QueueInv, LeaseInv, Attempts
  <2> QED
    BY <2>1 DEF EndAttempt, HostAttemptStep, Complete, Release, Poison, CrashAttempt, Crash,
       WithReceipt
<1>3. ASSUME NEW k \in Attempts, pc'[m][k] = "return"
      PROVE  OnRecord(m, k)'
  <2>1. k # n /\ pc[m][k] = "return"
    BY <1>1, <1>3
  <2> QED
    BY <1>1, <2>1 DEF EndInv, OnRecord
<1>4. CASE visibility[m] = "gone"
  <2>1. EndInv(m)'
    BY <1>1, <1>2, <1>3, <1>4 DEF EndInv, OnRecord
  <2>2. OnceInv(m)'
    BY <1>1, <1>2, <1>4 DEF OnceInv
  <2> QED
    BY <2>1, <2>2
<1>5. CASE visibility[m] # "gone" /\ Complete(m, n)
  <2>1. /\ pc[m][n] = "return" /\ outputs[m][n] = {}
        /\ dequeueCount[m] = n /\ visibility'[m] = "gone"
    BY <1>5, OneWorks DEF Complete, EndAttempt, CrashAttempt, Crash, WorkStage, WithReceipt
  <2>2. EndInv(m)'
    BY <1>1, <1>3, <2>1 DEF EndInv, OnRecord
  <2>3. OnceInv(m)'
    BY <1>1, <2>1 DEF OnceInv
  <2> QED
    BY <2>2, <2>3
<1>6. CASE visibility[m] # "gone" /\ (Release(m, n) \/ Poison(m, n)) /\ UNCHANGED ownVars
  <2>1. pc[m][n] = "throw" /\ (visibility'[m] = "gone" => poisoned'[m] # 0)
    BY <1>6 DEF Release, Poison, WithReceipt
  <2>2. EndInv(m)'
    BY <1>3, <2>1 DEF EndInv
  <2>3. OnceInv(m)'
    BY <1>1, <1>2, <1>6, <2>1 DEF OnceInv, At
  <2> QED
    BY <2>2, <2>3
<1>7. CASE visibility[m] # "gone" /\ CrashAttempt(m, n)
  <2>1. visibility'[m] # "gone" /\ glitch'[m]
    BY <1>7 DEF CrashAttempt, Crash, WithReceipt
  <2> QED
    BY <1>3, <2>1 DEF EndInv, OnceInv
<1> QED
  BY <1>4, <1>5, <1>6, <1>7 DEF EndAttempt, HostAttemptStep

\* An attempt at work goes on: no attempt of the message has returned.
LEMMA GoKeepsEnd ==
  ASSUME QueueInv, TypeOK, NEW m \in Msgs, OnceInv(m), NEW n \in Attempts,
         pc[m][n] = "handle", NEW s \in HandlerStep, GoStep(m, n, s), step[m][n] # "done",
         UNCHANGED glitch,
         \/ notifications'[m] = notifications[m]
         \/ s = "done" /\ notifications'[m] = notifications[m] \cup {NewNotification(m, n)}
  PROVE  EndInv(m)' /\ OnceInv(m)'
<1> USE DEF TypeOK, QueueTypeOK, GoStep, queueVars
<1>1. /\ visibility[m] = "leased" /\ dequeueCount[m] = n
      /\ \A k \in Attempts : pc[m][k] # "return"
      /\ \A k \in Attempts \ {n} : pc[m][k] # "handle"
  BY OneWorks DEF WorkStage
<1>2. EndInv(m)'
  BY <1>1 DEF EndInv
<1>3. glitch[m] \/ notifications[m] = {}
  BY <1>1 DEF OnceInv, At
<1>4. OnceInv(m)'
  <2>1. CASE glitch[m] \/ notifications'[m] = {}
    BY <2>1 DEF OnceInv
  <2>2. CASE notifications[m] = {} /\ s = "done"
    <3>1. At(m, n, "done")'
      BY <2>2 DEF At
    <3>2. \A x \in notifications'[m] : x = NewNotification(m, n)
      BY <2>2
    <3>3. NewNotification(m, n).id = n /\ dequeueCount'[m] = n
      BY <1>1 DEF NewNotification
    <3> QED
      BY <3>1, <3>2, <3>3 DEF OnceInv
  <2> QED
    BY <1>3, <2>1, <2>2
<1> QED
  BY <1>2, <1>4

\* An attempt at work ends its work: if it does so normally, everything is on record.
LEMMA HandleKeepsEnd ==
  ASSUME QueueInv, TypeOK, NEW m \in Msgs, OnceInv(m), NEW n \in Attempts,
         NEW result \in {"ok", "transient", "permanent"}, Handle(m, n, result),
         step'[m] = step[m], glitch[m] => glitch'[m],
         result = "ok" => notifications'[m] = notifications[m] /\ OnRecord(m, n)',
         result # "ok" => glitch'[m] \/ (notifications'[m] = notifications[m] /\ step[m][n] # "done")
  PROVE  EndInv(m)' /\ OnceInv(m)'
<1> USE DEF TypeOK, QueueTypeOK, Handle, Goto
<1>1. /\ visibility[m] = "leased" /\ visibility' = visibility
      /\ \A k \in Attempts \ {n} : pc[m][k] \notin {"handle", "return"}
  BY OneWorks DEF WorkStage
<1>2. /\ pc'[m][n] = "return" <=> result = "ok"
      /\ \A k \in Attempts \ {n} : pc'[m][k] = pc[m][k]
  <2> DEFINE stage == CASE result = "ok"        -> "return"
                        [] result = "transient" -> "update"
                        [] result = "permanent" -> "onPermanent"
  <2>1. stage \in {"return", "update", "onPermanent"} /\ (stage = "return" <=> result = "ok")
    OBVIOUS
  <2>2. pc' = [pc EXCEPT ![m][n] = stage]
    OBVIOUS
  <2> HIDE DEF stage
  <2> QED
    BY <2>1, <2>2
<1>3. EndInv(m)'
  BY <1>1, <1>2 DEF EndInv
<1>4. OnceInv(m)'
  <2>1. CASE result = "ok"
    BY <1>2, <2>1 DEF OnceInv
  <2>2. CASE result # "ok"
    <3>1. glitch'[m] \/ notifications'[m] = {}
      BY <1>1, <2>2 DEF OnceInv, At
    <3> QED
      BY <3>1 DEF OnceInv
  <2> QED
    BY <2>1, <2>2
<1> QED
  BY <1>3, <1>4

\* handleQueueProcessingFailure: only onTransientError runs while another attempt may
\* be at work, and it ends an attempt that gives up.
LEMMA FailureKeepsEnd ==
  ASSUME QueueInv, TypeOK, NEW m \in Msgs, EndInv(m), OnceInv(m), NEW n \in Attempts,
         SetVisibility(m, n) \/ RecordThrottled(m, n) \/ RecordRejected(m, n)
  PROVE  EndInv(m)' /\ OnceInv(m)'
<1> USE DEF TypeOK, QueueTypeOK, Goto, ownVars, store, locals, input
<1>1. UNCHANGED <<wellFormed, store, locals, glitch, dequeueCount, poisoned>>
  BY DEF SetVisibility, RecordThrottled, RecordRejected, UpdateMessageVisibilityTimeout,
     PostponeRetry, SkipPostpone, RejectUpdate, OnTransientError, OnPermanentError,
     RetryPermanentError, ThrowPermanentError
<1>2. versions[m] \subseteq versions'[m]
  BY DEF SetVisibility, RecordThrottled, RecordRejected, SaveStatus, NoStatusSaved
<1>3. CASE RecordThrottled(m, n)
  <2>1. /\ pc[m][n] = "onTransient" /\ outcome' = outcome /\ visibility' = visibility
        /\ \A k \in Attempts \ {n} : pc'[m][k] = pc[m][k]
    BY <1>3 DEF RecordThrottled, OnTransientError
  <2>2. OnRecord(m, n)'
    BY <2>1 DEF QueueInv, OutcomeInv, OnRecord
  <2>3. \A k : OnRecord(m, k) => OnRecord(m, k)'
    BY <1>1, <1>2, <2>1 DEF OnRecord
  <2>4. EndInv(m)'
    BY <1>1, <2>1, <2>2, <2>3 DEF EndInv
  <2>5. OnceInv(m)'
    BY <1>1, <2>1 DEF OnceInv, At
  <2> QED
    BY <2>4, <2>5
<1>4. CASE SetVisibility(m, n) \/ RecordRejected(m, n)
  <2>1. /\ pc[m][n] \in {"update", "onPermanent"}
        /\ \A k \in Attempts \ {n} : pc'[m][k] = pc[m][k]
        /\ visibility'[m] # "gone" \/ visibility' = visibility
        /\ pc'[m][n] = "return" => outcome' = outcome /\ pc[m][n] = "onPermanent"
                                   /\ versions'[m] \cap {"REJECTED", "FAILED"} # {}
    <3>1. CASE SetVisibility(m, n)
      BY <3>1 DEF SetVisibility, UpdateMessageVisibilityTimeout, PostponeRetry, SkipPostpone,
         RejectUpdate, WithReceipt
    <3>2. CASE RecordRejected(m, n)
      <4>1. /\ pc[m][n] = "onPermanent" /\ visibility' = visibility
            /\ \A k \in Attempts \ {n} : pc'[m][k] = pc[m][k]
        BY <3>2 DEF RecordRejected, OnPermanentError, RetryPermanentError, ThrowPermanentError
      <4>2. CASE OnPermanentError(m, n)
        <5>1. /\ outcome' = outcome /\ pc'[m][n] = "return"
          BY <4>2 DEF OnPermanentError
        <5>2. PICK value \in {"REJECTED", "FAILED"} : SaveStatus(m, value)
          BY <3>2, <5>1 DEF RecordRejected, RetryPermanentError, ThrowPermanentError
        <5>3. versions'[m] = versions[m] \cup {value}
          BY <5>2 DEF SaveStatus
        <5>4. versions'[m] \cap {"REJECTED", "FAILED"} # {}
          BY <5>3
        <5> QED
          BY <4>1, <5>1, <5>4
      <4>3. CASE RetryPermanentError(m, n) \/ ThrowPermanentError(m, n)
        BY <4>1, <4>3 DEF RetryPermanentError, ThrowPermanentError
      <4> QED
        BY <3>2, <4>2, <4>3 DEF RecordRejected
    <3> QED
      BY <1>4, <3>1, <3>2
  <2>2. /\ visibility'[m] # "gone" /\ visibility[m] # "gone"
        /\ \A k \in Attempts : pc[m][k] \notin {"handle", "return"}
    BY <2>1, OneWorks DEF WorkStage
  <2>3. pc'[m][n] = "return" => OnRecord(m, n)'
    BY <2>1 DEF QueueInv, OutcomeInv, OnRecord
  <2>4. EndInv(m)'
    BY <2>1, <2>2, <2>3 DEF EndInv
  <2>5. glitch[m] \/ notifications[m] = {}
    BY <2>2 DEF OnceInv, At
  <2>6. OnceInv(m)'
    BY <1>1, <2>5 DEF OnceInv
  <2> QED
    BY <2>4, <2>6
<1> QED
  BY <1>3, <1>4

\* The host queues an output binding.
LEMMA FlushKeepsEnd ==
  ASSUME QueueInv, TypeOK, NEW m \in Msgs, EndInv(m), OnceInv(m), NEW n \in Attempts,
         NEW c \in Channels, FlushOutput(m, n, c)
  PROVE  EndInv(m)' /\ OnceInv(m)'
<1> USE DEF TypeOK, queueVars, input
<1>1. UNCHANGED <<queueVars, wellFormed, notifications, versions, step, glitch>>
  BY DEF FlushOutput
<1>2. visibility[m] # "gone"
  BY OneWorks DEF FlushOutput, WorkStage
<1>3. /\ \A k \in Attempts \ {n} : outputs'[m][k] = outputs[m][k]
      /\ outputs'[m][n] = outputs[m][n] \ {c}
      /\ queued'[m] = queued[m] \cup {[id |-> n, channel |-> c]}
  BY DEF FlushOutput
<1>4. \A k \in Attempts : OnRecord(m, k) => OnRecord(m, k)'
  BY <1>1, <1>3 DEF OnRecord
<1>5. EndInv(m)'
  BY <1>1, <1>2, <1>4 DEF EndInv
<1>6. OnceInv(m)'
  BY <1>1 DEF OnceInv, At
<1> QED
  BY <1>5, <1>6

\* handleMessage.
LEMMA MessageKeepsEnd ==
  ASSUME QueueInv, TypeOK, NEW m \in Msgs, OnceInv(m), NEW n \in Attempts, HandleMessage(m, n)
  PROVE  EndInv(m)' /\ OnceInv(m)'
<1> USE DEF store, input
<1>1. ASSUME FailTransiently(m, n)
      PROVE  EndInv(m)' /\ OnceInv(m)'
  <2>1. glitch'[m] /\ step' = step /\ Handle(m, n, "transient")
    BY <1>1 DEF FailTransiently, TypeOK
  <2>2. glitch'[m] \/ (notifications'[m] = notifications[m] /\ step[m][n] # "done")
    BY <2>1
  <2>3. (glitch[m] => glitch'[m]) /\ step'[m] = step[m]
    BY <2>1
  <2> QED
    BY <2>1, <2>2, <2>3, HandleKeepsEnd
<1>2. CASE FindProfile(m, n)
  <2>1. /\ pc[m][n] = "handle" /\ step[m][n] = "start"
        /\ notifications' = notifications
    BY <1>2 DEF FindProfile, At
  <2>2. CASE GoStep(m, n, "accepted") /\ UNCHANGED glitch
    BY <2>1, <2>2, GoKeepsEnd DEF HandlerStep
  <2>3. CASE Handle(m, n, "permanent") /\ UNCHANGED <<step, glitch>>
    BY <2>1, <2>3, HandleKeepsEnd
  <2> QED
    BY <1>1, <1>2, <2>2, <2>3 DEF FindProfile
<1>3. CASE AttachStoredContent(m, n) \/ MakeVisible(m, n) \/ SaveSenderService(m, n)
  <2>1. /\ pc[m][n] = "handle" /\ step[m][n] # "done"
        /\ notifications' = notifications
    BY <1>3 DEF AttachStoredContent, MakeVisible, SaveSenderService, At
  <2>2. ASSUME NEW s \in HandlerStep, GoStep(m, n, s), UNCHANGED glitch
        PROVE  EndInv(m)' /\ OnceInv(m)'
    BY <2>1, <2>2, GoKeepsEnd
  <2>3. \/ FailTransiently(m, n)
        \/ \E s \in HandlerStep : GoStep(m, n, s) /\ UNCHANGED glitch
    BY <1>3 DEF AttachStoredContent, MakeVisible, SaveSenderService, Write, HandlerStep
  <2> QED
    BY <1>1, <2>2, <2>3
<1>4. CASE SkipNotification(m, n)
  <2>1. /\ pc[m][n] = "handle" /\ step[m][n] # "done"
        /\ notifications' = notifications /\ GoStep(m, n, "done") /\ UNCHANGED glitch
    BY <1>4 DEF SkipNotification, At
  <2> QED
    BY <2>1, GoKeepsEnd DEF HandlerStep
<1>5. CASE CreateNotification(m, n)
  <2>1. pc[m][n] = "handle" /\ step[m][n] # "done"
    BY <1>5 DEF CreateNotification, At
  <2>2. CASE /\ notifications' = [notifications EXCEPT ![m] = @ \cup {NewNotification(m, n)}]
             /\ GoStep(m, n, "done") /\ UNCHANGED glitch
    <3>1. notifications'[m] = notifications[m] \cup {NewNotification(m, n)}
      BY <2>2 DEF TypeOK
    <3> QED
      BY <2>1, <2>2, <3>1, GoKeepsEnd DEF HandlerStep
  <2> QED
    BY <1>1, <1>5, <2>2 DEF CreateNotification, Write
<1> QED
  BY <1>2, <1>3, <1>4, <1>5 DEF HandleMessage

\* index.
LEMMA IndexKeepsEnd ==
  ASSUME QueueInv, TypeOK, NEW m \in Msgs, EndInv(m), OnceInv(m), NEW n \in Attempts, Index(m, n)
  PROVE  EndInv(m)' /\ OnceInv(m)'
<1> USE DEF ownVars, store, input, locals
<1>1. CASE DropBadEvent(m, n)
  <2>1. Handle(m, n, "ok") /\ UNCHANGED <<step, glitch, notifications>> /\ OnRecord(m, n)'
    BY <1>1 DEF DropBadEvent, OnRecord
  <2> QED
    BY <2>1, HandleKeepsEnd
<1>2. CASE RecordProcessed(m, n)
  <2>1. /\ Handle(m, n, "ok") /\ step[m][n] = "done"
        /\ UNCHANGED <<step, notifications, wellFormed, queued>>
        /\ glitch[m] => glitch'[m]
    BY <1>2 DEF RecordProcessed, At, TypeOK
  <2>2. outcome'[m][n] = "ok"
    BY <2>1 DEF Handle, TypeOK, QueueTypeOK
  <2>3. outputs'[m][n] = UNION {x.channels : x \in {y \in notifications[m] : y.id = n}}
    BY <1>2 DEF RecordProcessed, TypeOK
  <2>4. OnRecord(m, n)'
    BY <2>1, <2>2, <2>3 DEF OnRecord
  <2> QED
    BY <2>1, <2>4, HandleKeepsEnd
<1>3. CASE ThrowUnexpected(m, n)
  <2>1. Handle(m, n, "permanent") /\ step' = step /\ glitch'[m]
    BY <1>3 DEF ThrowUnexpected, TypeOK
  <2>2. glitch'[m] \/ (notifications'[m] = notifications[m] /\ step[m][n] # "done")
    BY <2>1
  <2>3. (glitch[m] => glitch'[m]) /\ step'[m] = step[m]
    BY <2>1
  <2> QED
    BY <2>1, <2>2, <2>3, HandleKeepsEnd
<1> QED
  BY <1>1, <1>2, <1>3, MessageKeepsEnd, FailureKeepsEnd DEF Index

-----------------------------------------------------------------------------
(* The invariant.                                                          *)

LEMMA CreatedInvInit == Init => CreatedInv
<1> SUFFICES ASSUME Init
             PROVE  CreatedInv
  OBVIOUS
<1> USE DEF Init
<1>1. QueueInv
  BY QueueInvInit
<1>2. TypeOK
  BY <1>1, ProfileAssumption DEF QueueInv, TypeOK, Status, HandlerStep, NoProfile, ProfileType
<1>3. SenderInv
  BY DEF SenderInv
<1>4. ASSUME NEW m \in Msgs
      PROVE  StoreInv(m) /\ EndInv(m) /\ OnceInv(m)
  <2>1. StoreInv(m)
    BY DEF StoreInv, AcceptedInv, ProgressInv, VisibleInv, NotificationInv, OutputInv,
       RefusedInv
  <2>2. EndInv(m) /\ OnceInv(m)
    BY DEF QueueInit, EndInv, OnceInv
  <2> QED
    BY <2>1, <2>2
<1> QED
  BY <1>1, <1>2, <1>3, <1>4 DEF CreatedInv

\* A step of message m keeps the invariant of every message.
LEMMA MessageStep ==
  ASSUME CreatedInv, NEW m \in Msgs,
         \/ Send(m) \/ HostStep(m)
         \/ \E n \in Attempts : \/ EndAttempt(m, n) \/ CrashAttempt(m, n) \/ Index(m, n)
                                \/ \E c \in Channels : FlushOutput(m, n, c),
         \A k \in Msgs : Growth(k)
  PROVE  SenderInv' /\ \A k \in Msgs : StoreInv(k)' /\ EndInv(k)' /\ OnceInv(k)'
<1> USE DEF CreatedInv
<1>1. OthersUnchanged(m) /\ StoreInv(m)'
  <2>1. 1 \in Attempts
    BY QueueAssumption DEF Attempts
  <2>2. CASE Send(m) \/ HostStep(m)
    BY <2>1, <2>2, HostKeepsStore DEF Send, HostStep
  <2>3. ASSUME NEW n \in Attempts, EndAttempt(m, n) \/ CrashAttempt(m, n)
        PROVE  OthersUnchanged(m) /\ StoreInv(m)'
    BY <2>3, HostKeepsStore DEF EndAttempt
  <2>4. ASSUME NEW n \in Attempts, HandleMessage(m, n)
        PROVE  OthersUnchanged(m) /\ StoreInv(m)'
    BY <2>4, FindKeepsStore, AttachKeepsStore, MakeVisibleKeepsStore, SaveSenderKeepsStore,
       CreateKeepsStore DEF HandleMessage
  <2>5. ASSUME NEW n \in Attempts, Index(m, n)
        PROVE  OthersUnchanged(m) /\ StoreInv(m)'
    BY <2>4, <2>5, HostKeepsStore, ProcessedKeepsStore, RejectedKeepsStore
       DEF Index, DropBadEvent, SetVisibility
  <2> QED
    BY <2>2, <2>3, <2>5, FlushKeepsStore
<1>2. EndInv(m)' /\ OnceInv(m)'
  BY HostKeepsEnd, EndKeepsEnd, IndexKeepsEnd, FlushKeepsEnd, QueueAssumption
     DEF Send, HostStep
<1>3. QueueOthers(m) /\ UNCHANGED wellFormed
  <2>1. 1 \in Attempts
    BY QueueAssumption DEF Attempts
  <2>2. CASE Send(m) \/ HostStep(m)
    BY <2>1, <2>2, QueueStepOthers DEF Send, HostStep, ownVars, input
  <2>3. ASSUME NEW n \in Attempts, EndAttempt(m, n) \/ CrashAttempt(m, n)
        PROVE  QueueOthers(m) /\ UNCHANGED wellFormed
    BY <2>3, QueueStepOthers DEF EndAttempt, CrashAttempt, ownVars, input
  <2>4. ASSUME NEW n \in Attempts, NEW c \in Channels, FlushOutput(m, n, c)
        PROVE  QueueOthers(m) /\ UNCHANGED wellFormed
    BY <2>4, QueueStepOthers DEF FlushOutput, input
  <2>5. ASSUME NEW n \in Attempts, HandleMessage(m, n)
        PROVE  (UNCHANGED queueVars \/ \E result : Handle(m, n, result)) /\ UNCHANGED wellFormed
    BY <2>5 DEF HandleMessage, FindProfile, AttachStoredContent, MakeVisible,
       SaveSenderService, SkipNotification, CreateNotification, Write, FailTransiently,
       GoStep, input
  <2>6. ASSUME NEW n \in Attempts, Index(m, n)
        PROVE  QueueOthers(m) /\ UNCHANGED wellFormed
    BY <2>5, <2>6, QueueStepOthers DEF Index, DropBadEvent, RecordProcessed, ThrowUnexpected,
       SetVisibility, RecordThrottled, RecordRejected, HandleQueueProcessingFailure,
       ownVars, input
  <2> QED
    BY <2>2, <2>3, <2>4, <2>6
<1>4. \A k \in Msgs \ {m} : StoreInv(k)' /\ EndInv(k)' /\ OnceInv(k)'
  BY <1>1, <1>3, StoreKept, OthersKeepEnd DEF OthersUnchanged
<1>5. SenderInv'
  <2>1. senderService' = senderService \/ (senderService' = m /\ ~pending[m])
    <3>1. ASSUME NEW n \in Attempts, SaveSenderService(m, n)
          PROVE  (senderService' = senderService \/ senderService' = m) /\ ~pending[m]
      BY <3>1, SaveSenderKeepsStore DEF SaveSenderService, Write
    <3>2. ASSUME NEW n \in Attempts, Index(m, n), ~SaveSenderService(m, n)
          PROVE  senderService' = senderService
      BY <3>2 DEF Index, DropBadEvent, HandleMessage, FindProfile, AttachStoredContent,
         MakeVisible, SkipNotification, CreateNotification, RecordProcessed,
         ThrowUnexpected, SetVisibility, RecordThrottled, RecordRejected, ownVars, store
    <3> QED
      BY <3>1, <3>2 DEF Send, HostStep, EndAttempt, CrashAttempt, FlushOutput, ownVars, store
  <2> QED
    BY <2>1, SenderAssumption DEF SenderInv, Growth, TypeOK
<1> QED
  BY <1>1, <1>2, <1>4, <1>5

LEMMA CreatedInvStep == CreatedInv /\ [Next]_vars => CreatedInv'
<1> SUFFICES ASSUME CreatedInv, [Next]_vars
             PROVE  CreatedInv'
  OBVIOUS
<1>1. QueueInv'
  BY HandlerStepIsQueueStep, QueueInvStep DEF CreatedInv
<1>2. TypeOK'
  BY <1>1, TypeStep DEF CreatedInv, QueueInv
<1>3. \A m \in Msgs : Growth(m)
  BY GrowthStep DEF CreatedInv
<1>4. CASE UNCHANGED vars
  <2> USE <1>4 DEF vars, ownVars, store, input, locals, queueVars
  <2>1. SenderInv'
    BY DEF CreatedInv, SenderInv
  <2>2. ASSUME NEW m \in Msgs
        PROVE  StoreInv(m)' /\ EndInv(m)' /\ OnceInv(m)'
    <3>1. StoreInv(m)'
      BY <1>3, StoreKept DEF CreatedInv, SameLocals, SameStore
    <3>2. EndInv(m)' /\ OnceInv(m)'
      BY DEF CreatedInv, EndInv, OnRecord, OnceInv, At
    <3> QED
      BY <3>1, <3>2
  <2> QED
    BY <1>1, <1>2, <2>1, <2>2 DEF CreatedInv
<1>5. CASE ChangeProfile
  <2> USE <1>5 DEF ChangeProfile, store, input, locals, queueVars
  <2>1. SenderInv'
    BY DEF CreatedInv, SenderInv
  <2>2. ASSUME NEW m \in Msgs
        PROVE  StoreInv(m)' /\ EndInv(m)' /\ OnceInv(m)'
    <3>1. StoreInv(m)'
      BY <1>3, StoreKept DEF CreatedInv, SameLocals, SameStore
    <3>2. EndInv(m)' /\ OnceInv(m)'
      BY DEF CreatedInv, EndInv, OnRecord, OnceInv, At
    <3> QED
      BY <3>1, <3>2
  <2> QED
    BY <1>1, <1>2, <2>1, <2>2 DEF CreatedInv
<1>6. ASSUME NEW m \in Msgs,
             \/ Send(m) \/ HostStep(m)
             \/ \E n \in Attempts : \/ EndAttempt(m, n) \/ CrashAttempt(m, n) \/ Index(m, n)
                                    \/ \E c \in Channels : FlushOutput(m, n, c)
      PROVE  CreatedInv'
  BY <1>1, <1>2, <1>3, <1>6, MessageStep DEF CreatedInv
<1> QED
  BY <1>4, <1>5, <1>6 DEF Next

LEMMA CreatedInvariant == Spec => []CreatedInv
BY CreatedInvInit, CreatedInvStep, PTL DEF Spec

-----------------------------------------------------------------------------
(* The theorems.                                                           *)

\* The state always has its type.
THEOREM TypeCorrect == Spec => []TypeOK
BY CreatedInvariant, PTL DEF CreatedInv

\* The inbox never lists a message without content, however often the handler is
\* retried and wherever it crashes: see VisibleHasContent.
THEOREM VisibleHasContentCorrect == Spec => []VisibleHasContent
<1>1. CreatedInv => VisibleHasContent
  BY DEF CreatedInv, StoreInv, VisibleInv, VisibleHasContent
<1> QED
  BY <1>1, CreatedInvariant, PTL

LEMMA QueuedCanRead == CreatedInv => NotifiedCanRead
<1> SUFFICES ASSUME CreatedInv
             PROVE  NotifiedCanRead
  OBVIOUS
<1> USE DEF CreatedInv, StoreInv
<1>1. ASSUME NEW m \in Msgs, NEW e \in queued[m]
      PROVE  /\ \E x \in notifications[m] : x.id = e.id /\ e.channel \in x.channels
             /\ content[m] /\ ~pending[m]
  BY <1>1 DEF OutputInv, Notified, NotificationInv, VisibleInv
<1>2. ASSUME NEW m \in SenderServices
      PROVE  content[m] /\ ~pending[m]
  BY <1>2 DEF SenderServices, SenderInv, VisibleInv, TypeOK
<1> QED
  BY <1>1, <1>2 DEF NotifiedCanRead

\* Whatever is queued for a channel can be read by its recipient: see NotifiedCanRead.
THEOREM NotifiedCanReadCorrect == Spec => []NotifiedCanRead
BY QueuedCanRead, CreatedInvariant, PTL

LEMMA QueuedAsChosen == CreatedInv => ChoicesRespected
<1> SUFFICES ASSUME CreatedInv, NEW m \in Msgs
             PROVE  /\ ~pending[m] => \E p \in pastProfiles : Accepts(p)
                    /\ \A e \in queued[m] : \E p \in pastProfiles :
                         /\ p.exists /\ p.inbox /\ p.blocked \cap {"INBOX", e.channel} = {}
                         /\ e.channel = "WEBHOOK" => p.webhook
                         /\ e.channel = "EMAIL" => p.email \/ defaultEmail[m]
  BY DEF ChoicesRespected, Accepts
<1> USE DEF CreatedInv, StoreInv
<1>1. ~pending[m] => \E p \in pastProfiles : Accepts(p)
  BY DEF VisibleInv
<1>2. ASSUME NEW e \in queued[m]
      PROVE  \E p \in pastProfiles :
               /\ p.exists /\ p.inbox /\ p.blocked \cap {"INBOX", e.channel} = {}
               /\ e.channel = "WEBHOOK" => p.webhook
               /\ e.channel = "EMAIL" => p.email \/ defaultEmail[m]
  <2>1. Allowed(m, e.channel)
    BY DEF OutputInv, Notified, NotificationInv
  <2>2. PICK p \in pastProfiles : Accepts(p) /\ e.channel \in AllowedChannels(p, m)
    BY <2>1 DEF Allowed
  <2> QED
    BY <2>2 DEF Accepts, AllowedChannels, Channels
<1> QED
  BY <1>1, <1>2

\* Only what some profile of the recipient allowed happens, whatever the recipient
\* changes meanwhile: see ChoicesRespected.
THEOREM ChoicesRespectedCorrect == Spec => []ChoicesRespected
BY QueuedAsChosen, CreatedInvariant, PTL

\* REJECTED is never recorded because of a failure: see RejectedWasRefused.
THEOREM RejectedWasRefusedCorrect == Spec => []RejectedWasRefused
<1>1. CreatedInv => RejectedWasRefused
  BY DEF CreatedInv, StoreInv, RefusedInv, RejectedWasRefused, Accepts
<1> QED
  BY <1>1, CreatedInvariant, PTL

LEMMA HandledCompletely == CreatedInv => SettledIsComplete
<1> SUFFICES ASSUME CreatedInv, NEW m \in Msgs, wellFormed[m],
                    NEW result, Settled(m, result)
             PROVE  /\ result = "permanent" => versions[m] \cap {"REJECTED", "FAILED"} # {}
                    /\ result = "ok" =>
                         /\ content[m] /\ ~pending[m] /\ SenderServices # {}
                         /\ \A x \in notifications[m] : x.id = dequeueCount[m] =>
                              \A c \in x.channels :
                                [id |-> x.id, channel |-> c] \in queued[m]
  BY DEF SettledIsComplete
<1> DEFINE n == dequeueCount[m]
<1>1. n \in Attempts /\ OnRecord(m, n) /\ outputs[m][n] = {} /\ outcome[m][n] = result
  BY DEF CreatedInv, EndInv, Settled
<1> HIDE DEF n
<1>2. CASE result = "ok"
  <2>1. step[m][n] = "done"
    BY <1>1, <1>2 DEF OnRecord
  <2>2. content[m] /\ ~pending[m] /\ senderService # "none"
    BY <1>1, <2>1 DEF CreatedInv, StoreInv, ProgressInv
  <2>3. \A x \in notifications[m] : x.id = n =>
          \A c \in x.channels : [id |-> x.id, channel |-> c] \in queued[m]
    BY <1>1, <1>2 DEF OnRecord
  <2> QED
    BY <1>2, <2>2, <2>3 DEF SenderServices, n
<1>3. CASE result = "permanent"
  BY <1>1, <1>3 DEF OnRecord
<1> QED
  BY <1>2, <1>3

\* A message leaves the queue completely handled: see SettledIsComplete.
THEOREM SettledIsCompleteCorrect == Spec => []SettledIsComplete
BY HandledCompletely, CreatedInvariant, PTL

\* A retry alone makes no second notification, nor does an attempt that overlaps with
\* it: see NotifiedOnce.
THEOREM NotifiedOnceCorrect == Spec => []NotifiedOnce
<1>1. CreatedInv => NotifiedOnce
  <2> SUFFICES ASSUME CreatedInv, NEW m \in Msgs, ~glitch[m]
               PROVE  Cardinality(notifications[m]) <= 1
    BY DEF NotifiedOnce
  <2>1. CASE notifications[m] = {}
    BY <2>1, FS_EmptySet
  <2>2. CASE notifications[m] # {}
    <3>1. \A x, y \in notifications[m] : x = y
      BY <2>2 DEF CreatedInv, OnceInv
    <3>2. PICK x \in notifications[m] : TRUE
      BY <2>2
    <3>3. notifications[m] = {x}
      BY <3>1, <3>2
    <3>4. Cardinality({x}) = 1
      BY FS_Singleton
    <3> QED
      BY <3>3, <3>4
  <2> QED
    BY <2>1, <2>2
<1> QED
  BY <1>1, CreatedInvariant, PTL
=============================================================================
