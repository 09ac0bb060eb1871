------------------------------ MODULE Profiles ------------------------------
(***************************************************************************)
(* The profile of one recipient: the requests that create and update it    *)
(* (lib/controllers/profiles.ts) and the handler of the "profileevents"    *)
(* queue (lib/profile_events_queue_handler.ts), on top of QueueDelivery.   *)
(*                                                                         *)
(* A profile document is never changed: an update creates the document of  *)
(* the next version, and the database refuses a version that exists.       *)
(* Versions are numbered from 1 here and from 0 in the database.  The      *)
(* message v of the queue is the event of version v.                       *)
(***************************************************************************)
EXTENDS QueueDelivery, Sequences, FiniteSets

CONSTANTS Requests,        \* the requests that are ever made
          WelcomeMessages  \* profile_events_queue_handler.ts: welcomeMessages

Versions == Msgs

ASSUME ProfileAssumption ==
  /\ IsFiniteSet(Requests) /\ IsFiniteSet(Msgs)
  /\ Versions = 1..Cardinality(Msgs)
  /\ Cardinality(Requests) <= Cardinality(Msgs)

VARIABLES
  docs,      \* docs[v]: version v of the profile
  rpc,       \* rpc[r]: where request r is
  payload,   \* payload[r]: what request r asks for; version 0 is no version
  existing,  \* existing[r]: the version request r found, 0 if none
  response,  \* response[r]: how request r was answered
  binding,   \* binding[r]: the output binding profileEvent of request r
  events,    \* events[v]: the event of version v, as it was queued
  lost,      \* versions whose request crashed or got no answer (a ghost)
  step,      \* step[v][n]: where attempt n is inside the stage "handle"
  posting,   \* posting[v][n]: welcome messages whose POST is in flight
  failed,    \* failed[v][n]: a POST of attempt n failed
  welcomes   \* welcomes[v][k]: how often message k was created for event v

requestVars == <<docs, rpc, payload, existing, response, binding, events, lost>>
handlerVars == <<step, posting, failed, welcomes>>
vars == <<queueVars, requestVars, handlerVars>>

Payload == [inbox : BOOLEAN, version : Versions \cup {0}]
Response == {"none", "success", "conflict", "queryError"}
RequestStep == {"idle", "find", "create", "update", "flush", "end"}
Event == [kind : {"ProfileCreatedEvent", "ProfileUpdatedEvent"},
          version : Versions, old : BOOLEAN, new : BOOLEAN]

NoEvent == [kind |-> "none", version |-> 0, old |-> FALSE, new |-> FALSE]

Init ==
  /\ QueueInit
  /\ docs = <<>>
  /\ rpc = [r \in Requests |-> "idle"]
  /\ payload = [r \in Requests |-> [inbox |-> FALSE, version |-> 0]]
  /\ existing = [r \in Requests |-> 0]
  /\ response = [r \in Requests |-> "none"]
  /\ binding = [r \in Requests |-> NoEvent]
  /\ events = [v \in Versions |-> NoEvent]
  /\ lost = {}
  /\ step = [v \in Versions |-> [n \in Attempts |-> "start"]]
  /\ posting = [v \in Versions |-> [n \in Attempts |-> {}]]
  /\ failed = [v \in Versions |-> [n \in Attempts |-> FALSE]]
  /\ welcomes = [v \in Versions |-> [k \in WelcomeMessages |-> 0]]

-----------------------------------------------------------------------------
(* UpsertProfileHandler.                                                   *)

Goes(r, s) == rpc' = [rpc EXCEPT ![r] = s]

Answer(r, kind) == /\ Goes(r, IF kind = "success" THEN "flush" ELSE "end")
                   /\ response' = [response EXCEPT ![r] = kind]

Call(r) ==
  /\ rpc[r] = "idle"
  /\ Goes(r, "find")
  /\ \E p \in Payload : payload' = [payload EXCEPT ![r] = p]
  /\ UNCHANGED <<queueVars, docs, existing, response, binding, events, lost, handlerVars>>

\* Variant: the version of the payload is not compared.
FindAnyVersion(r) ==
  /\ rpc[r] = "find"
  /\ \E k \in 0..Len(docs) :
       /\ existing' = [existing EXCEPT ![r] = k]
       /\ Goes(r, IF k = 0 THEN "create" ELSE "update")
       /\ UNCHANGED response
  /\ UNCHANGED <<queueVars, docs, payload, binding, events, lost, handlerVars>>

\* findOneProfileByFiscalCode, and what follows from it.  The query may fail,
\* and it may miss the latest versions.
FindProfile(r) ==
  /\ rpc[r] = "find"
  /\ \/ Answer(r, "queryError") /\ UNCHANGED existing
     \/ \E k \in 0..Len(docs) :
          /\ existing' = [existing EXCEPT ![r] = k]
          /\ \/ k = 0 /\ Goes(r, "create") /\ UNCHANGED response
             \/ k > 0 /\ payload[r].version = k /\ Goes(r, "update") /\ UNCHANGED response
             \/ k > 0 /\ payload[r].version # k /\ Answer(r, "conflict")
  /\ UNCHANGED <<queueVars, docs, payload, binding, events, lost, handlerVars>>

\* Version v is created for request r, unless there is one already.
Save(r, v) ==
  /\ Len(docs) = v - 1
  /\ docs' = Append(docs, [inbox |-> payload[r].inbox, by |-> r, base |-> payload[r].version])

\* Variant: the result of the write is not looked at.
WriteIgnoringErrors(r, v, event) ==
  /\ Save(r, v) \/ UNCHANGED docs
  /\ Answer(r, "success")
  /\ binding' = [binding EXCEPT ![r] = event]
  /\ UNCHANGED lost

\* The model saves version v and answers with it, so that event goes out with
\* the response; or the operation fails, after taking effect or not.
Write(r, v, event) ==
  \/ /\ Save(r, v)
     /\ Answer(r, "success")
     /\ binding' = [binding EXCEPT ![r] = event]
     /\ UNCHANGED lost
  \/ /\ Save(r, v)
     /\ Answer(r, "queryError")
     /\ lost' = lost \cup {v}
     /\ UNCHANGED binding
  \/ /\ Answer(r, "queryError")
     /\ UNCHANGED <<docs, lost, binding>>

\* Variant: the event is broadcast for an update only.
CreateSilently(r) ==
  /\ rpc[r] = "create"
  /\ Write(r, 1, NoEvent)
  /\ UNCHANGED <<queueVars, payload, existing, events, handlerVars>>

\* createNewProfileFromPayload.
CreateProfile(r) ==
  /\ rpc[r] = "create"
  /\ Write(r, 1, [kind |-> "ProfileCreatedEvent", version |-> 1,
                  old |-> FALSE, new |-> payload[r].inbox])
  /\ UNCHANGED <<queueVars, payload, existing, events, handlerVars>>

\* Variant: the old profile of the event is read after the update.
UpdateThenRead(r) ==
  /\ rpc[r] = "update"
  /\ LET v == existing[r] + 1
     IN  Write(r, v, [kind |-> "ProfileUpdatedEvent", version |-> v,
                      old |-> docs'[Len(docs')].inbox, new |-> payload[r].inbox])
  /\ UNCHANGED <<queueVars, payload, existing, events, handlerVars>>

\* updateExistingProfileFromPayload: the next version of the one that was found.
UpdateProfile(r) ==
  /\ rpc[r] = "update"
  /\ LET v == existing[r] + 1
     IN  Write(r, v, [kind |-> "ProfileUpdatedEvent", version |-> v,
                      old |-> docs[existing[r]].inbox, new |-> payload[r].inbox])
  /\ UNCHANGED <<queueVars, payload, existing, events, handlerVars>>

\* The host enqueues the output binding, if one was set.
FlushEvent(r) ==
  /\ rpc[r] = "flush"
  /\ Goes(r, "end")
  /\ LET e == binding[r]
     IN  IF e = NoEvent THEN UNCHANGED <<queueVars, events>>
         ELSE /\ Enqueue(e.version)
              /\ events' = [events EXCEPT ![e.version] = e]
  /\ UNCHANGED <<docs, payload, existing, response, binding, lost, handlerVars>>

\* The process running the request dies, or the host stops it.
CrashRequest(r) ==
  /\ rpc[r] \notin {"idle", "end"}
  /\ Goes(r, "end")
  /\ lost' = lost \cup {v \in DOMAIN docs : docs[v].by = r}
  /\ UNCHANGED <<queueVars, docs, payload, existing, response, binding, events, handlerVars>>

UpsertProfile(r) ==
  FindProfile(r) \/ CreateProfile(r) \/ UpdateProfile(r) \/ FlushEvent(r)

-----------------------------------------------------------------------------
(* The handler of the profile events.  It does not use                     *)
(* handleQueueProcessingFailure: it always returns normally.               *)

\* Variant: the old profile is not looked at.
EnabledInbox(e) == e.new

\* hasJustEnabledInbox.
HasJustEnabledInbox(e) ==
  /\ e.new
  /\ \/ e.kind = "ProfileCreatedEvent"
     \/ e.kind = "ProfileUpdatedEvent" /\ ~e.old

At(v, n, s) == pc[v][n] = "handle" /\ step[v][n] = s

\* sendWelcomeMessages: all the POSTs start at once.
StartWelcome(v, n) ==
  /\ At(v, n, "start")
  /\ HasJustEnabledInbox(events[v])
  /\ step' = [step EXCEPT ![v][n] = "sending"]
  /\ posting' = [posting EXCEPT ![v][n] = WelcomeMessages]
  /\ UNCHANGED <<queueVars, requestVars, failed, welcomes>>

SkipWelcome(v, n) ==
  /\ At(v, n, "start")
  /\ ~HasJustEnabledInbox(events[v])
  /\ Handle(v, n, "ok")
  /\ UNCHANGED <<requestVars, handlerVars>>

\* A POST ends, even after its attempt did: the message was created or not,
\* and the answer to a POST that created it may be lost.
EndPost(v, n, k) ==
  /\ k \in posting[v][n]
  /\ posting' = [posting EXCEPT ![v][n] = @ \ {k}]
  /\ \E created \in BOOLEAN, answered \in BOOLEAN :
       /\ welcomes' = [welcomes EXCEPT ![v][k] = IF created THEN @ + 1 ELSE @]
       /\ failed' = [failed EXCEPT ![v][n] = @ \/ ~created \/ ~answered]
  /\ UNCHANGED <<queueVars, requestVars, step>>

\* Variant: waits for the first POST only (Promise.race).
EndWelcomeEarly(v, n) ==
  /\ At(v, n, "sending")
  /\ posting[v][n] # WelcomeMessages
  /\ Handle(v, n, "ok")
  /\ UNCHANGED <<requestVars, handlerVars>>

\* Promise.all resolves, or rejects at the first failure, which is only tracked.
EndWelcome(v, n) ==
  /\ At(v, n, "sending")
  /\ posting[v][n] = {} \/ failed[v][n]
  /\ Handle(v, n, "ok")
  /\ UNCHANGED <<requestVars, handlerVars>>

Index(v, n) == StartWelcome(v, n) \/ SkipWelcome(v, n) \/ EndWelcome(v, n)

HostStep(v) == HostMessageStep(v) /\ UNCHANGED <<requestVars, handlerVars>>

EndAttempt(v, n) == Complete(v, n) /\ UNCHANGED <<requestVars, handlerVars>>

CrashAttempt(v, n) == Crash(v, n) /\ UNCHANGED <<requestVars, handlerVars>>

Next ==
  \/ \E r \in Requests : Call(r) \/ UpsertProfile(r) \/ CrashRequest(r)
  \/ \E v \in Versions :
       \/ HostStep(v)
       \/ \E n \in Attempts :
            \/ EndAttempt(v, n)
            \/ CrashAttempt(v, n)
            \/ Index(v, n)
            \/ \E k \in WelcomeMessages : EndPost(v, n, k)

Spec == Init /\ [][Next]_vars

-----------------------------------------------------------------------------
(* Properties.                                                             *)

TypeOK ==
  /\ QueueTypeOK
  /\ docs \in Seq([inbox : BOOLEAN, by : Requests, base : Versions \cup {0}])
  /\ Len(docs) <= Cardinality(Versions)
  /\ rpc \in [Requests -> RequestStep]
  /\ payload \in [Requests -> Payload]
  /\ existing \in [Requests -> Versions \cup {0}]
  /\ response \in [Requests -> Response]
  /\ binding \in [Requests -> Event \cup {NoEvent}]
  /\ events \in [Versions -> Event \cup {NoEvent}]
  /\ lost \subseteq Versions
  /\ step \in [Versions -> [Attempts -> {"start", "sending"}]]
  /\ posting \in [Versions -> [Attempts -> SUBSET WelcomeMessages]]
  /\ failed \in [Versions -> [Attempts -> BOOLEAN]]
  /\ welcomes \in [Versions -> [WelcomeMessages -> Nat]]

\* An update never overwrites one its client did not know of: every version was
\* made from the one before it, whatever the interleaving of the requests and
\* however old the version a query found.
NoLostUpdate == \A v \in 2..Len(docs) : docs[v].base = v - 1

\* A client told of success has its own version, and no request makes two.
SuccessIsSaved ==
  \A r \in Requests :
    LET own == {v \in DOMAIN docs : docs[v].by = r}
    IN  /\ Cardinality(own) <= 1
        /\ response[r] = "success" => \E v \in own : docs[v].inbox = payload[r].inbox

\* An event tells what happened: the new profile is the version it is about, and
\* the old one is the version before that.
EventTellsHistory ==
  \A v \in Versions : events[v] # NoEvent =>
    /\ v <= Len(docs)
    /\ events[v].new = docs[v].inbox
    /\ (events[v].kind = "ProfileCreatedEvent") <=> (v = 1)
    /\ v > 1 => events[v].old = docs[v - 1].inbox

\* Every version has its event queued, now or with the response its request is
\* about to give, unless that request crashed or its database write gave an
\* error after taking effect.
EveryVersionHasEvent ==
  \A v \in DOMAIN docs :
    \/ events[v] # NoEvent
    \/ v \in lost
    \/ rpc[docs[v].by] = "flush" /\ binding[docs[v].by].version = v

\* Welcome messages are only sent when the inbox was enabled by the version the
\* event is about: not on any other edit of the profile.
WelcomeOnEnableOnly ==
  \A v \in Versions : \A k \in WelcomeMessages :
    welcomes[v][k] > 0 => v <= Len(docs) /\ docs[v].inbox /\ (v = 1 \/ ~docs[v - 1].inbox)

\* An event handled once, in one attempt, sends every welcome message once, or
\* one of its POSTs failed.
WelcomeComplete ==
  \A v \in Versions :
    dequeueCount[v] = 1 /\ visibility[v] = "gone" /\ HasJustEnabledInbox(events[v])
      => \/ failed[v][1]
         \/ \A k \in WelcomeMessages : welcomes[v][k] = 1

\* What a client sees of its request.
RequestPhase(r) ==
  IF rpc[r] = "idle" THEN "idle" ELSE IF response[r] = "none" THEN "open" ELSE response[r]

History == INSTANCE ProfileHistory WITH
             history <- docs, phase <- [r \in Requests |-> RequestPhase(r)]

\* A request takes effect at once, at most once, and before it is answered, however
\* its query and its write are interleaved with those of others, whatever it misses,
\* and wherever it dies; an event is only queued of a version that is there for good.
ImplementsHistory == History!Spec
=============================================================================
