---------------------------- MODULE ProfilesProofs ----------------------------
(***************************************************************************)
(* Proofs about Profiles for every set of requests and welcome messages,   *)
(* and every MaxDequeueCount and MaxRetries as in QueueDelivery.           *)
(*                                                                         *)
(* The documents only ever grow by the next version, so that the event of  *)
(* a version is fixed with it (EventOf), whatever the order in which the   *)
(* requests queue their events.                                            *)
(***************************************************************************)
EXTENDS Profiles, QueueDeliveryProofs, FiniteSetTheorems

Doc == [inbox : BOOLEAN, by : Requests, base : Versions \cup {0}]

\* The requests that have made a version.
Authors == {docs[v].by : v \in DOMAIN docs}

\* What there is to tell of version v.
EventOf(v) == [kind |-> IF v = 1 THEN "ProfileCreatedEvent" ELSE "ProfileUpdatedEvent",
               version |-> v,
               old |-> IF v = 1 THEN FALSE ELSE docs[v - 1].inbox,
               new |-> docs[v].inbox]

\* Every version was made from the one before it, by a request of its own.
DocsInv ==
  /\ Len(docs) = Cardinality(Authors)
  /\ \A v \in 2..Len(docs) : docs[v].base = v - 1
  /\ \A v, w \in DOMAIN docs : docs[v].by = docs[w].by => v = w
  /\ \A v \in DOMAIN docs : docs[v].inbox = payload[docs[v].by].inbox

\* Where a request is tells what it has read and made.
RequestInv ==
  \A r \in Requests :
    /\ rpc[r] \in {"idle", "find", "create", "update"} => r \notin Authors
    /\ rpc[r] = "update" => /\ existing[r] \in DOMAIN docs
                            /\ payload[r].version = existing[r]
    /\ response[r] = "success" => r \in Authors
    /\ binding[r] # NoEvent =>
         \E v \in DOMAIN docs : docs[v].by = r /\ binding[r] = EventOf(v)

EventInv == \A v \in Versions : events[v] # NoEvent =>
              v \in DOMAIN docs /\ events[v] = EventOf(v)

Enabled(v) == HasJustEnabledInbox(events[v])

\* A version that was never queued was never handled.
AbsentInv(v) == /\ visibility[v] = "absent" => dequeueCount[v] = 0
                /\ visibility[v] # "absent" => events[v] # NoEvent

\* Welcome messages are posted by attempts that found the inbox just enabled.
PostingInv(v) ==
  /\ \A n \in Attempts :
       /\ step[v][n] = "sending" => Enabled(v)
       /\ step[v][n] = "start" => posting[v][n] = {} /\ ~failed[v][n]
       /\ step[v][n] = "sending" => n <= dequeueCount[v]
  /\ \A k \in WelcomeMessages : welcomes[v][k] > 0 => Enabled(v)

\* The first attempt, as long as there is no second one.
FirstInv(v) ==
  dequeueCount[v] <= 1 =>
    /\ \A k \in WelcomeMessages :
         ~failed[v][1] =>
           welcomes[v][k] = IF step[v][1] = "start" \/ k \in posting[v][1] THEN 0 ELSE 1
    /\ (pc[v][1] = "return" \/ visibility[v] = "gone") /\ Enabled(v) =>
         /\ step[v][1] = "sending"
         /\ posting[v][1] = {} \/ failed[v][1]

RecordsInv == DocsInv /\ RequestInv /\ EventInv /\ EveryVersionHasEvent

VersionInv(v) == AbsentInv(v) /\ PostingInv(v) /\ FirstInv(v)

ProfilesInv == /\ QueueInv
               /\ TypeOK
               /\ RecordsInv
               /\ \A v \in Versions : VersionInv(v)

-----------------------------------------------------------------------------
(* The steps of the handler are steps of the queue.                        *)

LEMMA ProfileStepIsQueueStep == TypeOK /\ [Next]_vars => [QueueNext]_queueVars
<1> SUFFICES ASSUME TypeOK, [Next]_vars
             PROVE  [QueueNext]_queueVars
  OBVIOUS
<1>1. CASE UNCHANGED vars
  BY <1>1 DEF vars
<1>2. ASSUME NEW r \in Requests, Call(r) \/ CrashRequest(r) \/ FindProfile(r)
                                 \/ CreateProfile(r) \/ UpdateProfile(r)
      PROVE  UNCHANGED queueVars
  BY <1>2 DEF Call, CrashRequest, FindProfile, CreateProfile, UpdateProfile
<1>3. ASSUME NEW r \in Requests, FlushEvent(r)
      PROVE  [QueueNext]_queueVars
  <2>1. binding[r] # NoEvent => binding[r].version \in Msgs
    BY DEF TypeOK, Event, Versions
  <2> QED
    BY <1>3, <2>1 DEF FlushEvent, QueueNext
<1>4. ASSUME NEW v \in Msgs, NEW n \in Attempts,
             EndAttempt(v, n) \/ CrashAttempt(v, n) \/ Index(v, n)
      PROVE  [QueueNext]_queueVars
  BY <1>4 DEF EndAttempt, CrashAttempt, Index, StartWelcome, SkipWelcome, EndWelcome,
     HostAttemptStep, Handler, Outcome, QueueNext
<1>5. ASSUME NEW v \in Msgs, HostStep(v)
      PROVE  [QueueNext]_queueVars
  BY <1>5 DEF HostStep, QueueNext
<1>6. ASSUME NEW v \in Msgs, NEW n \in Attempts, NEW k \in WelcomeMessages, EndPost(v, n, k)
      PROVE  UNCHANGED queueVars
  BY <1>6 DEF EndPost
<1> QED
  BY <1>1, <1>2, <1>3, <1>4, <1>5, <1>6 DEF Next, UpsertProfile, Versions

-----------------------------------------------------------------------------
(* The documents.                                                          *)

\* Creating a version appends it.
LEMMA SaveMeaning ==
  ASSUME TypeOK, NEW r \in Requests, NEW v \in Nat, Save(r, v)
  PROVE  /\ docs' \in Seq(Doc) /\ Len(docs') = v /\ Len(docs) = v - 1
         /\ DOMAIN docs' = DOMAIN docs \cup {v} /\ v \notin DOMAIN docs
         /\ \A i \in DOMAIN docs : docs'[i] = docs[i]
         /\ docs'[v] = [inbox |-> payload[r].inbox, by |-> r, base |-> payload[r].version]
         /\ Authors' = Authors \cup {r}
<1> DEFINE doc == [inbox |-> payload[r].inbox, by |-> r, base |-> payload[r].version]
<1>1. docs \in Seq(Doc) /\ doc \in Doc
  BY DEF TypeOK, Doc, Payload
<1>2. docs' = Append(docs, doc) /\ Len(docs) = v - 1
  BY DEF Save
<1> HIDE DEF doc
<1>3. /\ docs' \in Seq(Doc) /\ Len(docs') = Len(docs) + 1
      /\ \A i \in 1..Len(docs) : docs'[i] = docs[i]
      /\ docs'[Len(docs) + 1] = doc
  BY <1>1, <1>2
<1>4. DOMAIN docs = 1..Len(docs) /\ DOMAIN docs' = 1..Len(docs') /\ Len(docs) \in Nat
  BY <1>1, <1>3
<1>5. /\ DOMAIN docs' = DOMAIN docs \cup {v} /\ v \notin DOMAIN docs
      /\ Len(docs') = v
  BY <1>2, <1>3, <1>4
<1>6. docs'[v] = doc
  BY <1>2, <1>3, <1>4
<1>7. Authors' = Authors \cup {r}
  BY <1>3, <1>4, <1>5, <1>6 DEF Authors, doc
<1> QED
  BY <1>2, <1>3, <1>4, <1>5, <1>6, <1>7 DEF doc

LEMMA AuthorsAreRequests ==
  ASSUME docs \in Seq(Doc)
  PROVE  \A v \in DOMAIN docs : docs[v].by \in Authors /\ docs[v].by \in Requests
<1> SUFFICES ASSUME NEW v \in DOMAIN docs
             PROVE  docs[v].by \in Authors /\ docs[v].by \in Requests
  OBVIOUS
<1>1. docs[v] \in Doc
  OBVIOUS
<1> QED
  BY <1>1 DEF Doc, Authors

\* There are no more versions than requests.
LEMMA FewVersions ==
  ASSUME NEW d \in Seq(Doc), Len(d) = Cardinality({d[v].by : v \in DOMAIN d})
  PROVE  Len(d) <= Cardinality(Versions) /\ IsFiniteSet({d[v].by : v \in DOMAIN d})
<1> DEFINE by == {d[v].by : v \in DOMAIN d}
<1>1. by \subseteq Requests
  <2> SUFFICES ASSUME NEW v \in DOMAIN d
               PROVE  d[v].by \in Requests
    OBVIOUS
  <2>1. d[v] \in Doc
    OBVIOUS
  <2> QED
    BY <2>1 DEF Doc
<1> HIDE DEF by
<1>2. IsFiniteSet(by) /\ Cardinality(by) <= Cardinality(Requests)
  BY <1>1, ProfileAssumption, FS_Subset
<1>3. /\ Cardinality(by) \in Nat /\ Cardinality(Requests) \in Nat
      /\ Cardinality(Msgs) \in Nat
  BY <1>2, ProfileAssumption, FS_CardinalityType
<1> QED
  BY <1>2, <1>3, ProfileAssumption DEF Versions, by

\* The numbers of the documents are versions.
LEMMA VersionNumbers ==
  ASSUME TypeOK
  PROVE  /\ \A v \in DOMAIN docs : v \in Versions /\ v # 0
         /\ \A v \in 0..Len(docs) : v \in Versions \cup {0}
<1>1. Cardinality(Msgs) \in Nat
  BY ProfileAssumption, FS_CardinalityType
<1>2. DOMAIN docs = 1..Len(docs) /\ Len(docs) \in Nat /\ Len(docs) <= Cardinality(Msgs)
  BY DEF TypeOK, Versions
<1> QED
  BY <1>1, <1>2, ProfileAssumption

\* The event of a version is fixed with the version.
LEMMA EventOfKept ==
  ASSUME docs \in Seq(Doc), \A i \in DOMAIN docs : docs'[i] = docs[i], NEW v \in DOMAIN docs
  PROVE  EventOf(v)' = EventOf(v)
<1>1. v # 1 => v - 1 \in DOMAIN docs
  OBVIOUS
<1>2. docs'[v] = docs[v] /\ (v # 1 => docs'[v - 1] = docs[v - 1])
  BY <1>1
<1> QED
  BY <1>2 DEF EventOf

-----------------------------------------------------------------------------
(* The requests.                                                           *)

\* The types of what the requests keep.
RecordsType ==
  /\ docs \in Seq(Doc) /\ Len(docs) <= Cardinality(Versions)
  /\ rpc \in [Requests -> RequestStep] /\ payload \in [Requests -> Payload]
  /\ existing \in [Requests -> Versions \cup {0}] /\ response \in [Requests -> Response]
  /\ binding \in [Requests -> Event \cup {NoEvent}]
  /\ events \in [Versions -> Event \cup {NoEvent}] /\ lost \subseteq Versions

\* A new version, with its event: at most one request makes it, and that request
\* makes no other.
LEMMA WriteKeepsRecords ==
  ASSUME TypeOK, RecordsInv, NEW r \in Requests, rpc[r] \in {"create", "update"},
         NEW v \in Nat \ {0}, NEW event, Write(r, v, event),
         v # 1 => payload[r].version = v - 1,
         Save(r, v) => event = EventOf(v)',
         UNCHANGED <<payload, existing, events>>
  PROVE  RecordsInv'
<1>1. r \notin Authors /\ Cardinality(Authors) = Len(docs) /\ docs \in Seq(Doc)
  BY DEF RecordsInv, RequestInv, DocsInv, TypeOK, Doc
<1>2. CASE UNCHANGED <<docs, lost, binding>> /\ Answer(r, "queryError")
  <2>1. Authors' = Authors
    BY <1>2 DEF Authors
  <2>2. /\ \A q \in Requests \ {r} : rpc'[q] = rpc[q] /\ response'[q] = response[q]
        /\ rpc'[r] = "end" /\ response'[r] = "queryError"
    BY <1>2 DEF Answer, Goes, TypeOK
  <2>3. DocsInv' /\ EventInv'
    BY <1>2, <2>1 DEF RecordsInv, DocsInv, EventInv, EventOf
  <2>4. RequestInv'
    <3>1. \A w : EventOf(w)' = EventOf(w)
      BY <1>2 DEF EventOf
    <3>2. ASSUME NEW q \in Requests
          PROVE  /\ rpc'[q] \in {"idle", "find", "create", "update"} => q \notin Authors
                 /\ rpc'[q] = "update" => /\ existing[q] \in DOMAIN docs
                                          /\ payload[q].version = existing[q]
                 /\ response'[q] = "success" => q \in Authors
      BY <2>2 DEF RecordsInv, RequestInv
    <3>3. ASSUME NEW q \in Requests, binding[q] # NoEvent
          PROVE  \E w \in DOMAIN docs : docs[w].by = q /\ binding[q] = EventOf(w)'
      BY <3>1, <3>3 DEF RecordsInv, RequestInv
    <3> QED
      BY <1>2, <2>1, <3>2, <3>3 DEF RequestInv
  <2>5. EveryVersionHasEvent'
    <3> SUFFICES ASSUME NEW w \in DOMAIN docs
                 PROVE  \/ events[w] # NoEvent
                        \/ w \in lost
                        \/ rpc'[docs[w].by] = "flush" /\ binding[docs[w].by].version = w
      BY <1>2 DEF EveryVersionHasEvent
    <3>1. docs[w].by \in Requests \ {r}
      BY <1>1, AuthorsAreRequests
    <3> QED
      BY <2>2, <3>1 DEF RecordsInv, EveryVersionHasEvent
  <2> QED
    BY <2>3, <2>4, <2>5 DEF RecordsInv
<1>3. CASE Save(r, v)
  <2>1. /\ docs' \in Seq(Doc) /\ Len(docs') = v /\ Len(docs) = v - 1
        /\ DOMAIN docs' = DOMAIN docs \cup {v} /\ v \notin DOMAIN docs
        /\ \A i \in DOMAIN docs : docs'[i] = docs[i]
        /\ docs'[v] = [inbox |-> payload[r].inbox, by |-> r, base |-> payload[r].version]
        /\ Authors' = Authors \cup {r}
    BY <1>3, SaveMeaning
  <2>2. \A w \in DOMAIN docs : docs[w].by # r /\ docs[w].by \in Authors /\ docs[w].by \in Requests
    BY <1>1, AuthorsAreRequests
  <2>3. DocsInv'
    <3>1. Len(docs') = Cardinality(Authors')
      <4>1. IsFiniteSet(Authors)
        BY <1>1, FewVersions DEF Authors
      <4>2. Cardinality(Authors') = Cardinality(Authors) + 1
        BY <1>1, <2>1, <4>1, FS_AddElement
      <4> QED
        BY <1>1, <2>1, <4>2
    <3>2. \A w \in 2..Len(docs') : docs'[w].base = w - 1
      <4> SUFFICES ASSUME NEW w \in 2..Len(docs')
                   PROVE  docs'[w].base = w - 1
        OBVIOUS
      <4>1. CASE w = v
        BY <2>1, <4>1
      <4>2. CASE w # v
        <5>1. w \in DOMAIN docs /\ w \in 2..Len(docs)
          BY <1>1, <2>1, <4>2
        <5> QED
          BY <2>1, <5>1 DEF RecordsInv, DocsInv
      <4> QED
        BY <4>1, <4>2
    <3>3. \A w, u \in DOMAIN docs' : docs'[w].by = docs'[u].by => w = u
      BY <2>1, <2>2 DEF RecordsInv, DocsInv
    <3>4. \A w \in DOMAIN docs' : docs'[w].inbox = payload'[docs'[w].by].inbox
      BY <2>1 DEF RecordsInv, DocsInv
    <3> QED
      BY <3>1, <3>2, <3>3, <3>4 DEF DocsInv
  <2>4. \A w \in DOMAIN docs : EventOf(w)' = EventOf(w)
    BY <1>1, <2>1, EventOfKept
  <2>5. EventInv'
    BY <2>1, <2>4 DEF RecordsInv, EventInv
  <2>6. \A q \in Requests \ {r} :
          rpc'[q] = rpc[q] /\ response'[q] = response[q] /\ binding'[q] = binding[q]
    BY DEF Write, Answer, Goes, TypeOK
  <2>7. /\ rpc'[r] \in {"flush", "end"}
        /\ binding'[r] \in {binding[r], EventOf(v)'}
        /\ \/ rpc'[r] = "flush" /\ binding'[r] = EventOf(v)'
           \/ v \in lost'
        /\ lost \subseteq lost'
    BY <1>3, <2>1 DEF Write, Answer, Goes, TypeOK
  <2>8. RequestInv'
    <3> SUFFICES ASSUME NEW q \in Requests
                 PROVE  /\ rpc'[q] \in {"idle", "find", "create", "update"} => q \notin Authors'
                        /\ rpc'[q] = "update" => /\ existing[q] \in DOMAIN docs'
                                                 /\ payload[q].version = existing[q]
                        /\ response'[q] = "success" => q \in Authors'
                        /\ binding'[q] # NoEvent =>
                             \E w \in DOMAIN docs' : docs'[w].by = q /\ binding'[q] = EventOf(w)'
      BY DEF RequestInv
    <3>1. binding[q] # NoEvent =>
            \E w \in DOMAIN docs' : docs'[w].by = q /\ binding[q] = EventOf(w)'
      BY <2>1, <2>4 DEF RecordsInv, RequestInv
    <3>2. CASE q = r
      BY <2>1, <2>7, <3>1, <3>2
    <3>3. CASE q # r
      BY <2>1, <2>6, <3>1, <3>3 DEF RecordsInv, RequestInv
    <3> QED
      BY <3>2, <3>3
  <2>9. EveryVersionHasEvent'
    <3> SUFFICES ASSUME NEW w \in DOMAIN docs'
                 PROVE  \/ events[w] # NoEvent
                        \/ w \in lost'
                        \/ rpc'[docs'[w].by] = "flush" /\ binding'[docs'[w].by].version = w
      BY DEF EveryVersionHasEvent
    <3>1. CASE w = v
      BY <2>1, <2>7, <3>1 DEF EventOf
    <3>2. CASE w # v
      <4>1. /\ w \in DOMAIN docs /\ docs'[w] = docs[w]
            /\ docs[w].by \in Requests \ {r}
        BY <2>1, <2>2, <3>2
      <4> QED
        BY <2>6, <2>7, <4>1 DEF RecordsInv, EveryVersionHasEvent
    <3> QED
      BY <3>1, <3>2
  <2> QED
    BY <2>3, <2>5, <2>8, <2>9 DEF RecordsInv
<1> QED
  BY <1>2, <1>3 DEF Write

\* Only where a request is, or what it asks for, changes.
LEMMA GoKeepsRecords ==
  ASSUME TypeOK, RecordsInv, NEW r \in Requests,
         rpc[r] \in {"idle", "find"}, rpc'[r] # "flush",
         \A q \in Requests \ {r} : /\ rpc'[q] = rpc[q] /\ payload'[q] = payload[q]
                                   /\ existing'[q] = existing[q] /\ response'[q] = response[q],
         rpc'[r] = "update" => existing'[r] \in DOMAIN docs /\ payload'[r].version = existing'[r],
         response'[r] = "success" => response[r] = "success",
         UNCHANGED <<docs, binding, events, lost>>
  PROVE  RecordsInv'
<1>1. r \notin Authors /\ docs \in Seq(Doc) /\ Authors' = Authors
  BY DEF RecordsInv, RequestInv, TypeOK, Doc, Authors
<1>2. \A v \in DOMAIN docs : docs[v].by \in Requests \ {r}
  BY <1>1, AuthorsAreRequests
<1>3. \A v : EventOf(v)' = EventOf(v)
  BY DEF EventOf
<1>4. DocsInv' /\ EventInv'
  BY <1>1, <1>2, <1>3 DEF RecordsInv, DocsInv, EventInv
<1>5. RequestInv'
  <2>1. ASSUME NEW q \in Requests
        PROVE  /\ rpc'[q] \in {"idle", "find", "create", "update"} => q \notin Authors
               /\ rpc'[q] = "update" => /\ existing'[q] \in DOMAIN docs
                                        /\ payload'[q].version = existing'[q]
               /\ response'[q] = "success" => q \in Authors
    BY <1>1 DEF RecordsInv, RequestInv
  <2>2. ASSUME NEW q \in Requests, binding[q] # NoEvent
        PROVE  \E w \in DOMAIN docs : docs[w].by = q /\ binding[q] = EventOf(w)'
    BY <1>3, <2>2 DEF RecordsInv, RequestInv
  <2> QED
    BY <1>1, <2>1, <2>2 DEF RequestInv
<1>6. EveryVersionHasEvent'
  BY <1>2 DEF RecordsInv, EveryVersionHasEvent
<1> QED
  BY <1>4, <1>5, <1>6 DEF RecordsInv

LEMMA CallKeepsRecords ==
  ASSUME TypeOK, RecordsInv, NEW r \in Requests, Call(r)
  PROVE  RecordsInv'
<1>1. /\ \A q \in Requests \ {r} : rpc'[q] = rpc[q] /\ payload'[q] = payload[q]
      /\ rpc[r] = "idle" /\ rpc'[r] = "find"
      /\ UNCHANGED <<docs, existing, response, binding, events, lost>>
  BY DEF Call, Goes, TypeOK
<1> QED
  BY <1>1, GoKeepsRecords

LEMMA FindKeepsRecords ==
  ASSUME TypeOK, RecordsInv, NEW r \in Requests, FindProfile(r)
  PROVE  RecordsInv'
<1>1. /\ \A q \in Requests \ {r} : /\ rpc'[q] = rpc[q] /\ response'[q] = response[q]
                                   /\ existing'[q] = existing[q]
      /\ rpc[r] = "find"
      /\ UNCHANGED <<docs, payload, binding, events, lost>>
  BY DEF FindProfile, Goes, Answer, TypeOK
<1>2. CASE Answer(r, "queryError")
  BY <1>1, <1>2, GoKeepsRecords DEF Answer, Goes, TypeOK
<1>3. ASSUME NEW k \in 0..Len(docs), existing' = [existing EXCEPT ![r] = k],
             \/ k = 0 /\ Goes(r, "create") /\ UNCHANGED response
             \/ k > 0 /\ payload[r].version = k /\ Goes(r, "update") /\ UNCHANGED response
             \/ k > 0 /\ payload[r].version # k /\ Answer(r, "conflict")
      PROVE  RecordsInv'
  <2>1. existing'[r] = k /\ (k > 0 => k \in DOMAIN docs)
    BY <1>3 DEF TypeOK
  <2>2. /\ rpc'[r] \in {"create", "update", "end"}
        /\ rpc'[r] = "update" => k > 0 /\ payload[r].version = k
        /\ response'[r] = "success" => response[r] = "success"
    BY <1>3 DEF Answer, Goes, TypeOK
  <2> QED
    BY <1>1, <2>1, <2>2, GoKeepsRecords
<1> QED
  BY <1>2, <1>3 DEF FindProfile

LEMMA SaveProfileKeepsRecords ==
  ASSUME TypeOK, RecordsInv, NEW r \in Requests, CreateProfile(r) \/ UpdateProfile(r)
  PROVE  RecordsInv'
<1>1. CASE CreateProfile(r)
  <2> DEFINE event == [kind |-> "ProfileCreatedEvent", version |-> 1,
                       old |-> FALSE, new |-> payload[r].inbox]
  <2>1. /\ Write(r, 1, event) /\ rpc[r] \in {"create", "update"}
        /\ UNCHANGED <<payload, existing, events>>
    BY <1>1 DEF CreateProfile
  <2>2. ASSUME Save(r, 1)
        PROVE  event = EventOf(1)'
    <3>1. docs'[1] = [inbox |-> payload[r].inbox, by |-> r, base |-> payload[r].version]
      BY <2>2, SaveMeaning
    <3>2. docs'[1].inbox = payload[r].inbox
      BY <3>1
    <3> QED
      BY <3>2 DEF EventOf
  <2> HIDE DEF event
  <2> QED
    BY <2>1, <2>2, WriteKeepsRecords
<1>2. CASE UpdateProfile(r)
  <2>1. PICK v, event :
          /\ v = existing[r] + 1
          /\ event = [kind |-> "ProfileUpdatedEvent", version |-> v,
                      old |-> docs[existing[r]].inbox, new |-> payload[r].inbox]
    OBVIOUS
  <2>2. /\ Write(r, v, event) /\ rpc[r] = "update"
        /\ UNCHANGED <<payload, existing, events>>
    BY <1>2, <2>1 DEF UpdateProfile
  <2>3. existing[r] \in DOMAIN docs /\ payload[r].version = existing[r]
    BY <2>2 DEF RecordsInv, RequestInv
  <2>4. existing[r] \in Nat \ {0} /\ v \in Nat \ {0} /\ v # 1 /\ v - 1 = existing[r]
    BY <2>1, <2>3 DEF TypeOK
  <2>5. ASSUME Save(r, v)
        PROVE  event = EventOf(v)'
    <3>1. /\ docs'[v] = [inbox |-> payload[r].inbox, by |-> r, base |-> payload[r].version]
          /\ \A i \in DOMAIN docs : docs'[i] = docs[i]
      BY <2>4, <2>5, SaveMeaning
    <3>2. docs'[v].inbox = payload[r].inbox /\ docs'[v - 1] = docs[existing[r]]
      BY <2>3, <2>4, <3>1
    <3> QED
      BY <2>1, <2>4, <3>2 DEF EventOf
  <2> QED
    BY <2>2, <2>3, <2>4, <2>5, WriteKeepsRecords
<1> QED
  BY <1>1, <1>2

\* The event that is queued is the one of the version its request has made.
LEMMA FlushKeepsRecords ==
  ASSUME TypeOK, RecordsInv, NEW r \in Requests, FlushEvent(r)
  PROVE  /\ RecordsInv'
         /\ \A v \in Versions : events[v] # NoEvent => events'[v] = events[v]
<1> DEFINE e == binding[r]
<1>1. /\ UNCHANGED <<docs, payload, existing, response, binding, lost>>
      /\ rpc[r] = "flush" /\ rpc'[r] = "end"
      /\ \A q \in Requests \ {r} : rpc'[q] = rpc[q]
  BY DEF FlushEvent, Goes, TypeOK
<1>2. Authors' = Authors /\ \A v : EventOf(v)' = EventOf(v)
  BY <1>1 DEF Authors, EventOf
<1>3. \A v \in DOMAIN docs : docs[v].by \in Requests
  BY AuthorsAreRequests DEF TypeOK, Doc
<1>4. \A v \in DOMAIN docs : v \in Versions /\ v # 0
  BY VersionNumbers
<1>5. \A v \in Versions :
        \/ events'[v] = events[v] /\ (e = NoEvent \/ e.version # v)
        \/ /\ e # NoEvent /\ e.version = v /\ events'[v] = e
           /\ v \in DOMAIN docs /\ e = EventOf(v)
  <2>1. CASE e = NoEvent
    BY <2>1 DEF FlushEvent
  <2>2. CASE e # NoEvent
    <3>1. PICK w \in DOMAIN docs : docs[w].by = r /\ e = EventOf(w)
      BY <2>2 DEF RecordsInv, RequestInv
    <3>2. e.version = w
      BY <3>1 DEF EventOf
    <3>3. events' = [events EXCEPT ![e.version] = e]
      BY <2>2 DEF FlushEvent
    <3> QED
      BY <2>2, <3>1, <3>2, <3>3 DEF TypeOK
  <2> QED
    BY <2>1, <2>2
<1>6. \A v \in Versions : events'[v] # NoEvent => v \in DOMAIN docs /\ events'[v] = EventOf(v)
  BY <1>5 DEF RecordsInv, EventInv
<1>7. DocsInv' /\ EventInv'
  BY <1>1, <1>2, <1>6 DEF RecordsInv, DocsInv, EventInv
<1>8. RequestInv'
  <2>1. ASSUME NEW q \in Requests
        PROVE  /\ rpc'[q] \in {"idle", "find", "create", "update"} => q \notin Authors
               /\ rpc'[q] = "update" => /\ existing[q] \in DOMAIN docs
                                        /\ payload[q].version = existing[q]
               /\ response[q] = "success" => q \in Authors
    BY <1>1 DEF RecordsInv, RequestInv
  <2>2. ASSUME NEW q \in Requests, binding[q] # NoEvent
        PROVE  \E w \in DOMAIN docs : docs[w].by = q /\ binding[q] = EventOf(w)'
    BY <1>2, <2>2 DEF RecordsInv, RequestInv
  <2> QED
    BY <1>1, <1>2, <2>1, <2>2 DEF RequestInv
<1>9. EveryVersionHasEvent'
  <2> SUFFICES ASSUME NEW v \in DOMAIN docs
               PROVE  \/ events'[v] # NoEvent
                      \/ v \in lost
                      \/ rpc'[docs[v].by] = "flush" /\ binding[docs[v].by].version = v
    BY <1>1 DEF EveryVersionHasEvent
  <2>1. CASE docs[v].by = r /\ e.version = v
    <3>1. e # NoEvent
      BY <1>4, <2>1 DEF NoEvent
    <3> QED
      BY <1>4, <1>5, <2>1, <3>1
  <2>2. CASE ~(docs[v].by = r /\ e.version = v)
    <3>1. events[v] # NoEvent => events'[v] # NoEvent
      BY <1>4, <1>5
    <3> QED
      BY <1>1, <1>3, <2>2, <3>1 DEF RecordsInv, EveryVersionHasEvent
  <2> QED
    BY <2>1, <2>2
<1>10. \A v \in Versions : events[v] # NoEvent => events'[v] = events[v]
  BY <1>5 DEF RecordsInv, EventInv
<1> QED
  BY <1>7, <1>8, <1>9, <1>10 DEF RecordsInv

LEMMA CrashKeepsRecords ==
  ASSUME TypeOK, RecordsInv, NEW r \in Requests, CrashRequest(r)
  PROVE  RecordsInv'
<1>1. /\ UNCHANGED <<docs, payload, existing, response, binding, events>>
      /\ rpc'[r] = "end" /\ \A q \in Requests \ {r} : rpc'[q] = rpc[q]
      /\ lost' = lost \cup {v \in DOMAIN docs : docs[v].by = r}
  BY DEF CrashRequest, Goes, TypeOK
<1>2. Authors' = Authors /\ \A v : EventOf(v)' = EventOf(v)
  BY <1>1 DEF Authors, EventOf
<1>3. \A v \in DOMAIN docs : docs[v].by \in Requests
  BY AuthorsAreRequests DEF TypeOK, Doc
<1>4. DocsInv' /\ EventInv'
  BY <1>1, <1>2 DEF RecordsInv, DocsInv, EventInv
<1>5. RequestInv'
  <2>1. ASSUME NEW q \in Requests
        PROVE  /\ rpc'[q] \in {"idle", "find", "create", "update"} => q \notin Authors
               /\ rpc'[q] = "update" => /\ existing[q] \in DOMAIN docs
                                        /\ payload[q].version = existing[q]
               /\ response[q] = "success" => q \in Authors
    BY <1>1 DEF RecordsInv, RequestInv
  <2>2. ASSUME NEW q \in Requests, binding[q] # NoEvent
        PROVE  \E w \in DOMAIN docs : docs[w].by = q /\ binding[q] = EventOf(w)'
    BY <1>2, <2>2 DEF RecordsInv, RequestInv
  <2> QED
    BY <1>1, <1>2, <2>1, <2>2 DEF RequestInv
<1>6. EveryVersionHasEvent'
  BY <1>1, <1>3 DEF RecordsInv, EveryVersionHasEvent
<1> QED
  BY <1>4, <1>5, <1>6 DEF RecordsInv

-----------------------------------------------------------------------------
(* The handler of the events.                                              *)

\* A step of version v leaves the other versions alone.
OthersUnchanged(v) ==
  \A w \in Versions \ {v} :
    /\ visibility'[w] = visibility[w] /\ dequeueCount'[w] = dequeueCount[w]
    /\ pc'[w] = pc[w] /\ events'[w] = events[w] /\ step'[w] = step[w]
    /\ posting'[w] = posting[w] /\ failed'[w] = failed[w] /\ welcomes'[w] = welcomes[w]

LEMMA OthersKeepVersion ==
  ASSUME NEW v \in Versions, OthersUnchanged(v), NEW w \in Versions \ {v}, VersionInv(w)
  PROVE  VersionInv(w)'
BY DEF OthersUnchanged, VersionInv, AbsentInv, PostingInv, FirstInv, Enabled

LEMMA FirstAttempt == 1 \in Attempts /\ Attempts \subseteq Nat \ {0}
BY QueueAssumption DEF Attempts

LEMMA HostKeepsVersion ==
  ASSUME QueueInv, TypeOK, NEW v \in Versions, VersionInv(v), HostStep(v)
  PROVE  OthersUnchanged(v) /\ VersionInv(v)'
<1> USE FirstAttempt DEF Versions, requestVars, handlerVars
<1>1. /\ UNCHANGED <<events, step, posting, failed, welcomes>>
      /\ HostMessageStep(v)
  BY DEF HostStep
<1>2. OthersUnchanged(v)
  BY <1>1, QueueStepOthers DEF OthersUnchanged, QueueOthers
<1>3. /\ visibility[v] \in {"delayed", "visible"} /\ visibility'[v] # "absent"
      /\ dequeueCount'[v] >= dequeueCount[v] /\ dequeueCount[v] \in Nat
      /\ dequeueCount'[v] \in Nat
      /\ \/ visibility'[v] # "gone" /\ (pc'[v][1] = pc[v][1] \/ pc'[v][1] = "handle")
         \/ dequeueCount'[v] > 1
  BY <1>1, QueueAssumption
     DEF HostMessageStep, BecomeVisible, Dequeue, DeadLetter, TypeOK, QueueTypeOK, Goto
<1>4. AbsentInv(v)' /\ PostingInv(v)'
  BY <1>1, <1>3 DEF VersionInv, AbsentInv, PostingInv, Enabled
<1>5. FirstInv(v)'
  BY <1>1, <1>3 DEF VersionInv, FirstInv, Enabled
<1> QED
  BY <1>2, <1>4, <1>5 DEF VersionInv

LEMMA EndKeepsVersion ==
  ASSUME QueueInv, TypeOK, NEW v \in Versions, VersionInv(v), NEW n \in Attempts,
         EndAttempt(v, n) \/ CrashAttempt(v, n)
  PROVE  OthersUnchanged(v) /\ VersionInv(v)'
<1> USE FirstAttempt DEF Versions, requestVars, handlerVars
<1>1. /\ UNCHANGED <<events, step, posting, failed, welcomes, dequeueCount>>
      /\ Complete(v, n) \/ Crash(v, n)
  BY DEF EndAttempt, CrashAttempt, Complete, Crash
<1>2. OthersUnchanged(v)
  BY <1>1, QueueStepOthers DEF OthersUnchanged, QueueOthers, HostAttemptStep
<1>3. /\ pc'[v][1] = pc[v][1] \/ pc'[v][1] = "over"
      /\ visibility'[v] = "absent" <=> visibility[v] = "absent"
      /\ visibility'[v] = "gone" /\ visibility[v] # "gone" =>
           pc[v][n] = "return" /\ dequeueCount[v] = n
  <2>1. pc'[v][1] = pc[v][1] \/ pc'[v][1] = "over"
    BY <1>1 DEF Complete, Crash, Goto, TypeOK, QueueTypeOK
  <2>2. owner[v] = n => visibility[v] = "leased" /\ dequeueCount[v] = n
    BY DEF QueueInv, LeaseInv
  <2>3. CASE Complete(v, n)
    BY <2>1, <2>2, <2>3 DEF Complete, WithReceipt, TypeOK, QueueTypeOK
  <2>4. CASE Crash(v, n)
    BY <2>1, <2>2, <2>4 DEF Crash, WithReceipt, TypeOK, QueueTypeOK
  <2> QED
    BY <1>1, <2>3, <2>4
<1>4. AbsentInv(v)' /\ PostingInv(v)'
  BY <1>1, <1>3 DEF VersionInv, AbsentInv, PostingInv, Enabled
<1>5. FirstInv(v)'
  BY <1>1, <1>3 DEF VersionInv, FirstInv, Enabled
<1> QED
  BY <1>2, <1>4, <1>5 DEF VersionInv

LEMMA StartKeepsVersion ==
  ASSUME QueueInv, TypeOK, NEW v \in Versions, VersionInv(v), NEW n \in Attempts,
         StartWelcome(v, n)
  PROVE  OthersUnchanged(v) /\ VersionInv(v)'
<1> USE FirstAttempt DEF Versions, requestVars, handlerVars
<1>1. /\ UNCHANGED <<visibility, dequeueCount, pc, events, failed, welcomes>>
      /\ pc[v][n] = "handle" /\ step[v][n] = "start" /\ Enabled(v)
      /\ step' = [step EXCEPT ![v][n] = "sending"]
      /\ posting' = [posting EXCEPT ![v][n] = WelcomeMessages]
  BY DEF StartWelcome, At, Enabled, queueVars
<1>2. OthersUnchanged(v)
  BY <1>1 DEF OthersUnchanged, TypeOK
<1>3. visibility[v] = "leased" /\ dequeueCount[v] = n
  BY <1>1, OneWorks DEF WorkStage
<1>4. /\ step'[v][n] = "sending" /\ posting'[v][n] = WelcomeMessages
      /\ \A k \in Attempts \ {n} : step'[v][k] = step[v][k] /\ posting'[v][k] = posting[v][k]
  BY <1>1 DEF TypeOK
<1>5. AbsentInv(v)' /\ PostingInv(v)'
  BY <1>1, <1>3, <1>4 DEF VersionInv, AbsentInv, PostingInv, Enabled
<1>6. FirstInv(v)'
  BY <1>1, <1>3, <1>4 DEF VersionInv, FirstInv, PostingInv
<1> QED
  BY <1>2, <1>5, <1>6 DEF VersionInv

LEMMA ReturnKeepsVersion ==
  ASSUME QueueInv, TypeOK, NEW v \in Versions, VersionInv(v), NEW n \in Attempts,
         SkipWelcome(v, n) \/ EndWelcome(v, n)
  PROVE  OthersUnchanged(v) /\ VersionInv(v)'
<1> USE FirstAttempt DEF Versions, requestVars, handlerVars
<1>1. /\ UNCHANGED <<visibility, dequeueCount, events, step, posting, failed, welcomes>>
      /\ pc[v][n] = "handle" /\ Handle(v, n, "ok")
      /\ Enabled(v) => step[v][n] = "sending" /\ (posting[v][n] = {} \/ failed[v][n])
  BY DEF SkipWelcome, EndWelcome, At, Enabled, Handle
<1>2. OthersUnchanged(v)
  BY <1>1, QueueStepOthers DEF OthersUnchanged, QueueOthers
<1>3. visibility[v] = "leased" /\ dequeueCount[v] = n
  BY <1>1, OneWorks DEF WorkStage
<1>4. \A k \in Attempts \ {n} : pc'[v][k] = pc[v][k]
  BY <1>1 DEF Handle, Goto, TypeOK, QueueTypeOK
<1>5. AbsentInv(v)' /\ PostingInv(v)'
  BY <1>1 DEF VersionInv, AbsentInv, PostingInv, Enabled
<1>6. FirstInv(v)'
  BY <1>1, <1>3, <1>4 DEF VersionInv, FirstInv, Enabled
<1> QED
  BY <1>2, <1>5, <1>6 DEF VersionInv

LEMMA PostKeepsVersion ==
  ASSUME QueueInv, TypeOK, NEW v \in Versions, VersionInv(v), NEW n \in Attempts,
         NEW k \in WelcomeMessages, EndPost(v, n, k)
  PROVE  OthersUnchanged(v) /\ VersionInv(v)'
<1> USE FirstAttempt DEF Versions, requestVars, handlerVars
<1>1. PICK created \in BOOLEAN, answered \in BOOLEAN :
        /\ welcomes' = [welcomes EXCEPT ![v][k] = IF created THEN @ + 1 ELSE @]
        /\ failed' = [failed EXCEPT ![v][n] = @ \/ ~created \/ ~answered]
  BY DEF EndPost
<1>2. /\ UNCHANGED <<visibility, dequeueCount, pc, events, step>>
      /\ k \in posting[v][n] /\ posting' = [posting EXCEPT ![v][n] = @ \ {k}]
  BY DEF EndPost, queueVars
<1>3. OthersUnchanged(v)
  BY <1>1, <1>2 DEF OthersUnchanged, TypeOK
<1>4. /\ welcomes'[v][k] = IF created THEN welcomes[v][k] + 1 ELSE welcomes[v][k]
      /\ \A j \in WelcomeMessages \ {k} : welcomes'[v][j] = welcomes[v][j]
      /\ failed'[v][n] = (failed[v][n] \/ ~created \/ ~answered)
      /\ posting'[v][n] = posting[v][n] \ {k}
      /\ \A a \in Attempts \ {n} : posting'[v][a] = posting[v][a] /\ failed'[v][a] = failed[v][a]
  BY <1>1, <1>2 DEF TypeOK
<1>5. step[v][n] = "sending" /\ Enabled(v) /\ n <= dequeueCount[v]
  BY <1>2 DEF VersionInv, PostingInv, TypeOK
<1>6. AbsentInv(v)' /\ PostingInv(v)'
  BY <1>2, <1>4, <1>5 DEF VersionInv, AbsentInv, PostingInv, Enabled
<1>7. FirstInv(v)'
  <2> SUFFICES ASSUME dequeueCount[v] <= 1
               PROVE  FirstInv(v)'
    BY <1>2 DEF FirstInv
  <2>1. n = 1
    BY <1>5 DEF TypeOK, QueueTypeOK
  <2>2. ~failed'[v][1] => created /\ ~failed[v][1]
    BY <1>4, <2>1
  <2>3. \A j \in WelcomeMessages : ~failed'[v][1] =>
          welcomes'[v][j] = IF step[v][1] = "start" \/ j \in posting'[v][1] THEN 0 ELSE 1
    BY <1>2, <1>4, <1>5, <2>1, <2>2 DEF VersionInv, FirstInv
  <2>4. posting[v][1] = {} \/ failed[v][1] => posting'[v][1] = {} \/ failed'[v][1]
    BY <1>4, <2>1
  <2> QED
    BY <1>2, <1>5, <2>1, <2>3, <2>4 DEF VersionInv, FirstInv, Enabled
<1> QED
  BY <1>3, <1>6, <1>7 DEF VersionInv

\* A request leaves the versions alone, except that it queues the event of one.
LEMMA RequestKeepsVersions ==
  ASSUME QueueInv, TypeOK, \A v \in Versions : VersionInv(v),
         UNCHANGED <<queueVars, events, handlerVars>>
  PROVE  \A v \in Versions : VersionInv(v)'
BY DEF VersionInv, AbsentInv, PostingInv, FirstInv, Enabled, queueVars, handlerVars

LEMMA FlushKeepsVersions ==
  ASSUME QueueInv, TypeOK, RecordsInv, \A v \in Versions : VersionInv(v),
         NEW r \in Requests, FlushEvent(r)
  PROVE  \A v \in Versions : VersionInv(v)'
<1> USE FirstAttempt DEF Versions, handlerVars
<1> SUFFICES ASSUME NEW v \in Versions
             PROVE  VersionInv(v)'
  OBVIOUS
<1>1. /\ UNCHANGED <<step, posting, failed, welcomes, dequeueCount, pc>>
      /\ events[v] # NoEvent => events'[v] = events[v]
  BY FlushKeepsRecords DEF FlushEvent, Enqueue, queueVars
<1>2. \/ visibility'[v] = visibility[v] /\ events'[v] = events[v]
      \/ visibility[v] = "absent" /\ visibility'[v] = "visible" /\ events'[v] # NoEvent
  <2>1. CASE binding[r] = NoEvent
    BY <2>1 DEF FlushEvent, queueVars
  <2>2. CASE binding[r] # NoEvent
    <3>1. /\ Enqueue(binding[r].version)
          /\ events' = [events EXCEPT ![binding[r].version] = binding[r]]
      BY <2>2 DEF FlushEvent
    <3> QED
      BY <2>2, <3>1 DEF Enqueue, TypeOK, QueueTypeOK
  <2> QED
    BY <2>1, <2>2
<1>3. Enabled(v) => Enabled(v)'
  <2>1. Enabled(v) => events[v] # NoEvent
    BY DEF Enabled, HasJustEnabledInbox, NoEvent
  <2> QED
    BY <1>1, <2>1 DEF Enabled
<1>4. AbsentInv(v)' /\ PostingInv(v)'
  BY <1>1, <1>2, <1>3 DEF VersionInv, AbsentInv, PostingInv
<1>5. FirstInv(v)'
  <2>1. CASE visibility'[v] = visibility[v] /\ events'[v] = events[v]
    BY <1>1, <2>1 DEF VersionInv, FirstInv, Enabled
  <2>2. CASE visibility[v] = "absent" /\ visibility'[v] = "visible"
    <3>1. pc[v][1] = "idle"
      BY <2>2 DEF VersionInv, AbsentInv, QueueInv, StartedInv
    <3> QED
      BY <1>1, <2>2, <3>1 DEF VersionInv, FirstInv
  <2> QED
    BY <1>2, <2>1, <2>2
<1> QED
  BY <1>4, <1>5 DEF VersionInv

-----------------------------------------------------------------------------
(* Types.                                                                  *)

LEMMA WriteType ==
  ASSUME TypeOK, RecordsInv, NEW r \in Requests, CreateProfile(r) \/ UpdateProfile(r)
  PROVE  RecordsType'
<1>1. RecordsInv'
  BY SaveProfileKeepsRecords
<1>2. UNCHANGED <<payload, existing, events>>
  BY DEF CreateProfile, UpdateProfile
<1>3. \A v \in DOMAIN docs : v \in Versions
  BY VersionNumbers
<1>4. PICK v, event :
        /\ v \in Nat \ {0}
        /\ Write(r, v, event)
        /\ event.kind \in {"ProfileCreatedEvent", "ProfileUpdatedEvent"}
        /\ event = [kind |-> event.kind, version |-> v, old |-> event.old, new |-> event.new]
        /\ event.old \in BOOLEAN /\ event.new \in BOOLEAN
  <2>1. CASE CreateProfile(r)
    <3>1. PICK event : event = [kind |-> "ProfileCreatedEvent", version |-> 1,
                                old |-> FALSE, new |-> payload[r].inbox]
      OBVIOUS
    <3>2. Write(r, 1, event) /\ payload[r].inbox \in BOOLEAN
      BY <2>1, <3>1 DEF CreateProfile, TypeOK, Payload
    <3>3. /\ event.kind = "ProfileCreatedEvent"
          /\ event = [kind |-> event.kind, version |-> 1, old |-> event.old, new |-> event.new]
          /\ event.old \in BOOLEAN /\ event.new \in BOOLEAN
      BY <3>1, <3>2
    <3>4. 1 \in Nat \ {0}
      OBVIOUS
    <3> QED
      BY <3>2, <3>3, <3>4
  <2>2. CASE UpdateProfile(r)
    <3>1. PICK v, event :
            /\ v = existing[r] + 1
            /\ event = [kind |-> "ProfileUpdatedEvent", version |-> v,
                        old |-> docs[existing[r]].inbox, new |-> payload[r].inbox]
      OBVIOUS
    <3>2. Write(r, v, event) /\ payload[r].inbox \in BOOLEAN
      BY <2>2, <3>1 DEF UpdateProfile, TypeOK, Payload
    <3>3. existing[r] \in DOMAIN docs
      BY <2>2 DEF UpdateProfile, RecordsInv, RequestInv
    <3>4. docs \in Seq(Doc)
      BY DEF TypeOK, Doc
    <3>5. docs[existing[r]] \in Doc /\ existing[r] \in Nat
      BY <3>3, <3>4
    <3>6. docs[existing[r]].inbox \in BOOLEAN /\ v \in Nat \ {0}
      BY <3>1, <3>5 DEF Doc
    <3> QED
      BY <3>1, <3>2, <3>6
  <2> QED
    BY <2>1, <2>2
<1>5. docs' \in Seq(Doc)
  BY <1>4, SaveMeaning DEF Write, TypeOK, Doc
<1>6. Len(docs') <= Cardinality(Versions)
  BY <1>1, <1>5, FewVersions DEF RecordsInv, DocsInv, Authors
<1>7. Save(r, v) => v \in Versions
  <2>1. Cardinality(Msgs) \in Nat
    BY ProfileAssumption, FS_CardinalityType
  <2>2. Save(r, v) => Len(docs') = v
    BY <1>4, SaveMeaning
  <2> QED
    BY <1>4, <1>6, <2>1, <2>2, ProfileAssumption DEF Versions
<1>8. /\ rpc' \in [Requests -> RequestStep]
      /\ response' \in [Requests -> Response]
  BY <1>4 DEF Write, Answer, Goes, TypeOK, RequestStep, Response
<1>9. binding' \in [Requests -> Event \cup {NoEvent}] /\ lost' \subseteq Versions
  <2>1. Save(r, v) => event \in Event
    BY <1>4, <1>7 DEF Event
  <2> QED
    BY <1>4, <1>7, <2>1 DEF Write, TypeOK
<1> QED
  BY <1>2, <1>5, <1>6, <1>8, <1>9 DEF RecordsType, TypeOK

LEMMA RequestType ==
  ASSUME TypeOK, RecordsInv, NEW r \in Requests,
         Call(r) \/ FindProfile(r) \/ FlushEvent(r) \/ CrashRequest(r)
  PROVE  RecordsType'
<1>1. RecordsType
  BY DEF RecordsType, TypeOK, Doc
<1>2. CASE Call(r)
  BY <1>1, <1>2 DEF Call, Goes, RecordsType, RequestStep
<1>3. CASE FindProfile(r)
  <2>1. \A k \in 0..Len(docs) : k \in Versions \cup {0}
    BY VersionNumbers
  <2>2. /\ rpc' \in [Requests -> RequestStep]
        /\ response' \in [Requests -> Response]
    BY <1>1, <1>3 DEF FindProfile, Goes, Answer, RecordsType, RequestStep, Response
  <2>3. existing' \in [Requests -> Versions \cup {0}]
    BY <1>1, <1>3, <2>1 DEF FindProfile, RecordsType
  <2> QED
    BY <1>1, <1>3, <2>2, <2>3 DEF FindProfile, RecordsType
<1>4. CASE FlushEvent(r)
  <2>1. /\ UNCHANGED <<docs, payload, existing, response, binding, lost>>
        /\ rpc' \in [Requests -> RequestStep]
    BY <1>1, <1>4 DEF FlushEvent, Goes, RecordsType, RequestStep
  <2>2. events' = events \/ \E v : events' = [events EXCEPT ![v] = binding[r]]
    BY <1>4 DEF FlushEvent
  <2>3. events' \in [Versions -> Event \cup {NoEvent}]
    BY <1>1, <2>2 DEF RecordsType
  <2> QED
    BY <1>1, <2>1, <2>3 DEF RecordsType
<1>5. CASE CrashRequest(r)
  <2>1. \A v \in DOMAIN docs : v \in Versions
    BY VersionNumbers
  <2> QED
    BY <1>1, <1>5, <2>1 DEF CrashRequest, Goes, RecordsType, RequestStep
<1> QED
  BY <1>2, <1>3, <1>4, <1>5

HandlerType ==
  /\ step \in [Versions -> [Attempts -> {"start", "sending"}]]
  /\ posting \in [Versions -> [Attempts -> SUBSET WelcomeMessages]]
  /\ failed \in [Versions -> [Attempts -> BOOLEAN]]
  /\ welcomes \in [Versions -> [WelcomeMessages -> Nat]]

LEMMA HandlerTypeStep ==
  ASSUME TypeOK, NEW v \in Versions, NEW n \in Attempts,
         Index(v, n) \/ \E k \in WelcomeMessages : EndPost(v, n, k)
  PROVE  HandlerType'
<1>1. CASE StartWelcome(v, n)
  BY <1>1 DEF StartWelcome, HandlerType, TypeOK
<1>2. CASE SkipWelcome(v, n) \/ EndWelcome(v, n)
  BY <1>2 DEF SkipWelcome, EndWelcome, handlerVars, HandlerType, TypeOK
<1>3. ASSUME NEW k \in WelcomeMessages, EndPost(v, n, k)
      PROVE  HandlerType'
  <2>1. PICK created \in BOOLEAN, answered \in BOOLEAN :
          /\ welcomes' = [welcomes EXCEPT ![v][k] = IF created THEN @ + 1 ELSE @]
          /\ failed' = [failed EXCEPT ![v][n] = @ \/ ~created \/ ~answered]
    BY <1>3 DEF EndPost
  <2>2. step' = step /\ posting' = [posting EXCEPT ![v][n] = @ \ {k}]
    BY <1>3 DEF EndPost
  <2> QED
    BY <2>1, <2>2 DEF HandlerType, TypeOK
<1> QED
  BY <1>1, <1>2, <1>3 DEF Index

-----------------------------------------------------------------------------
(* The invariant.                                                          *)

LEMMA ProfilesInvInit == Init => ProfilesInv
<1> SUFFICES ASSUME Init
             PROVE  ProfilesInv
  OBVIOUS
<1>1. QueueInv
  BY QueueInvInit DEF Init
<1>2. docs = <<>> /\ docs \in Seq(Doc) /\ Len(docs) = 0 /\ DOMAIN docs = {}
  BY DEF Init
<1>3. Cardinality(Authors) = 0
  BY <1>2, FS_EmptySet DEF Authors
<1>4. 0 <= Cardinality(Versions)
  BY ProfileAssumption, FS_CardinalityType DEF Versions
<1>5. TypeOK
  BY <1>1, <1>2, <1>4
     DEF Init, QueueInv, TypeOK, Payload, RequestStep, Response, Doc
<1>6. RecordsInv
  BY <1>2, <1>3 DEF Init, RecordsInv, DocsInv, RequestInv, EventInv, EveryVersionHasEvent,
     Authors
<1>7. ASSUME NEW v \in Versions
      PROVE  VersionInv(v)
  BY FirstAttempt DEF Init, QueueInit, Versions, VersionInv, AbsentInv, PostingInv, FirstInv
<1> QED
  BY <1>1, <1>5, <1>6, <1>7 DEF ProfilesInv

LEMMA ProfilesInvStep == ProfilesInv /\ [Next]_vars => ProfilesInv'
<1> SUFFICES ASSUME ProfilesInv, [Next]_vars
             PROVE  ProfilesInv'
  OBVIOUS
<1> USE DEF ProfilesInv
<1>1. QueueInv'
  BY ProfileStepIsQueueStep, QueueInvStep
<1>2. QueueTypeOK'
  BY <1>1 DEF QueueInv
<1>3. RecordsType /\ HandlerType
  BY DEF TypeOK, RecordsType, HandlerType, Doc
<1>4. ASSUME NEW r \in Requests, Call(r) \/ UpsertProfile(r) \/ CrashRequest(r)
      PROVE  RecordsType' /\ HandlerType' /\ RecordsInv' /\ \A v \in Versions : VersionInv(v)'
  <2>1. RecordsType' /\ RecordsInv'
    BY <1>4, WriteType, RequestType, CallKeepsRecords, FindKeepsRecords,
       SaveProfileKeepsRecords, FlushKeepsRecords, CrashKeepsRecords DEF UpsertProfile
  <2>2. UNCHANGED handlerVars
    BY <1>4 DEF Call, UpsertProfile, FindProfile, CreateProfile, UpdateProfile, FlushEvent,
       CrashRequest
  <2>3. HandlerType'
    BY <1>3, <2>2 DEF HandlerType, handlerVars
  <2>4. CASE FlushEvent(r)
    BY <2>1, <2>3, <2>4, FlushKeepsVersions
  <2>5. CASE ~FlushEvent(r)
    <3>1. UNCHANGED <<queueVars, events>>
      BY <1>4, <2>5 DEF Call, UpsertProfile, FindProfile, CreateProfile, UpdateProfile,
         CrashRequest
    <3> QED
      BY <2>1, <2>2, <2>3, <3>1, RequestKeepsVersions
  <2> QED
    BY <2>4, <2>5
<1>5. ASSUME UNCHANGED requestVars
      PROVE  RecordsType' /\ RecordsInv'
  <2>1. Authors' = Authors /\ \A v : EventOf(v)' = EventOf(v)
    BY <1>5 DEF requestVars, Authors, EventOf
  <2>2. RecordsType' /\ DocsInv' /\ EventInv' /\ EveryVersionHasEvent'
    BY <1>3, <1>5, <2>1 DEF requestVars, RecordsType, RecordsInv, DocsInv, EventInv,
       EveryVersionHasEvent
  <2>3. RequestInv'
    BY <1>5, <2>1 DEF requestVars, RecordsInv, RequestInv
  <2> QED
    BY <2>2, <2>3 DEF RecordsInv
<1>6. ASSUME NEW v \in Versions, NEW n \in Attempts,
             \/ EndAttempt(v, n) \/ CrashAttempt(v, n) \/ Index(v, n)
             \/ \E k \in WelcomeMessages : EndPost(v, n, k)
      PROVE  RecordsType' /\ HandlerType' /\ RecordsInv' /\ \A w \in Versions : VersionInv(w)'
  <2>1. UNCHANGED requestVars
    BY <1>6 DEF EndAttempt, CrashAttempt, Index, StartWelcome, SkipWelcome, EndWelcome, EndPost
  <2>2. HandlerType'
    BY <1>3, <1>6, HandlerTypeStep DEF EndAttempt, CrashAttempt, handlerVars, HandlerType
  <2>3. OthersUnchanged(v) /\ VersionInv(v)'
    BY <1>6, EndKeepsVersion, StartKeepsVersion, ReturnKeepsVersion, PostKeepsVersion DEF Index
  <2> QED
    BY <1>5, <2>1, <2>2, <2>3, OthersKeepVersion
<1>7. ASSUME NEW v \in Versions, HostStep(v)
      PROVE  RecordsType' /\ HandlerType' /\ RecordsInv' /\ \A w \in Versions : VersionInv(w)'
  <2>1. UNCHANGED <<requestVars, handlerVars>>
    BY <1>7 DEF HostStep
  <2>2. OthersUnchanged(v) /\ VersionInv(v)'
    BY <1>7, HostKeepsVersion
  <2> QED
    BY <1>3, <1>5, <2>1, <2>2, OthersKeepVersion DEF HandlerType, handlerVars
<1>8. ASSUME UNCHANGED vars
      PROVE  RecordsType' /\ HandlerType' /\ RecordsInv' /\ \A w \in Versions : VersionInv(w)'
  <2>1. UNCHANGED <<queueVars, requestVars, handlerVars, events>>
    BY <1>8 DEF vars, requestVars
  <2> QED
    BY <1>3, <1>5, <2>1, RequestKeepsVersions DEF HandlerType, handlerVars
<1>9. RecordsType' /\ HandlerType' /\ RecordsInv' /\ \A w \in Versions : VersionInv(w)'
  BY <1>4, <1>6, <1>7, <1>8 DEF Next
<1>10. TypeOK'
  BY <1>2, <1>9 DEF TypeOK, RecordsType, HandlerType, Doc
<1> QED
  BY <1>1, <1>9, <1>10

LEMMA ProfilesInvariant == Spec => []ProfilesInv
BY ProfilesInvInit, ProfilesInvStep, PTL DEF Spec

-----------------------------------------------------------------------------
(* The theorems.                                                           *)

\* Every variable of Profiles keeps its type, and there are never more versions of
\* the profile than requests.
THEOREM TypeCorrect == Spec => []TypeOK
<1>1. ProfilesInv => TypeOK
  BY DEF ProfilesInv
<1> QED
  BY <1>1, ProfilesInvariant, PTL

\* No update of the profile overwrites another one unseen: see NoLostUpdate.
THEOREM NoLostUpdateCorrect == Spec => []NoLostUpdate
<1>1. ProfilesInv => NoLostUpdate
  BY DEF ProfilesInv, RecordsInv, DocsInv, NoLostUpdate
<1> QED
  BY <1>1, ProfilesInvariant, PTL

\* A client told of success has its own version, and only one: see SuccessIsSaved.
THEOREM SuccessIsSavedCorrect == Spec => []SuccessIsSaved
<1>1. ProfilesInv => SuccessIsSaved
  <2> SUFFICES ASSUME ProfilesInv, NEW r \in Requests
               PROVE  /\ Cardinality({v \in DOMAIN docs : docs[v].by = r}) <= 1
                      /\ response[r] = "success" =>
                           \E v \in {u \in DOMAIN docs : docs[u].by = r} :
                             docs[v].inbox = payload[r].inbox
    BY DEF SuccessIsSaved
  <2> DEFINE own == {v \in DOMAIN docs : docs[v].by = r}
  <2>1. \A v, w \in own : v = w
    BY DEF ProfilesInv, RecordsInv, DocsInv
  <2>2. Cardinality(own) <= 1
    <3>1. CASE own = {}
      BY <3>1, FS_EmptySet
    <3>2. CASE own # {}
      <4>1. PICK v : v \in own
        BY <3>2
      <4>2. own = {v}
        BY <2>1, <4>1
      <4>3. Cardinality({v}) = 1
        BY FS_Singleton
      <4> QED
        BY <4>2, <4>3
    <3> QED
      BY <3>1, <3>2
  <2>3. response[r] = "success" => \E v \in own : docs[v].inbox = payload[r].inbox
    BY DEF ProfilesInv, RecordsInv, DocsInv, RequestInv, Authors
  <2> QED
    BY <2>2, <2>3
<1> QED
  BY <1>1, ProfilesInvariant, PTL

\* A queued event tells what happened, in whatever order the requests queue
\* theirs: see EventTellsHistory.
THEOREM EventTellsHistoryCorrect == Spec => []EventTellsHistory
<1>1. ProfilesInv => EventTellsHistory
  <2> SUFFICES ASSUME ProfilesInv, NEW v \in Versions, events[v] # NoEvent
               PROVE  /\ v <= Len(docs)
                      /\ events[v].new = docs[v].inbox
                      /\ (events[v].kind = "ProfileCreatedEvent") <=> (v = 1)
                      /\ v > 1 => events[v].old = docs[v - 1].inbox
    BY DEF EventTellsHistory
  <2>1. v \in 1..Len(docs) /\ Len(docs) \in Nat /\ events[v] = EventOf(v)
    BY DEF ProfilesInv, RecordsInv, EventInv, TypeOK
  <2>2. /\ events[v].kind = IF v = 1 THEN "ProfileCreatedEvent" ELSE "ProfileUpdatedEvent"
        /\ events[v].new = docs[v].inbox
        /\ v # 1 => events[v].old = docs[v - 1].inbox
    <3> DEFINE e == events[v]
    <3>1. e = [kind |-> IF v = 1 THEN "ProfileCreatedEvent" ELSE "ProfileUpdatedEvent",
               version |-> v,
               old |-> IF v = 1 THEN FALSE ELSE docs[v - 1].inbox,
               new |-> docs[v].inbox]
      BY <2>1 DEF EventOf
    <3> HIDE DEF e
    <3>2. /\ e.kind = IF v = 1 THEN "ProfileCreatedEvent" ELSE "ProfileUpdatedEvent"
          /\ e.old = IF v = 1 THEN FALSE ELSE docs[v - 1].inbox
          /\ e.new = docs[v].inbox
      BY <3>1
    <3> QED
      BY <3>2 DEF e
  <2> QED
    BY <2>1, <2>2
<1> QED
  BY <1>1, ProfilesInvariant, PTL

\* No version is without its event, unless something was lost: see
\* EveryVersionHasEvent.
THEOREM EveryVersionHasEventCorrect == Spec => []EveryVersionHasEvent
<1>1. ProfilesInv => EveryVersionHasEvent
  BY DEF ProfilesInv, RecordsInv
<1> QED
  BY <1>1, ProfilesInvariant, PTL

\* Nobody is welcomed for an edit that does not enable the inbox: see
\* WelcomeOnEnableOnly.
THEOREM WelcomeOnEnableOnlyCorrect == Spec => []WelcomeOnEnableOnly
<1>1. ProfilesInv => WelcomeOnEnableOnly
  <2> SUFFICES ASSUME ProfilesInv, NEW v \in Versions, NEW k \in WelcomeMessages,
                      welcomes[v][k] > 0
               PROVE  v <= Len(docs) /\ docs[v].inbox /\ (v = 1 \/ ~docs[v - 1].inbox)
    BY DEF WelcomeOnEnableOnly
  <2>1. HasJustEnabledInbox(events[v])
    BY DEF ProfilesInv, VersionInv, PostingInv, Enabled
  <2>2. events[v] # NoEvent
    BY <2>1 DEF HasJustEnabledInbox, NoEvent
  <2>3. v \in 1..Len(docs) /\ events[v] = EventOf(v)
    BY <2>2 DEF ProfilesInv, RecordsInv, EventInv, TypeOK
  <2> QED
    BY <2>1, <2>3 DEF HasJustEnabledInbox, EventOf
<1> QED
  BY <1>1, ProfilesInvariant, PTL

\* One attempt that fails nowhere sends every welcome message once: see
\* WelcomeComplete.
THEOREM WelcomeCompleteCorrect == Spec => []WelcomeComplete
<1>1. ProfilesInv => WelcomeComplete
  <2> SUFFICES ASSUME ProfilesInv, NEW v \in Versions, dequeueCount[v] = 1,
                      visibility[v] = "gone", Enabled(v), ~failed[v][1],
                      NEW k \in WelcomeMessages
               PROVE  welcomes[v][k] = 1
    BY DEF WelcomeComplete, Enabled
  <2>1. FirstInv(v)
    BY DEF ProfilesInv, VersionInv
  <2>2. step[v][1] = "sending" /\ posting[v][1] = {}
    BY <2>1 DEF FirstInv
  <2> QED
    BY <2>1, <2>2 DEF FirstInv
<1> QED
  BY <1>1, ProfilesInvariant, PTL

-----------------------------------------------------------------------------
(* Profiles implements ProfileHistory.                                     *)

\* A request is not answered while it is at work, and has an event to queue only if
\* it is answered with success.
AnswerInv ==
  \A r \in Requests :
    /\ rpc[r] \in {"idle", "find", "create", "update"} => response[r] = "none"
    /\ binding[r] # NoEvent => response[r] = "success"

Phases == [r \in Requests |-> RequestPhase(r)]

\* Only request r goes on.
Alone(r) ==
  \A q \in Requests \ {r} :
    rpc'[q] = rpc[q] /\ response'[q] = response[q] /\ binding'[q] = binding[q]

\* Then no other request seems to.
LEMMA AloneMoves ==
  ASSUME NEW r \in Requests, Alone(r)
  PROVE  Phases' = [Phases EXCEPT ![r] = RequestPhase(r)']
BY DEF Alone, Phases, RequestPhase

LEMMA AloneAnswers ==
  ASSUME AnswerInv, NEW r \in Requests, Alone(r),
         rpc'[r] \in {"idle", "find", "create", "update"} => response'[r] = "none",
         binding'[r] # NoEvent => response'[r] = "success"
  PROVE  AnswerInv'
BY DEF AnswerInv, Alone

LEMMA CallIsAsk ==
  ASSUME TypeOK, AnswerInv, NEW r \in Requests, Call(r)
  PROVE  History!Ask(r) /\ AnswerInv'
<1>1. /\ Alone(r) /\ rpc[r] = "idle" /\ rpc'[r] = "find"
      /\ UNCHANGED <<docs, response, binding, events>>
  BY DEF Call, Goes, Alone, TypeOK
<1>2. response[r] = "none"
  BY <1>1 DEF AnswerInv
<1>3. Phases' = [Phases EXCEPT ![r] = "open"] /\ Phases[r] = "idle"
  BY <1>1, <1>2, AloneMoves DEF Phases, RequestPhase
<1>4. AnswerInv'
  BY <1>1, <1>2, AloneAnswers DEF AnswerInv
<1> QED
  BY <1>1, <1>3, <1>4 DEF Call, Phases, History!Ask, History!Move

LEMMA FindIsRefusal ==
  ASSUME TypeOK, AnswerInv, NEW r \in Requests, FindProfile(r)
  PROVE  (History!Refuse(r) \/ UNCHANGED History!vars) /\ AnswerInv'
<1>1. /\ Alone(r) /\ rpc[r] = "find" /\ rpc'[r] \in {"create", "update", "end"}
      /\ UNCHANGED <<docs, payload, binding, events>>
  BY DEF FindProfile, Goes, Answer, Alone, TypeOK
<1>2. response[r] = "none" /\ binding[r] = NoEvent
  BY <1>1 DEF AnswerInv
<1>3. Phases[r] = "open"
  BY <1>1, <1>2 DEF Phases, RequestPhase
<1>4. CASE response'[r] = "none"
  <2>1. Phases' = Phases
    BY <1>1, <1>3, <1>4, AloneMoves DEF Phases, RequestPhase
  <2> QED
    BY <1>1, <1>2, <1>4, <2>1, AloneAnswers DEF Phases, History!vars
<1>5. CASE /\ rpc'[r] = "end"
           /\ \/ response'[r] = "queryError"
              \/ response'[r] = "conflict" /\ \E v \in 1..Len(docs) : v # payload[r].version
  <2>1. Phases' = [Phases EXCEPT ![r] = response'[r]]
    BY <1>1, <1>5, AloneMoves DEF RequestPhase
  <2>2. AnswerInv'
    BY <1>1, <1>2, <1>5, AloneAnswers
  <2> QED
    BY <1>1, <1>3, <1>5, <2>1, <2>2 DEF Phases, History!Refuse, History!Move
<1>6. CASE Answer(r, "queryError")
  BY <1>5, <1>6 DEF Answer, Goes, TypeOK
<1>7. ASSUME NEW k \in 0..Len(docs), k > 0, payload[r].version # k, Answer(r, "conflict")
      PROVE  /\ rpc'[r] = "end" /\ response'[r] = "conflict"
             /\ \E v \in 1..Len(docs) : v # payload[r].version
  BY <1>7 DEF Answer, Goes, TypeOK
<1> QED
  BY <1>2, <1>4, <1>5, <1>6, <1>7 DEF FindProfile

\* A write takes effect as the next version, or not at all.
LEMMA WriteIsApplication ==
  ASSUME TypeOK, AnswerInv, NEW r \in Requests, rpc[r] \in {"create", "update"},
         NEW v \in Nat \ {0}, NEW event, Write(r, v, event),
         v # 1 => payload[r].version = v - 1,
         UNCHANGED <<payload, events>>
  PROVE  (History!Apply(r) \/ History!Refuse(r)) /\ AnswerInv'
<1>1. response[r] = "none" /\ binding[r] = NoEvent
  BY DEF AnswerInv
<1>2. Phases[r] = "open"
  BY <1>1 DEF Phases, RequestPhase
<1>3. PICK answer \in {"success", "queryError"} :
        /\ Answer(r, answer)
        /\ Save(r, v) \/ (answer = "queryError" /\ UNCHANGED docs)
        /\ \/ answer = "success" /\ binding' = [binding EXCEPT ![r] = event]
           \/ UNCHANGED binding
  <2>1. CASE /\ Save(r, v) /\ Answer(r, "success")
             /\ binding' = [binding EXCEPT ![r] = event]
    BY <2>1
  <2>2. CASE Answer(r, "queryError") /\ UNCHANGED binding /\ (Save(r, v) \/ UNCHANGED docs)
    BY <2>2
  <2> QED
    BY <2>1, <2>2 DEF Write
<1>4. Alone(r) /\ rpc'[r] \in {"flush", "end"} /\ response'[r] = answer
  BY <1>3 DEF Answer, Goes, Alone, TypeOK
<1>5. Phases' = [Phases EXCEPT ![r] = answer]
  BY <1>3, <1>4, AloneMoves DEF RequestPhase
<1>6. AnswerInv'
  BY <1>1, <1>3, <1>4, AloneAnswers
<1>7. CASE Save(r, v)
  <2>1. docs \in Seq(Doc) /\ Len(docs) = v - 1
    BY <1>7 DEF Save, TypeOK, Doc
  <2>2. docs = <<>> \/ payload[r].version = Len(docs)
    BY <2>1
  <2> QED
    BY <1>2, <1>5, <1>6, <1>7, <2>2 DEF Phases, Save, History!Apply, History!Move
<1>8. CASE answer = "queryError" /\ UNCHANGED docs
  BY <1>2, <1>5, <1>6, <1>8 DEF Phases, History!Refuse, History!Move
<1> QED
  BY <1>3, <1>7, <1>8

LEMMA SaveIsApplication ==
  ASSUME TypeOK, RecordsInv, AnswerInv, NEW r \in Requests,
         CreateProfile(r) \/ UpdateProfile(r)
  PROVE  (History!Apply(r) \/ History!Refuse(r)) /\ AnswerInv'
<1>1. CASE CreateProfile(r)
  BY <1>1, WriteIsApplication DEF CreateProfile
<1>2. CASE UpdateProfile(r)
  <2>1. existing[r] \in DOMAIN docs /\ payload[r].version = existing[r]
    BY <1>2 DEF UpdateProfile, RecordsInv, RequestInv
  <2>2. existing[r] \in Nat \ {0}
    BY <2>1 DEF TypeOK
  <2>3. existing[r] + 1 \in Nat \ {0} /\ existing[r] + 1 # 1 /\ (existing[r] + 1) - 1 = existing[r]
    BY <2>2
  <2> QED
    BY <1>2, <2>1, <2>3, WriteIsApplication DEF UpdateProfile
<1> QED
  BY <1>1, <1>2

LEMMA FlushIsAnnouncement ==
  ASSUME TypeOK, RecordsInv, AnswerInv, NEW r \in Requests, FlushEvent(r)
  PROVE  ((\E v \in Versions : History!Announce(v)) \/ UNCHANGED History!vars) /\ AnswerInv'
<1>1. /\ UNCHANGED <<docs, payload, response, binding>>
      /\ rpc[r] = "flush" /\ rpc'[r] = "end" /\ Alone(r)
  BY DEF FlushEvent, Goes, Alone, TypeOK
<1>2. Phases' = Phases
  BY <1>1, AloneMoves DEF Phases, RequestPhase
<1>3. AnswerInv'
  BY <1>1, AloneAnswers DEF AnswerInv
<1>4. CASE binding[r] = NoEvent
  BY <1>1, <1>2, <1>3, <1>4 DEF FlushEvent, Phases, History!vars
<1>5. CASE binding[r] # NoEvent
  <2>1. PICK v \in DOMAIN docs : docs[v].by = r /\ binding[r] = EventOf(v)
    BY <1>5 DEF RecordsInv, RequestInv
  <2>2. v \in Versions
    BY VersionNumbers
  <2>3. binding[r].version = v
    BY <2>1 DEF EventOf
  <2>4. events' = [events EXCEPT ![v] = EventOf(v)]
    BY <1>5, <2>1, <2>3 DEF FlushEvent
  <2>5. Phases[docs[v].by] = "success"
    BY <1>1, <1>5, <2>1 DEF Phases, RequestPhase, AnswerInv
  <2>6. History!EventOf(v) = EventOf(v)
    BY DEF EventOf, History!EventOf
  <2> QED
    BY <1>1, <1>2, <1>3, <2>2, <2>4, <2>5, <2>6 DEF Phases, History!Announce
<1> QED
  BY <1>4, <1>5

LEMMA CrashIsNothing ==
  ASSUME TypeOK, AnswerInv, NEW r \in Requests, CrashRequest(r)
  PROVE  UNCHANGED History!vars /\ AnswerInv'
<1>1. /\ UNCHANGED <<docs, payload, response, binding, events>>
      /\ rpc[r] # "idle" /\ rpc'[r] = "end" /\ Alone(r)
  BY DEF CrashRequest, Goes, Alone, TypeOK
<1>2. Phases' = Phases
  BY <1>1, AloneMoves DEF Phases, RequestPhase
<1>3. AnswerInv'
  BY <1>1, AloneAnswers DEF AnswerInv
<1> QED
  BY <1>1, <1>2, <1>3 DEF Phases, History!vars

LEMMA HistoryStep ==
  ProfilesInv /\ AnswerInv /\ [Next]_vars => [History!Next]_(History!vars) /\ AnswerInv'
<1> SUFFICES ASSUME ProfilesInv, AnswerInv, [Next]_vars
             PROVE  [History!Next]_(History!vars) /\ AnswerInv'
  OBVIOUS
<1> USE DEF ProfilesInv
<1>1. ASSUME NEW r \in Requests, Call(r) \/ UpsertProfile(r) \/ CrashRequest(r)
      PROVE  [History!Next]_(History!vars) /\ AnswerInv'
  BY <1>1, CallIsAsk, FindIsRefusal, SaveIsApplication, FlushIsAnnouncement, CrashIsNothing
     DEF UpsertProfile, History!Next
<1>2. ASSUME UNCHANGED requestVars
      PROVE  UNCHANGED History!vars /\ AnswerInv'
  BY <1>2 DEF requestVars, History!vars, RequestPhase, AnswerInv
<1>3. ASSUME NEW v \in Versions, NEW n \in Attempts,
             \/ EndAttempt(v, n) \/ CrashAttempt(v, n) \/ Index(v, n)
             \/ \E k \in WelcomeMessages : EndPost(v, n, k)
      PROVE  UNCHANGED requestVars
  BY <1>3 DEF EndAttempt, CrashAttempt, Index, StartWelcome, SkipWelcome,
     EndWelcome, EndPost
<1>4. ASSUME NEW v \in Versions, HostStep(v)
      PROVE  UNCHANGED requestVars
  BY <1>4 DEF HostStep
<1> QED
  BY <1>1, <1>2, <1>3, <1>4 DEF Next, vars

LEMMA HistoryInit == Init => History!Init /\ AnswerInv
<1> SUFFICES ASSUME Init
             PROVE  History!Init /\ AnswerInv
  OBVIOUS
<1>1. [r \in Requests |-> RequestPhase(r)] = [r \in Requests |-> "idle"]
  BY DEF Init, RequestPhase
<1>2. History!NoEvent = NoEvent
  BY DEF NoEvent, History!NoEvent
<1> QED
  BY <1>1, <1>2 DEF Init, AnswerInv, History!Init

\* The requests and the events implement ProfileHistory: however the steps of the
\* requests are interleaved, each takes effect at one moment or not at all.
THEOREM ProfilesImplementHistory == Spec => ImplementsHistory
<1>1. Spec => [](ProfilesInv /\ AnswerInv)
  BY ProfilesInvInit, ProfilesInvStep, HistoryInit, HistoryStep, PTL DEF Spec
<1> QED
  BY <1>1, HistoryInit, HistoryStep, PTL DEF Spec, ImplementsHistory, History!Spec
=============================================================================
