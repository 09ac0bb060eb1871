--------------------------- MODULE VisibleServices ---------------------------
(***************************************************************************)
(* The cached list of the visible services: a timer scans the collection   *)
(* of the services and writes a blob (lib/compute_visible_services.ts)     *)
(* while the administrators create and update services                     *)
(* (lib/controllers/adm/services.ts); clients get the list, or one service *)
(* (lib/controllers/services.ts).                                          *)
(*                                                                         *)
(* The collection holds every version of every service, and the scan goes  *)
(* through all of them.  In which order the database returns them is not   *)
(* in the repository: with InOrder, the versions of a service come in the  *)
(* order of their creation; without it, in any order.                      *)
(***************************************************************************)
EXTENDS Naturals, Sequences, FiniteSets

CONSTANTS Services, Requests,
          MaxVersion,  \* a bound on the versions of a service
          InOrder

ASSUME VisibleServicesAssumption == MaxVersion \in Nat \ {0} /\ InOrder \in BOOLEAN

VARIABLES
  versions,  \* versions[s][v]: is version v of service s visible?
  existing,  \* existing[r]: the document request r found, NoDocument if none
  scanning,  \* the timer function is running
  todo,      \* the documents <<s, v>> the scan has yet to read
  list,      \* list[s]: the version in visibleServicesObj, 0 if none
  since,     \* since[s]: the latest version when the scan began (a ghost)
  written,   \* the blob exists
  blob,      \* blob[s]: the version in the blob, 0 if none
  asOf       \* asOf[s]: the latest version when the scan that wrote the blob
             \* began (a ghost)

adminVars == <<versions, existing>>
scanVars == <<scanning, list, since, written, blob, asOf>>
vars == <<adminVars, todo, scanVars>>

Nothing == [s \in Services |-> 0]
Documents == Services \X (1..MaxVersion)
NoDocument == <<>>

Init ==
  /\ versions = [s \in Services |-> <<>>]
  /\ existing = [r \in Requests |-> NoDocument]
  /\ scanning = FALSE
  /\ todo = {}
  /\ written = FALSE
  /\ list = Nothing /\ since = Nothing /\ blob = Nothing /\ asOf = Nothing

Latest == [s \in Services |-> Len(versions[s])]

-----------------------------------------------------------------------------
(* CreateServiceHandler and UpdateServiceHandler.                          *)

\* Variant: the version is not checked to be new.
SaveAnyway(s, v) ==
  /\ v <= Len(versions[s]) + 1
  /\ \E visible \in BOOLEAN : versions' = [versions EXCEPT ![s] = Append(@, visible)]
  /\ todo' \in IF scanning THEN {todo, todo \cup {<<s, v>>}} ELSE {todo}

\* Version v of s is created, unless there is one already.  A scan that is
\* going on reads the new document or misses it.
Save(s, v) ==
  /\ Len(versions[s]) = v - 1
  /\ \E visible \in BOOLEAN : versions' = [versions EXCEPT ![s] = Append(@, visible)]
  /\ todo' \in IF scanning THEN {todo, todo \cup {<<s, v>>}} ELSE {todo}

CreateService(s) ==
  /\ Save(s, 1)
  /\ UNCHANGED <<existing, scanVars>>

\* findOneByServiceId.
FindService(r) ==
  /\ existing[r] = NoDocument
  /\ \E s \in Services :
       /\ Len(versions[s]) \in 1..(MaxVersion - 1)
       /\ existing' = [existing EXCEPT ![r] = <<s, Len(versions[s])>>]
  /\ UNCHANGED <<versions, todo, scanVars>>

\* serviceModel.update: the next version of the one that was found is created,
\* or the handler answers with an error.
UpdateService(r) ==
  /\ existing[r] # NoDocument
  /\ existing' = [existing EXCEPT ![r] = NoDocument]
  /\ \/ Save(existing[r][1], existing[r][2] + 1)
     \/ UNCHANGED <<versions, todo>>
  /\ UNCHANGED scanVars

-----------------------------------------------------------------------------
(* The scan.  There is one at a time: the host runs a timer as a singleton. *)

StartScan ==
  /\ ~scanning
  /\ scanning' = TRUE
  /\ todo' = {d \in Documents : d[2] <= Len(versions[d[1]])}
  /\ list' = Nothing
  /\ since' = Latest
  /\ UNCHANGED <<adminVars, written, blob, asOf>>

\* Variant: a service that is not visible any more stays in the map.
KeepHidden(cached, v, visible) == IF v > cached /\ visible THEN v ELSE cached

\* Variant: a version is only looked at when the service is not listed yet.
KeepFirst(cached, v, visible) ==
  IF cached # 0 THEN cached ELSE IF visible THEN v ELSE 0

\* reduceServicesToVisibleServices, for the version of a service that is in the
\* map (0 if there is none) and the next document of that service.
Reduce(cached, v, visible) ==
  IF v <= cached THEN cached ELSE IF visible THEN v ELSE 0

ReadDocument(s, v) ==
  /\ <<s, v>> \in todo
  /\ InOrder => \A d \in todo : d[1] = s => d[2] >= v
  /\ todo' = todo \ {<<s, v>>}
  /\ list' = [list EXCEPT ![s] = Reduce(@, v, versions[s][v])]
  /\ UNCHANGED <<adminVars, scanning, since, written, blob, asOf>>

\* The list is returned as the output binding visibleServicesBlob.
FinishScan ==
  /\ scanning /\ todo = {}
  /\ scanning' = FALSE
  /\ written' = TRUE
  /\ blob' = list
  /\ asOf' = since
  /\ list' = Nothing /\ since' = Nothing
  /\ UNCHANGED <<adminVars, todo>>

\* Variant: what was read before the error is returned.
PublishPartial ==
  /\ scanning
  /\ scanning' = FALSE
  /\ todo' = {}
  /\ written' = TRUE
  /\ blob' = list
  /\ asOf' = since
  /\ list' = Nothing /\ since' = Nothing
  /\ UNCHANGED adminVars

\* A page cannot be read, or something throws: nothing is returned, and the blob
\* stays as it is.  The same for a crash.
FailScan ==
  /\ scanning
  /\ scanning' = FALSE
  /\ todo' = {}
  /\ list' = Nothing /\ since' = Nothing
  /\ UNCHANGED <<adminVars, written, blob, asOf>>

Next ==
  \/ \E s \in Services : CreateService(s)
  \/ \E r \in Requests : FindService(r) \/ UpdateService(r)
  \/ StartScan
  \/ \E s \in Services : \E v \in 1..MaxVersion : ReadDocument(s, v)
  \/ FinishScan
  \/ FailScan

Spec == Init /\ [][Next]_vars

\* The timer fires again and again, and not every scan of the future fails.
FairSpec == Spec /\ []<><<FinishScan>>_vars

-----------------------------------------------------------------------------
(* What the clients are told.                                              *)

\* GetServiceHandler (of both APIs): the latest version of s, 0 if there is none.
GetService(s) == Latest[s]

\* GetVisibleServicesHandler: the listed versions.  Before the first scan there is no
\* blob, and the answer is an error.
GetVisibleServices == IF written THEN [listed |-> blob] ELSE [error |-> "internal"]

-----------------------------------------------------------------------------
(* Properties.                                                             *)

TypeOK ==
  /\ versions \in [Services -> Seq(BOOLEAN)]
  /\ \A s \in Services : Len(versions[s]) <= MaxVersion
  /\ existing \in [Requests -> Documents \cup {NoDocument}]
  /\ scanning \in BOOLEAN /\ written \in BOOLEAN
  /\ todo \subseteq Documents
  /\ list \in [Services -> 0..MaxVersion] /\ since \in [Services -> 0..MaxVersion]
  /\ blob \in [Services -> 0..MaxVersion] /\ asOf \in [Services -> 0..MaxVersion]

\* The three parts of TakesLatestVersion: a listed service is shown as it really was,
\* it is shown as of the beginning of the scan or later,
\* and one that is missing did not exist then, or was hidden then or later.
ListedIsVisible == \A s \in Services : blob[s] # 0 => versions[s][blob[s]]
ListedIsFresh == \A s \in Services : blob[s] # 0 => blob[s] >= asOf[s]
MissingWasHidden ==
  \A s \in Services : blob[s] = 0 =>
    asOf[s] = 0 \/ \E v \in asOf[s]..Len(versions[s]) : ~versions[s][v]

\* The list is up to date with the beginning of the scan that wrote it, whatever
\* was updated during the scan.  "should take the latest version of a service" (a
\* test).
TakesLatestVersion == ListedIsVisible /\ ListedIsFresh /\ MissingWasHidden

\* From one list to the next, a service that both show is never shown as of an older
\* version than before, even when scans fail half way.
NeverGoesBack ==
  [][\A s \in Services : blob[s] # 0 /\ blob'[s] # 0 => blob'[s] >= blob[s]]_vars

\* Once the administrators are done, the list agrees with what GetService says: it
\* shows the latest version of every visible service and no other service, whatever
\* was updated during a scan, and however many scans failed.
EventuallyListed ==
  <>[](GetVisibleServices =
         [listed |-> [s \in Services |->
            LET v == GetService(s) IN IF v # 0 /\ versions[s][v] THEN v ELSE 0]])
=============================================================================
