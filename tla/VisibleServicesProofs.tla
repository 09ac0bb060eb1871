----------------------- MODULE VisibleServicesProofs -----------------------
(***************************************************************************)
(* Proofs about VisibleServices for every set of services and requests and *)
(* any number of versions.                                                 *)
(*                                                                         *)
(* In whatever order the versions of a service are read: as long as a scan *)
(* has not read what was the latest version when it began, that document   *)
(* is still to be read; once it has, that version or a later one is        *)
(* listed, or was found to be hidden (AnyInv).                             *)
(*                                                                         *)
(* If they come in order, then once the scan has read that document        *)
(* everything it will read of the service is later (OrderInv).             *)
(***************************************************************************)
EXTENDS VisibleServices, TLAPS

\* One of the versions of s, from version from on, is hidden.
Hidden(s, from) == \E h \in from..Len(versions[s]) : ~versions[s][h]

\* An update knows a version that is not the last one it may have.
ExistingInv == \A r \in Requests : existing[r] # NoDocument => existing[r][2] < MaxVersion

\* What is still to be read exists.
TodoInv ==
  /\ ~scanning => todo = {}
  /\ \A d \in todo : d[2] <= Len(versions[d[1]])

\* Nothing refers to a version that does not exist, and a scan begins after the list
\* was written.
BoundInv ==
  \A s \in Services :
    /\ list[s] <= Len(versions[s]) /\ since[s] <= Len(versions[s])
    /\ blob[s] <= Len(versions[s]) /\ asOf[s] <= Len(versions[s])
    /\ scanning => blob[s] <= since[s]

\* What is listed is visible, and the scan still has the version before it that it must
\* not miss, unless the list shows that one or a later one, or one of these is hidden.
ListInv ==
  \A s \in Services :
    /\ list[s] # 0 => versions[s][list[s]]
    /\ scanning => \/ <<s, since[s]>> \in todo
                   \/ list[s] >= since[s]
                   \/ Hidden(s, since[s])

\* The same for the list that was written: see ListedIsVisible and MissingWasHidden.
BlobInv ==
  \A s \in Services :
    /\ blob[s] # 0 => versions[s][blob[s]]
    /\ blob[s] = 0 => asOf[s] = 0 \/ Hidden(s, asOf[s])

AnyInv == /\ TypeOK
          /\ ExistingInv
          /\ TodoInv
          /\ BoundInv
          /\ ListInv
          /\ BlobInv

\* What is still to be read is later than what is listed; and the scan has got as far
\* as the version it must not miss, or it still will.
OrderInv ==
  /\ \A d \in todo : d[2] > list[d[1]]
  /\ scanning => \A s \in Services :
       \/ \E d \in todo : d[1] = s /\ d[2] >= since[s]
       \/ (list[s] # 0 => list[s] >= since[s]) /\ \A d \in todo : d[1] # s
  /\ ListedIsFresh

-----------------------------------------------------------------------------
(* In any order.                                                           *)

LEMMA InvInit == Init => AnyInv /\ OrderInv
<1> SUFFICES ASSUME Init
             PROVE  AnyInv /\ OrderInv
  OBVIOUS
<1> USE VisibleServicesAssumption DEF Init
<1>1. TypeOK
  <2>1. \A s \in Services : versions[s] \in Seq(BOOLEAN) /\ Len(versions[s]) = 0
    OBVIOUS
  <2>2. versions \in [Services -> Seq(BOOLEAN)]
    BY <2>1
  <2>3. 0 \in 0..MaxVersion /\ 0 <= MaxVersion
    OBVIOUS
  <2>4. /\ existing \in [Requests -> Documents \cup {NoDocument}]
        /\ list \in [Services -> 0..MaxVersion] /\ since \in [Services -> 0..MaxVersion]
        /\ blob \in [Services -> 0..MaxVersion] /\ asOf \in [Services -> 0..MaxVersion]
    BY <2>3 DEF Nothing
  <2> QED
    BY <2>1, <2>2, <2>3, <2>4 DEF TypeOK
<1>2. ExistingInv /\ TodoInv
  BY DEF ExistingInv, TodoInv
<1>3. BoundInv
  BY DEF BoundInv, Nothing
<1>4. ListInv /\ BlobInv /\ OrderInv
  BY DEF ListInv, BlobInv, OrderInv, ListedIsFresh, Nothing
<1> QED
  BY <1>1, <1>2, <1>3, <1>4 DEF AnyInv

\* A new version does not change the ones before it.
LEMMA SaveEffect ==
  ASSUME TypeOK, NEW s \in Services, NEW v \in 1..MaxVersion, Save(s, v)
  PROVE  /\ versions' \in [Services -> Seq(BOOLEAN)]
         /\ Len(versions'[s]) = v /\ Len(versions[s]) = v - 1
         /\ \A k \in Services \ {s} : versions'[k] = versions[k]
         /\ \A i \in 1..Len(versions[s]) : versions'[s][i] = versions[s][i]
         /\ \/ todo' = todo
            \/ scanning /\ todo' = todo \cup {<<s, v>>}
<1>1. PICK visible \in BOOLEAN :
        versions' = [versions EXCEPT ![s] = Append(versions[s], visible)]
  BY DEF Save
<1>2. versions[s] \in Seq(BOOLEAN) /\ Len(versions[s]) = v - 1
  BY DEF TypeOK, Save
<1>3. /\ Append(versions[s], visible) \in Seq(BOOLEAN)
      /\ Len(Append(versions[s], visible)) = Len(versions[s]) + 1
      /\ \A i \in 1..Len(versions[s]) : Append(versions[s], visible)[i] = versions[s][i]
  BY <1>2
<1>4. versions'[s] = Append(versions[s], visible)
  BY <1>1 DEF TypeOK
<1>5. versions' \in [Services -> Seq(BOOLEAN)]
  BY <1>1, <1>3 DEF TypeOK
<1>6. \A k \in Services \ {s} : versions'[k] = versions[k]
  BY <1>1 DEF TypeOK
<1>7. \/ todo' = todo
      \/ scanning /\ todo' = todo \cup {<<s, v>>}
  BY DEF Save
<1> QED
  BY <1>2, <1>3, <1>4, <1>5, <1>6, <1>7

\* A version that was hidden, or visible, remains so.
LEMMA SaveKeepsVersions ==
  ASSUME TypeOK, NEW s \in Services, NEW v \in 1..MaxVersion, Save(s, v)
  PROVE  \A k \in Services :
           /\ Len(versions[k]) \in Nat /\ Len(versions'[k]) \in Nat
           /\ Len(versions'[k]) >= Len(versions[k]) /\ Len(versions'[k]) <= MaxVersion
           /\ \A i \in 1..Len(versions[k]) : versions'[k][i] = versions[k][i]
           /\ \A from \in Nat \ {0} : Hidden(k, from) => Hidden(k, from)'
<1> USE VisibleServicesAssumption
<1> TAKE k \in Services
<1>1. /\ Len(versions'[s]) = v /\ Len(versions[s]) = v - 1
      /\ \A j \in Services \ {s} : versions'[j] = versions[j]
      /\ \A i \in 1..Len(versions[s]) : versions'[s][i] = versions[s][i]
  BY SaveEffect
<1>2. Len(versions[k]) \in Nat /\ Len(versions[k]) <= MaxVersion
  BY DEF TypeOK
<1>3. /\ Len(versions'[k]) \in Nat
      /\ Len(versions'[k]) >= Len(versions[k]) /\ Len(versions'[k]) <= MaxVersion
  BY <1>1, <1>2
<1>4. \A i \in 1..Len(versions[k]) : versions'[k][i] = versions[k][i]
  BY <1>1
<1>5. ASSUME NEW from \in Nat \ {0}, Hidden(k, from)
      PROVE  Hidden(k, from)'
  <2>1. PICK h \in from..Len(versions[k]) : ~versions[k][h]
    BY <1>5 DEF Hidden
  <2>2. h \in 1..Len(versions[k]) /\ h \in from..Len(versions'[k])
    BY <1>2, <1>3
  <2>3. ~versions'[k][h]
    BY <1>4, <2>1, <2>2
  <2> QED
    BY <2>2, <2>3 DEF Hidden
<1> QED
  BY <1>2, <1>3, <1>4, <1>5

LEMMA SaveKeepsInv ==
  ASSUME AnyInv, NEW s \in Services, NEW v \in 1..MaxVersion, Save(s, v),
         UNCHANGED scanVars
  PROVE  /\ TodoInv' /\ BoundInv' /\ ListInv' /\ BlobInv'
         /\ todo' \subseteq Documents
<1> USE VisibleServicesAssumption DEF AnyInv, scanVars
<1>1. /\ Len(versions'[s]) = v
      /\ \/ todo' = todo
         \/ scanning /\ todo' = todo \cup {<<s, v>>}
  BY SaveEffect
<1>2. \A k \in Services :
        /\ Len(versions[k]) \in Nat /\ Len(versions'[k]) \in Nat
        /\ Len(versions'[k]) >= Len(versions[k])
        /\ \A i \in 1..Len(versions[k]) : versions'[k][i] = versions[k][i]
        /\ \A from \in Nat \ {0} : Hidden(k, from) => Hidden(k, from)'
  BY SaveKeepsVersions
<1>3. /\ todo \subseteq Documents
      /\ \A k \in Services : list[k] \in Nat /\ since[k] \in Nat
                             /\ blob[k] \in Nat /\ asOf[k] \in Nat
  BY DEF TypeOK
<1>4. todo' \subseteq Documents
  BY <1>1, <1>3 DEF Documents
<1>5. BoundInv'
  BY <1>2, <1>3 DEF BoundInv
<1>6. TodoInv'
  <2>1. \A d \in todo : d[1] \in Services /\ d[2] \in Nat
    BY <1>3 DEF Documents
  <2> QED
    BY <1>1, <1>2, <2>1 DEF TodoInv
<1>7. ListInv'
  <2> SUFFICES ASSUME NEW k \in Services
               PROVE  /\ list[k] # 0 => versions'[k][list[k]]
                      /\ scanning => \/ <<k, since[k]>> \in todo'
                                     \/ list[k] >= since[k]
                                     \/ Hidden(k, since[k])'
    BY DEF ListInv, Hidden
  <2>1. list[k] # 0 => versions'[k][list[k]]
    <3>1. list[k] # 0 => list[k] \in 1..Len(versions[k])
      BY <1>2, <1>3 DEF BoundInv
    <3> QED
      BY <1>2, <3>1 DEF ListInv
  <2>2. ASSUME scanning, ~(list[k] >= since[k])
        PROVE  <<k, since[k]>> \in todo' \/ Hidden(k, since[k])'
    <3>1. since[k] \in Nat \ {0}
      BY <1>3, <2>2
    <3> QED
      BY <1>1, <1>2, <2>2, <3>1 DEF ListInv
  <2> QED
    BY <2>1, <2>2
<1>8. BlobInv'
  <2> SUFFICES ASSUME NEW k \in Services
               PROVE  /\ blob[k] # 0 => versions'[k][blob[k]]
                      /\ blob[k] = 0 => asOf[k] = 0 \/ Hidden(k, asOf[k])'
    BY DEF BlobInv, Hidden
  <2>1. blob[k] # 0 => versions'[k][blob[k]]
    <3>1. blob[k] # 0 => blob[k] \in 1..Len(versions[k])
      BY <1>2, <1>3 DEF BoundInv
    <3> QED
      BY <1>2, <3>1 DEF BlobInv
  <2>2. ASSUME blob[k] = 0, asOf[k] # 0
        PROVE  Hidden(k, asOf[k])'
    BY <1>2, <1>3, <2>2 DEF BlobInv
  <2> QED
    BY <2>1, <2>2
<1> QED
  BY <1>4, <1>5, <1>6, <1>7, <1>8

LEMMA AdminStep ==
  ASSUME AnyInv,
         \/ \E s \in Services : CreateService(s)
         \/ \E r \in Requests : FindService(r) \/ UpdateService(r)
  PROVE  AnyInv'
<1> USE VisibleServicesAssumption DEF AnyInv
<1>1. ASSUME NEW s \in Services, NEW v \in 1..MaxVersion, Save(s, v), UNCHANGED scanVars,
             ExistingInv', existing' \in [Requests -> Documents \cup {NoDocument}]
      PROVE  AnyInv'
  <2>1. versions' \in [Services -> Seq(BOOLEAN)]
    BY <1>1, SaveEffect
  <2>2. \A k \in Services : Len(versions'[k]) <= MaxVersion
    BY <1>1, SaveKeepsVersions
  <2>3. /\ TodoInv' /\ BoundInv' /\ ListInv' /\ BlobInv'
        /\ todo' \subseteq Documents
    BY <1>1, SaveKeepsInv
  <2> QED
    BY <1>1, <2>1, <2>2, <2>3 DEF TypeOK, scanVars
<1>2. ASSUME UNCHANGED <<versions, todo, scanVars>>,
             ExistingInv', existing' \in [Requests -> Documents \cup {NoDocument}]
      PROVE  AnyInv'
  BY <1>2 DEF scanVars, TypeOK, TodoInv, BoundInv, ListInv, BlobInv, Hidden
<1>3. ASSUME NEW s \in Services, CreateService(s)
      PROVE  AnyInv'
  <2>1. 1 \in 1..MaxVersion /\ existing' = existing
    BY <1>3 DEF CreateService
  <2> QED
    BY <1>1, <1>3, <2>1 DEF CreateService, ExistingInv, TypeOK
<1>4. ASSUME NEW r \in Requests, FindService(r)
      PROVE  AnyInv'
  <2>1. PICK s \in Services :
          /\ Len(versions[s]) \in 1..(MaxVersion - 1)
          /\ existing' = [existing EXCEPT ![r] = <<s, Len(versions[s])>>]
    BY <1>4 DEF FindService
  <2>2. <<s, Len(versions[s])>> \in Documents /\ Len(versions[s]) < MaxVersion
    BY <2>1 DEF Documents
  <2>3. existing' \in [Requests -> Documents \cup {NoDocument}]
    BY <2>1, <2>2 DEF TypeOK
  <2>4. ExistingInv'
    BY <2>1, <2>2 DEF ExistingInv, TypeOK
  <2> QED
    BY <1>2, <1>4, <2>3, <2>4 DEF FindService
<1>5. ASSUME NEW r \in Requests, UpdateService(r)
      PROVE  AnyInv'
  <2>1. existing' \in [Requests -> Documents \cup {NoDocument}] /\ ExistingInv'
    BY <1>5 DEF UpdateService, ExistingInv, TypeOK
  <2>2. /\ existing[r][1] \in Services
        /\ existing[r][2] + 1 \in 1..MaxVersion
    BY <1>5 DEF UpdateService, ExistingInv, TypeOK, Documents
  <2> QED
    BY <1>1, <1>2, <1>5, <2>1, <2>2 DEF UpdateService
<1> QED
  BY <1>3, <1>4, <1>5

LEMMA StartStep == ASSUME AnyInv, StartScan PROVE AnyInv'
<1> USE VisibleServicesAssumption DEF AnyInv, StartScan, adminVars
<1>1. \A s \in Services : Len(versions[s]) \in 0..MaxVersion
  BY DEF TypeOK
<1>2. TypeOK'
  BY <1>1 DEF TypeOK, Latest, Nothing
<1>3. ExistingInv' /\ BlobInv'
  BY DEF ExistingInv, BlobInv, Hidden
<1>4. TodoInv'
  BY <1>1 DEF TodoInv, Documents
<1>5. BoundInv'
  BY <1>1 DEF BoundInv, Nothing, Latest, TypeOK
<1>6. ListInv'
  <2> SUFFICES ASSUME NEW s \in Services
               PROVE  /\ list'[s] = 0
                      /\ <<s, since'[s]>> \in todo' \/ list'[s] >= since'[s]
    BY DEF ListInv
  <2>1. since'[s] = Len(versions[s]) /\ list'[s] = 0
    BY DEF Latest, Nothing
  <2>2. CASE Len(versions[s]) = 0
    BY <2>1, <2>2
  <2>3. CASE Len(versions[s]) # 0
    BY <1>1, <2>1, <2>3 DEF Documents
  <2> QED
    BY <2>1, <2>2, <2>3
<1> QED
  BY <1>2, <1>3, <1>4, <1>5, <1>6

\* What reading a document does to the list.
LEMMA ReadEffect ==
  ASSUME AnyInv, NEW s \in Services, NEW v \in 1..MaxVersion, ReadDocument(s, v)
  PROVE  /\ scanning /\ <<s, v>> \in todo /\ v <= Len(versions[s])
         /\ list[s] \in Nat /\ Len(versions[s]) \in Nat
         /\ todo' = todo \ {<<s, v>>}
         /\ UNCHANGED <<versions, existing, scanning, since, written, blob, asOf>>
         /\ list' = [list EXCEPT ![s] = Reduce(list[s], v, versions[s][v])]
         /\ Reduce(list[s], v, versions[s][v]) \in 0..Len(versions[s])
<1> USE VisibleServicesAssumption DEF AnyInv
<1>1. <<s, v>>[1] = s /\ <<s, v>>[2] = v
  OBVIOUS
<1>2. scanning /\ <<s, v>> \in todo /\ v <= Len(versions[s])
  BY <1>1 DEF ReadDocument, TodoInv
<1>3. list[s] \in Nat /\ list[s] <= Len(versions[s]) /\ Len(versions[s]) \in Nat
  BY DEF TypeOK, BoundInv
<1>4. Reduce(list[s], v, versions[s][v]) \in 0..Len(versions[s])
  BY <1>2, <1>3 DEF Reduce
<1> QED
  BY <1>2, <1>3, <1>4 DEF ReadDocument, adminVars

LEMMA ReadStep ==
  ASSUME AnyInv, NEW s \in Services, NEW v \in 1..MaxVersion, ReadDocument(s, v)
  PROVE  AnyInv'
<1> USE VisibleServicesAssumption DEF AnyInv
<1> DEFINE shown == Reduce(list[s], v, versions[s][v])
<1>1. /\ scanning /\ <<s, v>> \in todo /\ v <= Len(versions[s])
      /\ list[s] \in Nat /\ Len(versions[s]) \in Nat
      /\ todo' = todo \ {<<s, v>>}
      /\ UNCHANGED <<versions, existing, scanning, since, written, blob, asOf>>
      /\ list' = [list EXCEPT ![s] = shown]
      /\ shown \in 0..Len(versions[s])
  BY ReadEffect
<1>2. /\ shown # 0 => versions[s][shown]
      /\ shown >= v \/ ~versions[s][v]
      /\ shown >= list[s] \/ (~versions[s][v] /\ v > list[s])
  <2>1. CASE v <= list[s]
    <3>1. shown = list[s]
      BY <2>1 DEF Reduce
    <3>2. shown # 0 => versions[s][shown]
      BY <3>1 DEF ListInv
    <3> QED
      BY <1>1, <2>1, <3>1, <3>2
  <2>2. CASE ~(v <= list[s])
    BY <1>1, <2>2 DEF Reduce
  <2> QED
    BY <2>1, <2>2
<1> HIDE DEF shown
<1>3. TypeOK'
  <2>1. shown \in 0..MaxVersion
    BY <1>1 DEF TypeOK
  <2> QED
    BY <1>1, <2>1 DEF TypeOK
<1>4. ExistingInv' /\ BlobInv'
  BY <1>1 DEF ExistingInv, BlobInv, Hidden
<1>5. TodoInv'
  BY <1>1 DEF TodoInv
<1>6. BoundInv'
  BY <1>1 DEF BoundInv, TypeOK
<1>7. ListInv'
  <2> SUFFICES ASSUME NEW k \in Services
               PROVE  /\ list'[k] # 0 => versions[k][list'[k]]
                      /\ \/ <<k, since[k]>> \in todo'
                         \/ list'[k] >= since[k]
                         \/ Hidden(k, since[k])
    BY <1>1 DEF ListInv, Hidden
  <2>1. CASE k # s
    <3>1. list'[k] = list[k] /\ <<k, since[k]>> # <<s, v>>
      BY <1>1, <2>1 DEF TypeOK
    <3> QED
      BY <1>1, <3>1 DEF ListInv
  <2>2. CASE k = s
    <3>1. list'[s] = shown /\ since[s] \in Nat
      BY <1>1 DEF TypeOK
    <3>2. ASSUME <<s, since[s]>> \notin todo', ~(shown >= since[s])
          PROVE  Hidden(s, since[s])
      <4>1. CASE since[s] = v
        BY <1>1, <1>2, <3>1, <3>2, <4>1 DEF Hidden
      <4>2. CASE list[s] >= since[s]
        <5>1. ~versions[s][v] /\ v \in since[s]..Len(versions[s])
          BY <1>1, <1>2, <3>1, <3>2, <4>2
        <5> QED
          BY <5>1 DEF Hidden
      <4>3. CASE since[s] # v /\ ~(list[s] >= since[s])
        <5>1. <<s, since[s]>> \notin todo
          BY <1>1, <3>2, <4>3
        <5> QED
          BY <1>1, <4>3, <5>1 DEF ListInv
      <4> QED
        BY <4>1, <4>2, <4>3
    <3> QED
      BY <1>2, <2>2, <3>1, <3>2
  <2> QED
    BY <2>1, <2>2
<1> QED
  BY <1>3, <1>4, <1>5, <1>6, <1>7

LEMMA EndStep == ASSUME AnyInv, FinishScan \/ FailScan PROVE AnyInv'
<1> USE VisibleServicesAssumption DEF AnyInv, FinishScan, FailScan, adminVars
<1>1. TypeOK'
  <2>1. Nothing \in [Services -> 0..MaxVersion]
    <3>1. 0 \in 0..MaxVersion
      OBVIOUS
    <3> QED
      BY <3>1 DEF Nothing
  <2>2. CASE FinishScan
    BY <2>1, <2>2 DEF TypeOK
  <2>3. CASE FailScan
    BY <2>1, <2>3 DEF TypeOK
  <2> QED
    BY <2>2, <2>3
<1>2. ExistingInv' /\ TodoInv' /\ ListInv'
  BY DEF ExistingInv, TodoInv, ListInv, Nothing
<1>3. BoundInv'
  BY DEF BoundInv, Nothing, TypeOK
<1>4. BlobInv'
  <2>1. CASE FinishScan
    <3> SUFFICES ASSUME NEW s \in Services
                 PROVE  /\ list[s] # 0 => versions[s][list[s]]
                        /\ list[s] = 0 => since[s] = 0 \/ Hidden(s, since[s])
      BY <2>1 DEF BlobInv, Hidden
    <3>1. list[s] \in Nat /\ since[s] \in Nat
      BY DEF TypeOK
    <3> QED
      BY <2>1, <3>1 DEF ListInv
  <2>2. CASE FailScan
    BY <2>2 DEF BlobInv, Hidden
  <2> QED
    BY <2>1, <2>2
<1> QED
  BY <1>1, <1>2, <1>3, <1>4

LEMMA AnyInvStep == AnyInv /\ [Next]_vars => AnyInv'
<1> SUFFICES ASSUME AnyInv, [Next]_vars
             PROVE  AnyInv'
  OBVIOUS
<1>1. CASE UNCHANGED vars
  BY <1>1 DEF vars, adminVars, scanVars, AnyInv, TypeOK, ExistingInv, TodoInv, BoundInv,
     ListInv, BlobInv, Hidden
<1>2. CASE Next
  BY <1>2, AdminStep, StartStep, ReadStep, EndStep DEF Next
<1> QED
  BY <1>1, <1>2

-----------------------------------------------------------------------------
(* In the order of their creation.                                         *)

LEMMA SaveKeepsOrder ==
  ASSUME AnyInv, OrderInv, NEW s \in Services, NEW v \in 1..MaxVersion, Save(s, v),
         UNCHANGED scanVars
  PROVE  OrderInv'
<1> USE DEF AnyInv, OrderInv, scanVars
<1>1. /\ Len(versions[s]) = v - 1
      /\ \/ todo' = todo
         \/ scanning /\ todo' = todo \cup {<<s, v>>}
  BY SaveEffect
<1>2. <<s, v>>[1] = s /\ <<s, v>>[2] = v /\ v > list[s] /\ v >= since[s]
  BY <1>1 DEF BoundInv, TypeOK
<1>3. \A d \in todo' : d[2] > list[d[1]]
  BY <1>1, <1>2
<1>4. ASSUME scanning, NEW k \in Services
      PROVE  \/ \E d \in todo' : d[1] = k /\ d[2] >= since[k]
             \/ (list[k] # 0 => list[k] >= since[k]) /\ \A d \in todo' : d[1] # k
  <2>1. CASE k = s /\ todo' = todo \cup {<<s, v>>}
    <3>1. <<s, v>> \in todo'
      BY <2>1
    <3> QED
      BY <1>2, <2>1, <3>1
  <2>2. CASE ~(k = s /\ todo' = todo \cup {<<s, v>>})
    <3>1. todo \subseteq todo' /\ \A d \in todo' : d[1] = k => d \in todo
      BY <1>1, <1>2, <2>2
    <3> QED
      BY <1>4, <3>1
  <2> QED
    BY <2>1, <2>2
<1> QED
  BY <1>3, <1>4 DEF ListedIsFresh

LEMMA ReadKeepsOrder ==
  ASSUME InOrder, AnyInv, OrderInv,
         NEW s \in Services, NEW v \in 1..MaxVersion, ReadDocument(s, v)
  PROVE  OrderInv'
<1> USE DEF AnyInv, OrderInv
<1> DEFINE shown == Reduce(list[s], v, versions[s][v])
<1>1. /\ scanning /\ <<s, v>> \in todo
      /\ todo' = todo \ {<<s, v>>}
      /\ UNCHANGED <<scanning, since, blob, asOf>>
      /\ list' = [list EXCEPT ![s] = shown]
  BY ReadEffect
<1>2. <<s, v>>[1] = s /\ <<s, v>>[2] = v
  OBVIOUS
<1>3. shown \in {0, v} /\ list[s] \in Nat
  <2>1. list[s] \in Nat /\ v > list[s]
    BY <1>1, <1>2 DEF TypeOK
  <2> QED
    BY <2>1 DEF Reduce
<1> HIDE DEF shown
<1>4. /\ \A d \in todo : d[1] \in Services /\ d[2] \in Nat
      /\ \A k \in Services : since[k] \in Nat
  BY DEF TypeOK, Documents
<1>5. \A d \in todo' : d[1] = s => d[2] > v
  <2>1. \A d \in todo : d[1] = s => d[2] >= v
    BY DEF ReadDocument
  <2>2. \A d \in todo : d[1] = s /\ d[2] = v => d = <<s, v>>
    BY DEF TypeOK, Documents
  <2> QED
    BY <1>1, <1>4, <2>1, <2>2
<1>6. \A d \in todo' : d[2] > list'[d[1]]
  <2> TAKE d \in todo'
  <2>1. CASE d[1] = s
    BY <1>1, <1>3, <1>4, <1>5, <2>1 DEF TypeOK
  <2>2. CASE d[1] # s
    BY <1>1, <1>4, <2>2 DEF TypeOK
  <2> QED
    BY <2>1, <2>2
<1>7. ASSUME NEW k \in Services
      PROVE  \/ \E d \in todo' : d[1] = k /\ d[2] >= since[k]
             \/ (list'[k] # 0 => list'[k] >= since[k]) /\ \A d \in todo' : d[1] # k
  <2>1. CASE k # s
    <3>1. /\ list'[k] = list[k]
          /\ \A d \in todo : d[1] = k => d \in todo'
      BY <1>1, <1>2, <2>1 DEF TypeOK
    <3> QED
      BY <1>1, <3>1
  <2>2. CASE k = s
    <3>1. PICK d \in todo : d[1] = s /\ d[2] >= since[s]
      BY <1>1, <1>2
    <3>2. CASE d # <<s, v>>
      BY <1>1, <2>2, <3>1, <3>2
    <3>3. CASE d = <<s, v>>
      <4>1. v >= since[s] /\ list'[s] = shown
        BY <1>1, <1>2, <3>1, <3>3 DEF TypeOK
      <4>2. CASE \E e \in todo' : e[1] = s
        <5>1. PICK e \in todo' : e[1] = s
          BY <4>2
        <5>2. e[2] >= since[s]
          BY <1>1, <1>4, <1>5, <4>1, <5>1
        <5> QED
          BY <2>2, <5>1, <5>2
      <4>3. CASE \A e \in todo' : e[1] # s
        BY <1>3, <2>2, <4>1, <4>3
      <4> QED
        BY <4>2, <4>3
    <3> QED
      BY <3>2, <3>3
  <2> QED
    BY <2>1, <2>2
<1> QED
  BY <1>1, <1>6, <1>7 DEF ListedIsFresh

LEMMA OrderInvStep ==
  ASSUME InOrder PROVE AnyInv /\ OrderInv /\ [Next]_vars => OrderInv'
<1> SUFFICES ASSUME AnyInv, OrderInv, [Next]_vars
             PROVE  OrderInv'
  OBVIOUS
<1> USE VisibleServicesAssumption
<1>1. ASSUME UNCHANGED <<todo, scanVars>>
      PROVE  OrderInv'
  BY <1>1 DEF OrderInv, scanVars, ListedIsFresh
<1>2. ASSUME NEW s \in Services, CreateService(s)
      PROVE  OrderInv'
  <2>1. 1 \in 1..MaxVersion
    OBVIOUS
  <2> QED
    BY <1>2, <2>1, SaveKeepsOrder DEF CreateService
<1>3. ASSUME NEW r \in Requests, UpdateService(r)
      PROVE  OrderInv'
  <2>1. existing[r][1] \in Services /\ existing[r][2] + 1 \in 1..MaxVersion
    BY <1>3 DEF UpdateService, AnyInv, ExistingInv, TypeOK, Documents
  <2> QED
    BY <1>1, <1>3, <2>1, SaveKeepsOrder DEF UpdateService
<1>4. CASE StartScan
  <2>1. \A d \in todo' : d[2] > list'[d[1]]
    BY <1>4 DEF StartScan, Documents, Nothing
  <2>2. \A s \in Services :
          \/ \E d \in todo' : d[1] = s /\ d[2] >= since'[s]
          \/ (list'[s] # 0 => list'[s] >= since'[s]) /\ \A d \in todo' : d[1] # s
    <3> TAKE s \in Services
    <3>1. since'[s] = Len(versions[s]) /\ list'[s] = 0 /\ Len(versions[s]) \in 0..MaxVersion
      BY <1>4 DEF StartScan, Latest, Nothing, AnyInv, TypeOK
    <3>2. CASE Len(versions[s]) = 0
      BY <1>4, <3>1, <3>2 DEF StartScan, Documents
    <3>3. CASE Len(versions[s]) # 0
      <4>1. <<s, Len(versions[s])>> \in todo'
        BY <1>4, <3>1, <3>3 DEF StartScan, Documents
      <4>2. <<s, Len(versions[s])>>[1] = s /\ <<s, Len(versions[s])>>[2] >= since'[s]
        BY <3>1
      <4> QED
        BY <4>1, <4>2
    <3> QED
      BY <3>2, <3>3
  <2> QED
    BY <1>4, <2>1, <2>2 DEF OrderInv, ListedIsFresh, StartScan
<1>5. CASE FinishScan \/ FailScan
  BY <1>5 DEF OrderInv, ListedIsFresh, FinishScan, FailScan
<1>6. CASE UNCHANGED vars
  BY <1>1, <1>6 DEF vars
<1> QED
  BY <1>1, <1>2, <1>3, <1>4, <1>5, <1>6, ReadKeepsOrder DEF Next, FindService

-----------------------------------------------------------------------------
(* The theorems.                                                           *)

LEMMA AnyInvariant == Spec => []AnyInv
<1>1. Init => AnyInv
  BY InvInit
<1>2. AnyInv /\ [Next]_vars => AnyInv'
  BY AnyInvStep
<1> QED
  BY <1>1, <1>2, PTL DEF Spec

LEMMA OrderInvariant == ASSUME InOrder PROVE Spec => [](AnyInv /\ OrderInv)
<1>1. Init => AnyInv /\ OrderInv
  BY InvInit
<1>2. AnyInv /\ OrderInv /\ [Next]_vars => (AnyInv /\ OrderInv)'
  BY AnyInvStep, OrderInvStep
<1> QED
  BY <1>1, <1>2, PTL DEF Spec

\* The type invariant of the services and the scan, in whatever order the versions are
\* read: an update never makes more versions than there may be.
THEOREM TypeCorrect == Spec => []TypeOK
<1>1. AnyInv => TypeOK
  BY DEF AnyInv
<1> QED
  BY <1>1, AnyInvariant, PTL

\* Two of the three parts of TakesLatestVersion need no order: the list shows no
\* version that was hidden, and no service is missing that was visible all the time.
\* All that an order of the versions is needed for is ListedIsFresh.
THEOREM AnyOrderCorrect == Spec => [](ListedIsVisible /\ MissingWasHidden)
<1>1. AnyInv => ListedIsVisible /\ MissingWasHidden
  BY DEF AnyInv, BlobInv, Hidden, ListedIsVisible, MissingWasHidden
<1> QED
  BY <1>1, AnyInvariant, PTL

\* If the versions of a service come in order, the list is as fresh as the beginning
\* of the scan that wrote it: see TakesLatestVersion.
THEOREM TakesLatestVersionCorrect ==
  ASSUME InOrder PROVE Spec => []TakesLatestVersion
<1>1. AnyInv /\ OrderInv => TakesLatestVersion
  BY DEF AnyInv, BlobInv, Hidden, OrderInv, TakesLatestVersion, ListedIsVisible,
     MissingWasHidden
<1> QED
  BY <1>1, OrderInvariant, PTL

\* If the versions of a service come in order, no scan takes the list back to an
\* older version: see NeverGoesBack.
THEOREM NeverGoesBackCorrect ==
  ASSUME InOrder PROVE Spec => NeverGoesBack
<1> DEFINE Forward == \A s \in Services :
                        blob[s] # 0 /\ blob'[s] # 0 => blob'[s] >= blob[s]
<1>1. AnyInv /\ OrderInv /\ [Next]_vars => [Forward]_vars
  <2> SUFFICES ASSUME AnyInv, OrderInv, Next, NEW s \in Services, blob[s] # 0, blob'[s] # 0
               PROVE  blob'[s] >= blob[s]
    OBVIOUS
  <2>1. CASE blob' = blob
    BY <2>1 DEF AnyInv, TypeOK
  <2>2. CASE FinishScan
    <3>1. blob'[s] = list[s] /\ list[s] >= since[s] /\ blob[s] <= since[s]
      BY <2>2 DEF FinishScan, AnyInv, BoundInv, OrderInv
    <3> QED
      BY <3>1 DEF AnyInv, TypeOK
  <2> QED
    BY <2>1, <2>2 DEF Next, CreateService, FindService, UpdateService, StartScan,
       ReadDocument, FailScan, scanVars
<1> QED
  BY <1>1, OrderInvariant, PTL DEF Spec, NeverGoesBack
=============================================================================
