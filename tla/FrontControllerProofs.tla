----------------------- MODULE FrontControllerProofs -----------------------
(***************************************************************************)
(* Proofs about FrontController for every set of requests.                 *)
(*                                                                         *)
(* The argument: a route with an event takes the context first, hence in   *)
(* the same go as setAppContext, and no route takes it later.  So what a   *)
(* request finds in its context is itself, whatever the app holds by then. *)
(***************************************************************************)
EXTENDS FrontController, TLAPS

Kind == {"request", "context", "ip"} \cup Refusing

Answered == {"none", "ok", "error", "sourceIp"} \cup Refusing

TypeInv ==
  /\ appContext \in [Apps -> Requests \cup {"none"}]
  /\ route \in [Requests -> Routes \cup {NoRoute}]
  /\ passed \in [Requests -> Nat]
  /\ context \in [Requests -> Requests \cup {"none"}]
  /\ queried \subseteq Requests
  /\ written \subseteq Requests
  /\ bindings \in [Requests -> Requests \cup {"none"}]
  /\ response \in [Requests -> Answered]
  /\ flushed \subseteq Requests

\* Nothing was done for a request that has not arrived.
IdleInv ==
  \A i \in Requests :
    route[i] = NoRoute => response[i] = "none" /\ passed[i] = 0 /\ i \notin queried

\* A request that goes on has passed its first middleware, and it did so when it
\* arrived: with the context, the context is its own.
ContextInv ==
  \A i \in Requests :
    /\ UnderWay(i) /\ route[i].chain # <<>> => passed[i] >= 1
    /\ passed[i] >= 1 /\ route[i].work = "bind" => context[i] = i

\* The bindings hold the events of the requests that succeeded.
BindingsInv ==
  \A i \in Requests :
    bindings[i] = IF response[i] = "ok" /\ route[i].work = "bind" THEN i ELSE "none"

\* Once the database was read for a request that goes on, its caller is authorized.
AuthorizedInv ==
  \A i \in Requests :
    /\ UnderWay(i) /\ i \in queried =>
         \A k \in 1..Len(route[i].chain) : k > passed[i] => route[i].chain[k] # "auth"
    /\ response[i] = "auth" => i \notin queried

\* Only a handler writes, and it decides the response.
WrittenInv ==
  \A i \in Requests : i \in written => response[i] \in {"ok", "error"}

Inv == /\ TypeInv
       /\ IdleInv
       /\ ContextInv
       /\ BindingsInv
       /\ AuthorizedInv
       /\ WrittenInv

-----------------------------------------------------------------------------
(* What the routes have in common.                                         *)

RouteFact(r) ==
  /\ r.app \in Apps
  /\ r.chain \in Seq(Kind)
  /\ r.work \in {"none", "read", "write", "bind"}
  /\ r.work = "bind" => r.chain # <<>> /\ r.chain[1] = "context"
  /\ \A k \in 1..Len(r.chain) : r.chain[k] = "context" => k = 1
  /\ \A k, l \in 1..Len(r.chain) :
       r.chain[k] = "attributes" /\ l > k => r.chain[l] # "auth"

LEMMA PublicApiFacts ==
  ASSUME NEW r \in PublicApi
  PROVE  RouteFact(r)
<1> USE DEF RouteFact, Apps, Kind, Refusing
<1>1. RouteFact(GetDebug("public")) /\ RouteFact(GetInfo)
  BY DEF GetDebug, GetInfo
<1>2. RouteFact(GetService("public")) /\ RouteFact(GetServicesByRecipient)
  BY DEF GetService, GetServicesByRecipient
<1>3. RouteFact(GetVisibleServices) /\ RouteFact(GetProfile)
  BY DEF GetVisibleServices, GetProfile
<1>4. RouteFact(UpsertProfile)
  BY DEF UpsertProfile
<1>5. RouteFact(GetMessage) /\ RouteFact(GetMessages)
  BY DEF GetMessage, GetMessages
<1>6. RouteFact(CreateMessage)
  BY DEF CreateMessage
<1> HIDE DEF RouteFact
<1> QED
  BY <1>1, <1>2, <1>3, <1>4, <1>5, <1>6 DEF PublicApi

LEMMA AdminApiFacts ==
  ASSUME NEW r \in AdminApi \cup OpenapiApp
  PROVE  RouteFact(r)
<1> USE DEF RouteFact, Apps, Kind, Refusing
<1>1. RouteFact(GetDebug("admin")) /\ RouteFact(GetService("admin"))
  BY DEF GetDebug, GetService
<1>2. RouteFact(CreateService) /\ RouteFact(UpdateService)
  BY DEF CreateService, UpdateService
<1>3. RouteFact(GetOpenapi)
  BY DEF GetOpenapi
<1> HIDE DEF RouteFact
<1> QED
  BY <1>1, <1>2, <1>3 DEF AdminApi, OpenapiApp

LEMMA RouteFacts ==
  ASSUME NEW r \in Routes
  PROVE  RouteFact(r) /\ r # NoRoute
<1>1. RouteFact(r)
  BY PublicApiFacts, AdminApiFacts DEF Routes
<1>2. r.app # "none"
  BY <1>1 DEF RouteFact, Apps
<1> QED
  BY <1>1, <1>2 DEF NoRoute

-----------------------------------------------------------------------------
(* The invariant holds initially, and every action preserves it.           *)

LEMMA InvInit == Init => Inv
<1> SUFFICES ASSUME Init
             PROVE  Inv
  OBVIOUS
<1> USE DEF Init
<1>1. TypeInv
  BY DEF TypeInv, Answered
<1>2. IdleInv /\ WrittenInv
  BY DEF IdleInv, WrittenInv
<1>3. ContextInv
  <2> SUFFICES ASSUME NEW i \in Requests
               PROVE  ~UnderWay(i) /\ ~(passed[i] >= 1)
    BY DEF ContextInv
  <2>1. route[i] = NoRoute /\ passed[i] = 0
    OBVIOUS
  <2> QED
    BY <2>1 DEF UnderWay
<1>4. BindingsInv
  BY DEF BindingsInv
<1>5. AuthorizedInv
  BY DEF AuthorizedInv, UnderWay
<1> QED
  BY <1>1, <1>2, <1>3, <1>4, <1>5 DEF Inv

\* What a middleware does to the request it runs for, and to no other.
LEMMA MiddlewareEffect ==
  ASSUME TypeInv, NEW i \in Requests, NEW kind \in Kind,
         NEW held \in Requests \cup {"none"}, Middleware(i, kind, held)
  PROVE  /\ context' \in [Requests -> Requests \cup {"none"}]
         /\ passed' \in [Requests -> Nat]
         /\ response' \in [Requests -> Answered]
         /\ queried' \subseteq Requests
         /\ context'[i] = IF kind = "context" THEN held ELSE context[i]
         /\ i \in queried' <=> i \in queried \/ kind = "attributes"
         /\ \/ passed'[i] = passed[i] + 1 /\ response'[i] = response[i]
            \/ passed'[i] = passed[i] /\ response'[i] = kind /\ kind \in Refusing
         /\ \A j \in Requests \ {i} :
              /\ passed'[j] = passed[j] /\ response'[j] = response[j]
              /\ context'[j] = context[j] /\ (j \in queried' <=> j \in queried)
BY DEF TypeInv, Middleware, Answer, Kind, Answered, Refusing

LEMMA InvokeStep ==
  ASSUME Inv, NEW i \in Requests, NEW r \in Routes, Invoke(i, r)
  PROVE  Inv'
<1> USE DEF Inv
<1>1. /\ RouteFact(r)
      /\ r # NoRoute
      /\ response[i] = "none" /\ passed[i] = 0 /\ i \notin queried
  BY RouteFacts DEF Invoke, IdleInv
<1>2. /\ route' \in [Requests -> Routes \cup {NoRoute}]
      /\ appContext' \in [Apps -> Requests \cup {"none"}]
      /\ route'[i] = r
      /\ \A j \in Requests \ {i} : route'[j] = route[j]
      /\ UNCHANGED <<written, bindings, flushed>>
  BY <1>1 DEF Invoke, TypeInv
<1>3. CASE r.chain = <<>>
  <2>1. UNCHANGED <<passed, context, queried, response>> /\ r.work # "bind"
    BY <1>1, <1>3 DEF Invoke, RouteFact
  <2>2. TypeInv'
    BY <1>2, <2>1 DEF TypeInv
  <2>3. IdleInv' /\ WrittenInv'
    BY <1>1, <1>2, <2>1 DEF IdleInv, WrittenInv
  <2>4. ContextInv'
    BY <1>1, <1>2, <1>3, <2>1 DEF ContextInv, UnderWay
  <2>5. BindingsInv'
    BY <1>1, <1>2, <2>1 DEF BindingsInv
  <2>6. AuthorizedInv'
    BY <1>1, <1>2, <2>1 DEF AuthorizedInv, UnderWay
  <2> QED
    BY <2>2, <2>3, <2>4, <2>5, <2>6
<1>4. CASE r.chain # <<>>
  <2> DEFINE kind == r.chain[1]
  <2>1. kind \in Kind /\ Head(r.chain) = kind /\ 1 \in 1..Len(r.chain)
    BY <1>1, <1>4 DEF RouteFact
  <2>2. Middleware(i, kind, i)
    BY <1>4, <2>1 DEF Invoke
  <2> HIDE DEF kind
  <2>3. /\ context' \in [Requests -> Requests \cup {"none"}]
        /\ passed' \in [Requests -> Nat]
        /\ response' \in [Requests -> Answered]
        /\ queried' \subseteq Requests
        /\ context'[i] = IF kind = "context" THEN i ELSE context[i]
        /\ i \in queried' <=> kind = "attributes"
        /\ \/ passed'[i] = 1 /\ response'[i] = "none"
           \/ passed'[i] = 0 /\ response'[i] = kind /\ kind \in Refusing
        /\ \A j \in Requests \ {i} :
             /\ passed'[j] = passed[j] /\ response'[j] = response[j]
             /\ context'[j] = context[j] /\ (j \in queried' <=> j \in queried)
    BY <1>1, <2>1, <2>2, MiddlewareEffect
  <2>4. TypeInv'
    BY <1>2, <2>3 DEF TypeInv
  <2>5. IdleInv' /\ WrittenInv'
    BY <1>1, <1>2, <2>3 DEF IdleInv, WrittenInv
  <2>6. ContextInv'
    BY <1>1, <1>2, <2>3 DEF ContextInv, UnderWay, RouteFact, kind, Refusing
  <2>7. BindingsInv'
    BY <1>1, <1>2, <2>3 DEF BindingsInv, Refusing
  <2>8. AuthorizedInv'
    BY <1>1, <1>2, <2>1, <2>3 DEF AuthorizedInv, UnderWay, RouteFact, kind, Refusing
  <2> QED
    BY <2>4, <2>5, <2>6, <2>7, <2>8
<1> QED
  BY <1>3, <1>4

LEMMA ResumeStep ==
  ASSUME Inv, NEW i \in Requests, Resume(i)
  PROVE  Inv'
<1> USE DEF Inv
<1> DEFINE chain == route[i].chain
           k == passed[i] + 1
           kind == chain[k]
<1>1. /\ RouteFact(route[i]) /\ route[i] # NoRoute /\ response[i] = "none"
      /\ k \in 1..Len(chain) /\ chain # <<>> /\ kind \in Kind
  <2>1. route[i] \in Routes /\ response[i] = "none"
    BY DEF Resume, UnderWay, TypeInv
  <2>2. RouteFact(route[i]) /\ route[i] # NoRoute
    BY <2>1, RouteFacts
  <2>3. passed[i] \in Nat /\ passed[i] < Len(chain) /\ chain \in Seq(Kind)
    BY <2>2 DEF Resume, TypeInv, RouteFact
  <2> QED
    BY <2>1, <2>2, <2>3
<1>2. passed[i] >= 1 /\ k # 1 /\ kind # "context"
  <2>1. passed[i] >= 1
    BY <1>1 DEF ContextInv, UnderWay
  <2>2. k # 1
    BY <2>1 DEF TypeInv
  <2> QED
    BY <1>1, <2>1, <2>2 DEF RouteFact
<1>3. /\ appContext[route[i].app] \in Requests \cup {"none"}
      /\ Middleware(i, kind, appContext[route[i].app])
      /\ UNCHANGED <<appContext, route, written, bindings, flushed>>
  BY <1>1 DEF Resume, TypeInv, RouteFact
<1>4. kind = "attributes" => \A l \in 1..Len(chain) : l > k => chain[l] # "auth"
  BY <1>1 DEF RouteFact
<1> HIDE DEF kind, k, chain
<1>5. /\ context' \in [Requests -> Requests \cup {"none"}]
      /\ passed' \in [Requests -> Nat]
      /\ response' \in [Requests -> Answered]
      /\ queried' \subseteq Requests
      /\ context'[i] = context[i]
      /\ i \in queried' <=> i \in queried \/ kind = "attributes"
      /\ \/ passed'[i] = k /\ response'[i] = "none"
         \/ passed'[i] = passed[i] /\ response'[i] = kind /\ kind \in Refusing
      /\ \A j \in Requests \ {i} :
           /\ passed'[j] = passed[j] /\ response'[j] = response[j]
           /\ context'[j] = context[j] /\ (j \in queried' <=> j \in queried)
  BY <1>1, <1>2, <1>3, MiddlewareEffect DEF k
<1>6. TypeInv'
  BY <1>3, <1>5 DEF TypeInv
<1>7. IdleInv' /\ WrittenInv'
  BY <1>1, <1>3, <1>5 DEF IdleInv, WrittenInv
<1>8. ContextInv'
  <2>1. ASSUME NEW j \in Requests, j # i
        PROVE  /\ UnderWay(j)' /\ route'[j].chain # <<>> => passed'[j] >= 1
               /\ passed'[j] >= 1 /\ route'[j].work = "bind" => context'[j] = j
    BY <1>3, <1>5, <2>1 DEF ContextInv, UnderWay
  <2>2. passed'[i] >= 1
    BY <1>2, <1>5 DEF k, TypeInv
  <2>3. route[i].work = "bind" => context'[i] = i
    BY <1>2, <1>5 DEF ContextInv
  <2> QED
    BY <1>3, <2>1, <2>2, <2>3 DEF ContextInv
<1>9. BindingsInv'
  BY <1>1, <1>3, <1>5 DEF BindingsInv, Refusing
<1>10. AuthorizedInv'
  <2>1. ASSUME NEW j \in Requests, j # i
        PROVE  /\ UnderWay(j)' /\ j \in queried' =>
                    \A l \in 1..Len(route'[j].chain) :
                      l > passed'[j] => route'[j].chain[l] # "auth"
               /\ response'[j] = "auth" => j \notin queried'
    BY <1>3, <1>5, <2>1 DEF AuthorizedInv, UnderWay
  <2>2. ASSUME UnderWay(i)', i \in queried',
               NEW l \in 1..Len(chain), l > passed'[i]
        PROVE  chain[l] # "auth"
    <3>1. passed'[i] = k /\ l > k /\ l > passed[i]
      BY <1>2, <1>5, <2>2 DEF UnderWay, Refusing, k, TypeInv
    <3>2. CASE i \in queried
      BY <1>1, <3>1, <3>2 DEF AuthorizedInv, UnderWay, chain
    <3>3. CASE kind = "attributes"
      BY <1>4, <3>1, <3>3
    <3> QED
      BY <1>5, <2>2, <3>2, <3>3
  <2>3. response'[i] = "auth" => i \notin queried'
    <3> SUFFICES ASSUME response'[i] = "auth"
                 PROVE  i \notin queried'
      OBVIOUS
    <3>1. kind = "auth"
      BY <1>5
    <3>2. i \notin queried
      BY <1>1, <3>1 DEF AuthorizedInv, UnderWay, kind, chain, k, TypeInv
    <3> QED
      BY <1>5, <3>1, <3>2
  <2> QED
    BY <1>3, <2>1, <2>2, <2>3 DEF AuthorizedInv, chain
<1> QED
  BY <1>6, <1>7, <1>8, <1>9, <1>10

LEMMA HandleStep ==
  ASSUME Inv, NEW i \in Requests, Handle(i)
  PROVE  Inv'
<1> USE DEF Inv
<1>1. /\ RouteFact(route[i]) /\ route[i] # NoRoute /\ response[i] = "none"
      /\ passed[i] = Len(route[i].chain)
      /\ UNCHANGED <<appContext, route, passed, context, flushed>>
  <2>1. /\ route[i] \in Routes /\ response[i] = "none"
        /\ passed[i] = Len(route[i].chain)
        /\ UNCHANGED <<appContext, route, passed, context, flushed>>
    BY DEF Handle, UnderWay, TypeInv
  <2> QED
    BY <2>1, RouteFacts
<1>2. route[i].work = "bind" => context[i] = i
  <2> SUFFICES ASSUME route[i].work = "bind"
               PROVE  context[i] = i
    OBVIOUS
  <2>1. route[i].chain # <<>>
    BY <1>1 DEF RouteFact
  <2>2. passed[i] >= 1
    BY <1>1, <2>1 DEF ContextInv, UnderWay
  <2> QED
    BY <2>2 DEF ContextInv
<1>3. /\ queried' \subseteq queried \cup {i}
      /\ written' \subseteq written \cup {i}
      /\ response' = [response EXCEPT ![i] = response'[i]]
      /\ response'[i] \in {"ok", "error", "sourceIp"}
      /\ response'[i] = "sourceIp" => written' = written
      /\ bindings' = IF response'[i] = "ok" /\ route[i].work = "bind"
                     THEN [bindings EXCEPT ![i] = i] ELSE bindings
  <2>1. CASE /\ Answer(i, "sourceIp")
             /\ UNCHANGED <<queried, written, bindings>>
    BY <2>1 DEF Answer, TypeInv
  <2>2. CASE /\ queried' = IF route[i].work = "none" THEN queried ELSE queried \cup {i}
             /\ Answer(i, "ok")
             /\ written' = IF route[i].work \in {"write", "bind"}
                           THEN written \cup {i} ELSE written
             /\ bindings' = IF route[i].work = "bind"
                            THEN [bindings EXCEPT ![context[i]] = i] ELSE bindings
    BY <1>2, <2>2 DEF Answer, TypeInv
  <2>3. CASE /\ queried' = IF route[i].work = "none" THEN queried ELSE queried \cup {i}
             /\ Answer(i, "error")
             /\ written' \in {written, IF route[i].work \in {"write", "bind"}
                                       THEN written \cup {i} ELSE written}
             /\ UNCHANGED bindings
    BY <2>3 DEF Answer, TypeInv
  <2> QED
    BY <2>1, <2>2, <2>3 DEF Handle
<1>4. TypeInv'
  BY <1>1, <1>3 DEF TypeInv, Answered
<1>5. IdleInv' /\ WrittenInv'
  <2>1. IdleInv'
    BY <1>1, <1>3 DEF IdleInv, TypeInv
  <2>2. WrittenInv'
    BY <1>1, <1>3 DEF WrittenInv, TypeInv
  <2> QED
    BY <2>1, <2>2
<1>6. ContextInv'
  <2>1. \A j \in Requests : UnderWay(j)' => UnderWay(j)
    BY <1>1, <1>3 DEF UnderWay, TypeInv
  <2> QED
    BY <1>1, <2>1 DEF ContextInv
<1>7. BindingsInv'
  BY <1>1, <1>3 DEF BindingsInv, TypeInv
<1>8. AuthorizedInv'
  BY <1>1, <1>3 DEF AuthorizedInv, UnderWay, TypeInv
<1> QED
  BY <1>4, <1>5, <1>6, <1>7, <1>8

LEMMA FlushStep ==
  ASSUME Inv, NEW i \in Requests, Flush(i)
  PROVE  Inv'
BY DEF Flush, Inv, TypeInv, IdleInv, ContextInv, BindingsInv, AuthorizedInv, WrittenInv,
   UnderWay

LEMMA InvStep == Inv /\ [Next]_vars => Inv'
<1> SUFFICES ASSUME Inv, [Next]_vars
             PROVE  Inv'
  OBVIOUS
<1>1. ASSUME NEW i \in Requests, NEW r \in Routes, Invoke(i, r)
      PROVE  Inv'
  BY <1>1, InvokeStep
<1>2. ASSUME NEW i \in Requests, Resume(i)
      PROVE  Inv'
  BY <1>2, ResumeStep
<1>3. ASSUME NEW i \in Requests, Handle(i)
      PROVE  Inv'
  BY <1>3, HandleStep
<1>4. ASSUME NEW i \in Requests, Flush(i)
      PROVE  Inv'
  BY <1>4, FlushStep
<1>5. CASE UNCHANGED vars
  BY <1>5 DEF vars, Inv, TypeInv, IdleInv, ContextInv, BindingsInv, AuthorizedInv,
     WrittenInv, UnderWay
<1> QED
  BY <1>1, <1>2, <1>3, <1>4, <1>5 DEF Next

LEMMA InvCorrect == Spec => []Inv
BY InvInit, InvStep, PTL DEF Spec

-----------------------------------------------------------------------------
(* The theorems.                                                           *)

\* Whatever requests run at the same time, and in whatever order they overwrite the
\* context on the shared app (setAppContext), the host enqueues with a request its own
\* event or none.
THEOREM EventIsOwnCorrect == Spec => []EventIsOwn
<1>1. Inv => EventIsOwn
  BY DEF Inv, TypeInv, BindingsInv, EventIsOwn
<1> QED
  BY <1>1, InvCorrect, PTL

\* In whatever order the middlewares of concurrent requests run, an unauthorized
\* caller does not get as far as the database, and a refused one writes nothing.
THEOREM RefusedDoesNothingCorrect == Spec => []RefusedDoesNothing
<1>1. ASSUME Inv
      PROVE  RefusedDoesNothing
  <2>1. \A i \in Requests : response[i] = "auth" => i \notin queried
    BY <1>1 DEF Inv, AuthorizedInv
  <2>2. ASSUME NEW i \in Requests, response[i] \in Refusing \cup {"sourceIp"}
        PROVE  response[i] \notin {"ok", "error"}
    BY <2>2 DEF Refusing
  <2>3. \A i \in Requests :
          response[i] \notin {"ok", "error"} => i \notin written
    BY <1>1 DEF Inv, WrittenInv
  <2>4. ASSUME NEW i \in Requests, NEW j \in Requests, response[i] # "ok"
        PROVE  bindings[j] # i
    BY <1>1, <2>4, RequestsAssumption DEF Inv, BindingsInv
  <2> QED
    BY <2>1, <2>2, <2>3, <2>4 DEF RefusedDoesNothing
<1> QED
  BY <1>1, InvCorrect, PTL
=============================================================================
