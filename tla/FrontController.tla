--------------------------- MODULE FrontController ---------------------------
(***************************************************************************)
(* The HTTP functions (lib/public_api_v1.ts, lib/admin_api.ts,             *)
(* lib/openapi.ts): every invocation hands its request to an Express app   *)
(* that all concurrent requests share.  The route of the request is a      *)
(* chain of middlewares around a handler (the wrappers at the end of each  *)
(* module of lib/controllers).                                             *)
(*                                                                         *)
(* setAppContext, the routing and the first middleware of the chain run in *)
(* one go; each of the others, and the handler, resumes when the promise   *)
(* of the one before it is resolved.                                       *)
(***************************************************************************)
EXTENDS Naturals, Sequences

CONSTANT Requests

ASSUME RequestsAssumption == "none" \notin Requests

-----------------------------------------------------------------------------
(* The routes.  work: what the handler does: it reads, or writes, or       *)
(* writes and puts an event into an output binding, or nothing.            *)

GetDebug(app) ==
  [app |-> app, chain |-> <<"request", "ip", "auth", "attributes">>, work |-> "none"]

GetInfo ==
  [app |-> "public", chain |-> <<"auth", "ip", "attributes">>, work |-> "none"]

GetService(app) ==
  [app |-> app, chain |-> <<"auth", "ip", "attributes", "param">>, work |-> "read"]

GetServicesByRecipient ==
  [app |-> "public", chain |-> <<"auth", "ip", "attributes", "param">>, work |-> "read"]

GetVisibleServices ==
  [app |-> "public", chain |-> <<"auth", "ip", "attributes">>, work |-> "read"]

GetProfile ==
  [app |-> "public", chain |-> <<"auth", "ip", "attributes", "param">>, work |-> "read"]

\* Variant: the context is extracted after the database was asked.
UpsertProfileContextLast ==
  [app |-> "public", work |-> "bind",
   chain |-> <<"auth", "ip", "attributes", "param", "payload", "context">>]

UpsertProfile ==
  [app |-> "public", work |-> "bind",
   chain |-> <<"context", "auth", "ip", "attributes", "param", "payload">>]

GetMessage ==
  [app |-> "public", work |-> "read",
   chain |-> <<"auth", "ip", "attributes", "param", "param">>]

GetMessages ==
  [app |-> "public", chain |-> <<"auth", "ip", "attributes", "param">>, work |-> "read"]

CreateMessage ==
  [app |-> "public", work |-> "bind",
   chain |-> <<"context", "auth", "ip", "attributes", "param", "payload">>]

CreateService ==
  [app |-> "admin", chain |-> <<"auth", "ip", "attributes", "payload">>, work |-> "write"]

\* Variant: the service of the caller is looked up before the caller is authorized.
UpdateServiceAttributesFirst ==
  [app |-> "admin", work |-> "write",
   chain |-> <<"ip", "attributes", "auth", "param", "payload">>]

UpdateService ==
  [app |-> "admin", work |-> "write",
   chain |-> <<"auth", "ip", "attributes", "param", "payload">>]

GetOpenapi == [app |-> "openapi", chain |-> <<>>, work |-> "none"]

PublicApi ==
  {GetDebug("public"), GetService("public"), GetServicesByRecipient, GetVisibleServices,
   GetProfile, UpsertProfile, GetMessage, GetMessages, CreateMessage, GetInfo}

AdminApi == {GetDebug("admin"), GetService("admin"), CreateService, UpdateService}

OpenapiApp == {GetOpenapi}

Routes == PublicApi \cup AdminApi \cup OpenapiApp

NoRoute == [app |-> "none", chain |-> <<>>, work |-> "none"]

-----------------------------------------------------------------------------
VARIABLES
  appContext,  \* appContext[a]: the request whose context app a holds
  route,       \* route[i]: the route of request i, NoRoute before it arrives
  passed,      \* passed[i]: the middlewares that let request i pass
  context,     \* context[i]: the context extracted for request i
  queried,     \* the requests on whose behalf the database was read
  written,     \* the requests on whose behalf something was written
  bindings,    \* bindings[i]: the request whose event is in the output binding
               \* of the context of request i
  response,    \* response[i]: "ok", "error", or the check that refused; "none" before
  flushed      \* the requests whose invocation the host has ended

vars == <<appContext, route, passed, context, queried, written, bindings, response,
          flushed>>

Apps == {"public", "admin", "openapi"}

\* The middlewares that may end a request.
Refusing == {"auth", "attributes", "param", "payload"}

Init ==
  /\ appContext = [a \in Apps |-> "none"]
  /\ route = [i \in Requests |-> NoRoute]
  /\ passed = [i \in Requests |-> 0]
  /\ context = [i \in Requests |-> "none"]
  /\ queried = {} /\ written = {}
  /\ bindings = [i \in Requests |-> "none"]
  /\ response = [i \in Requests |-> "none"]
  /\ flushed = {}

-----------------------------------------------------------------------------
Answer(i, kind) == response' = [response EXCEPT ![i] = kind]

\* A middleware of request i: ContextMiddleware takes the context the app holds;
\* AzureUserAttributesMiddleware looks up the caller's service in the database.
Middleware(i, kind, held) ==
  /\ context' = IF kind = "context" THEN [context EXCEPT ![i] = held] ELSE context
  /\ queried' = IF kind = "attributes" THEN queried \cup {i} ELSE queried
  /\ \/ passed' = [passed EXCEPT ![i] = @ + 1] /\ UNCHANGED response
     \/ kind \in Refusing /\ Answer(i, kind) /\ UNCHANGED passed

\* index: setAppContext, then the app, up to the first promise.
Invoke(i, r) ==
  /\ route[i] = NoRoute
  /\ route' = [route EXCEPT ![i] = r]
  /\ appContext' = [appContext EXCEPT ![r.app] = i]
  /\ IF r.chain = <<>>
     THEN UNCHANGED <<passed, context, queried, response>>
     ELSE Middleware(i, Head(r.chain), i)
  /\ UNCHANGED <<written, bindings, flushed>>

UnderWay(i) == route[i] # NoRoute /\ response[i] = "none"

\* withRequestMiddlewares goes on to the next middleware.
Resume(i) ==
  /\ UnderWay(i)
  /\ passed[i] < Len(route[i].chain)
  /\ Middleware(i, route[i].chain[passed[i] + 1], appContext[route[i].app])
  /\ UNCHANGED <<appContext, route, written, bindings, flushed>>

\* checkSourceIpForHandler; then the handler.  It succeeds, or fails and may have
\* written something all the same.
Handle(i) ==
  /\ UnderWay(i)
  /\ passed[i] = Len(route[i].chain)
  /\ LET work == route[i].work
         Write == IF work \in {"write", "bind"} THEN written \cup {i} ELSE written
     IN  \/ /\ route[i].chain # <<>>
            /\ Answer(i, "sourceIp")
            /\ UNCHANGED <<queried, written, bindings>>
         \/ /\ queried' = IF work = "none" THEN queried ELSE queried \cup {i}
            /\ \/ /\ Answer(i, "ok")
                  /\ written' = Write
                  /\ bindings' = IF work = "bind"
                                 THEN [bindings EXCEPT ![context[i]] = i] ELSE bindings
               \/ /\ work # "none"
                  /\ Answer(i, "error")
                  /\ written' \in {written, Write}
                  /\ UNCHANGED bindings
  /\ UNCHANGED <<appContext, route, passed, context, flushed>>

\* The host ends the invocation: it enqueues the event of its context, if any.
Flush(i) ==
  /\ response[i] # "none"
  /\ i \notin flushed
  /\ flushed' = flushed \cup {i}
  /\ UNCHANGED <<appContext, route, passed, context, queried, written, bindings, response>>

Next ==
  \E i \in Requests :
    \/ \E r \in Routes : Invoke(i, r)
    \/ Resume(i)
    \/ Handle(i)
    \/ Flush(i)

Spec == Init /\ [][Next]_vars

-----------------------------------------------------------------------------
(* Properties.                                                             *)

\* Although the context is passed through the app, which a later request overwrites
\* while an earlier one waits for the database, the host enqueues with a request the
\* event of that request, if it succeeded and has one, and no other.
EventIsOwn ==
  \A i \in flushed :
    bindings[i] = IF response[i] = "ok" /\ route[i].work = "bind" THEN i ELSE "none"

\* A caller who is not in a group of the route causes no access to the database at
\* all, and whoever is refused later (an unknown service, a source address that is
\* not allowed, a bad parameter or payload) writes nothing and causes no event.
RefusedDoesNothing ==
  \A i \in Requests :
    /\ response[i] = "auth" => i \notin queried
    /\ response[i] \in Refusing \cup {"sourceIp"} =>
         i \notin written /\ \A j \in Requests : bindings[j] # i
=============================================================================
