---------------------------- MODULE ProfileHistory ----------------------------
(***************************************************************************)
(* What the profiles API promises of one recipient's profile, without      *)
(* queries that miss the latest version, the steps of a request or         *)
(* crashes: a history that only grows, by one version of one request at a  *)
(* time, where the request knew the version before; and events that tell   *)
(* of it.                                                                  *)
(***************************************************************************)
EXTENDS Naturals, Sequences

CONSTANTS Requests,
          Payload,  \* what a request may ask for: inbox, and the version it knows
          Versions  \* the numbers of the versions

VARIABLES
  history,  \* history[v]: version v of the profile
  payload,  \* payload[r]: what request r asks for
  phase,    \* phase[r]: "idle", "open", or the answer of request r
  events    \* events[v]: the event of version v, once it is queued

vars == <<history, payload, phase, events>>

Answers == {"success", "conflict", "queryError"}

NoEvent == [kind |-> "none", version |-> 0, old |-> FALSE, new |-> FALSE]

\* What there is to tell of version v.
EventOf(v) == [kind |-> IF v = 1 THEN "ProfileCreatedEvent" ELSE "ProfileUpdatedEvent",
               version |-> v,
               old |-> IF v = 1 THEN FALSE ELSE history[v - 1].inbox,
               new |-> history[v].inbox]

Init ==
  /\ history = <<>>
  /\ payload = [r \in Requests |-> [inbox |-> FALSE, version |-> 0]]
  /\ phase = [r \in Requests |-> "idle"]
  /\ events = [v \in Versions |-> NoEvent]

Move(r, from, to) == phase[r] = from /\ phase' = [phase EXCEPT ![r] = to]

Ask(r) ==
  /\ Move(r, "idle", "open")
  /\ \E p \in Payload : payload' = [payload EXCEPT ![r] = p]
  /\ UNCHANGED <<history, events>>

\* The request takes effect: it creates the profile, or the next version of the one
\* it knows.  An error may be the answer nevertheless.
Apply(r) ==
  /\ history = <<>> \/ payload[r].version = Len(history)
  /\ history' = Append(history, [inbox |-> payload[r].inbox, by |-> r,
                                 base |-> payload[r].version])
  /\ \E answer \in {"success", "queryError"} : Move(r, "open", answer)
  /\ UNCHANGED <<payload, events>>

\* It does not take effect, and never will.  A conflict is a version it did not know.
Refuse(r) ==
  /\ \/ Move(r, "open", "queryError")
     \/ /\ Move(r, "open", "conflict")
        /\ \E v \in 1..Len(history) : v # payload[r].version
  /\ UNCHANGED <<history, payload, events>>

\* The event of a version goes out after its request was answered with success.
Announce(v) ==
  /\ v \in DOMAIN history
  /\ phase[history[v].by] = "success"
  /\ events' = [events EXCEPT ![v] = EventOf(v)]
  /\ UNCHANGED <<history, payload, phase>>

Next ==
  \/ \E r \in Requests : Ask(r) \/ Apply(r) \/ Refuse(r)
  \/ \E v \in Versions : Announce(v)

Spec == Init /\ [][Next]_vars
===============================================================================
