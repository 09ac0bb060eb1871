---------------------------- MODULE Notification ----------------------------
(***************************************************************************)
(* What the notification handlers promise of every notification on one     *)
(* channel, on top of what its queue promises (RetryQueue): who reaches    *)
(* the recipient when, and which statuses may be recorded when.  How often *)
(* a delivery is tried, and what can go wrong with it, is left open.       *)
(***************************************************************************)
EXTENDS RetryQueue

VARIABLES reached,  \* reached[m]: the recipient got notification m
          silent,   \* silent[m]: EXPIRED was recorded for m
          status    \* status[m]: the last status recorded, "none" before the first

notificationVars == <<vars, reached, silent, status>>

FinalStatus == {"SENT", "EXPIRED", "FAILED"}
Status == FinalStatus \cup {"THROTTLED"}

NotificationInit ==
  /\ Init
  /\ reached = [m \in Msgs |-> FALSE]
  /\ silent = [m \in Msgs |-> FALSE]
  /\ status = [m \in Msgs |-> "none"]

\* Only a try that is going on delivers, and none does after EXPIRED.
Deliver(m) == /\ phase[m] = "working"
              /\ ~silent[m]
              /\ reached' = [reached EXCEPT ![m] = TRUE]
              /\ UNCHANGED <<vars, silent, status>>

\* A try that is going on records how it ended: SENT only for what was delivered.
Conclude(m) == /\ phase[m] = "working"
               /\ \E value \in FinalStatus :
                    /\ value = "SENT" => reached[m]
                    /\ status' = [status EXCEPT ![m] = value]
                    /\ silent' = [silent EXCEPT ![m] = @ \/ value = "EXPIRED"]
               /\ UNCHANGED <<vars, reached>>

\* A failed try says so, and may be late: another one may be going on, or even
\* have ended.
Throttle(m) == /\ tries[m] > 0
               /\ status' = [status EXCEPT ![m] = "THROTTLED"]
               /\ UNCHANGED <<vars, reached, silent>>

Work(m) == Deliver(m) \/ Conclude(m) \/ Throttle(m)

NotificationNext ==
  \/ Next /\ UNCHANGED <<reached, silent, status>>
  \/ \E m \in Msgs : Work(m)

NotificationSpec == NotificationInit /\ [][NotificationNext]_notificationVars
=============================================================================
