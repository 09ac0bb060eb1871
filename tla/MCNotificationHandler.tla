------------------------ MODULE MCNotificationHandler ------------------------
(***************************************************************************)
(* Model checking of the notification handlers: for the webhook, one       *)
(* answer of every kind, with the bounds of the server error range.        *)
(***************************************************************************)
EXTENDS NotificationHandler

MCAnswers == {[timeout |-> TRUE, status |-> 0]}
             \cup [timeout : {FALSE}, status : {0, 200, 404, 499, 500, 599}]
=============================================================================
