-------------------------- MODULE MCCreatedMessage --------------------------
(***************************************************************************)
(* Model checking of the handler of the created messages: one message, and *)
(* a recipient who moves between profiles that make the decisions of the   *)
(* handler go both ways.                                                   *)
(***************************************************************************)
EXTENDS CreatedMessageHandler

Profile(blocked, email, webhook) ==
  [exists |-> TRUE, inbox |-> TRUE, blocked |-> blocked,
   email |-> email, webhook |-> webhook]

\* The first refuses the message; the second allows the webhook only; the third
\* allows email only, to the default address if the sender gave one.
Choosing == {Profile({"INBOX"}, TRUE, TRUE),
             Profile({"EMAIL"}, FALSE, TRUE),
             Profile({"WEBHOOK"}, FALSE, FALSE)}
=============================================================================
