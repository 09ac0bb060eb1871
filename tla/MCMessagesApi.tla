---------------------------- MODULE MCMessagesApi ----------------------------
(***************************************************************************)
(* Model checking of the requests of a sender: one message, for a          *)
(* recipient who blocks and unblocks the sender.                           *)
(***************************************************************************)
EXTENDS MessagesApi

Profile(blocked) ==
  [exists |-> TRUE, inbox |-> TRUE, blocked |-> blocked,
   email |-> FALSE, webhook |-> TRUE]

\* Both block the sender's emails; the second blocks its messages too.
Deciding == {Profile({"EMAIL"}), Profile({"EMAIL", "INBOX"})}

\* FairApiSpec where every message comes with a default address. It makes a difference
\* to CheckRequest only: no recipient above takes the sender's emails.
AddressInit == ApiInit /\ \A m \in Msgs : defaultEmail[m]

FairAddressSpec == AddressInit /\ [][ApiNext]_allVars /\ ApiFairness
=============================================================================
