-------------------------- MODULE MCMessagePipeline --------------------------
(***************************************************************************)
(* Model checking of the way of a message to its recipient: one message,   *)
(* handled twice at most, one client that reads it, and a recipient who    *)
(* has the webhook enabled, and not the emails.                            *)
(***************************************************************************)
EXTENDS MessagePipeline

Willing == {[exists |-> TRUE, inbox |-> TRUE, blocked |-> {"EMAIL"},
             email |-> FALSE, webhook |-> TRUE]}

\* PipelineSpec without default addresses, which would make no difference: the
\* recipient has blocked the emails.
NoAddressInit == PipelineInit /\ \A m \in Msgs : ~defaultEmail[m]

NoAddressSpec == NoAddressInit /\ [][PipelineNext]_pipelineVars
=============================================================================
