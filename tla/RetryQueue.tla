---------------------------- MODULE RetryQueue ----------------------------
(***************************************************************************)
(* What the queue handlers promise of every message, without pop receipts, *)
(* visibility timeouts, overlapping attempts or crashes: one try at a time,*)
(* a bounded number of tries, and at the end either a settled message or a *)
(* single dead letter.                                                     *)
(***************************************************************************)
EXTENDS Naturals

CONSTANTS Msgs, MaxTries

VARIABLES phase,   \* phase[m]: see Phase
          tries    \* tries[m]: tries started so far

vars == <<phase, tries>>

Phase == {"unsent", "waiting", "working", "settled", "dead"}

Init == /\ phase = [m \in Msgs |-> "unsent"]
        /\ tries = [m \in Msgs |-> 0]

Move(m, from, to) == /\ phase[m] = from
                     /\ phase' = [phase EXCEPT ![m] = to]

Send(m) == Move(m, "unsent", "waiting") /\ UNCHANGED tries

Try(m) == /\ tries[m] < MaxTries
          /\ Move(m, "waiting", "working")
          /\ tries' = [tries EXCEPT ![m] = @ + 1]

\* The try failed, or died: another one may follow.
Fail(m) == Move(m, "working", "waiting") /\ UNCHANGED tries

Settle(m) == Move(m, "working", "settled") /\ UNCHANGED tries

\* The last try failed without settling the message.
Bury(m) == /\ tries[m] = MaxTries
           /\ \/ Move(m, "working", "dead") /\ UNCHANGED tries
              \/ /\ Move(m, "waiting", "dead")
                 /\ tries' = [tries EXCEPT ![m] = @ + 1]

Next == \E m \in Msgs : Send(m) \/ Try(m) \/ Fail(m) \/ Settle(m) \/ Bury(m)

Spec == Init /\ [][Next]_vars
=============================================================================
