------------------------------- MODULE Delivery -------------------------------
(***************************************************************************)
(* What a publishing pipeline promises, whatever carries it out: an item   *)
(* is sent some number of times, its owner is told which of the messages   *)
(* sent is the item's, and an item is shown as published only after that.  *)
(* A receipt always names a message that was sent, and once there is one   *)
(* it is only ever replaced by another.                                    *)
(***************************************************************************)
EXTENDS Naturals

CONSTANT Items

VARIABLES
  sent,      \* messages sent for each item
  receipt,   \* the message its owner knows, 0 for none
  shown      \* items shown as published

vars == <<sent, receipt, shown>>

Init ==
  /\ sent = [i \in Items |-> 0]
  /\ receipt = [i \in Items |-> 0]
  /\ shown = {}

\* A message may be for several items: rows of one version share its page.
Send(I) ==
  /\ sent' = [i \in Items |-> sent[i] + (IF i \in I THEN 1 ELSE 0)]
  /\ UNCHANGED <<receipt, shown>>

\* The owner learns of a message; the item is shown, unless it was to come down.
Confirm(i) ==
  /\ \E n \in 1 .. sent[i] : receipt' = [receipt EXCEPT ![i] = n]
  /\ shown' \in {shown \cup {i}, shown \ {i}}
  /\ UNCHANGED sent

\* Items are hidden, several at a time.
Hide ==
  /\ shown' \subseteq shown
  /\ UNCHANGED <<sent, receipt>>

Next ==
  \/ \E I \in SUBSET Items : Send(I)
  \/ \E i \in Items : Confirm(i)
  \/ Hide

Spec == Init /\ [][Next]_vars
===============================================================================
