-------------------------- MODULE DeliveryReceipt ---------------------------
(***************************************************************************)
(* What an accepted delivery promises the two parties who read its         *)
(* receipt: the receiver's graph begins at most once and only while the    *)
(* receipt says running, work that never began is not called completed,    *)
(* and the first result is the one that stays.                             *)
(***************************************************************************)
EXTENDS Naturals

VARIABLES
    receipt,  \* the status of the receipt, "none" before acceptance
    starts    \* executions of the receiver's graph begun

Results == {"completed", "failed", "cancelled", "interrupted"}

Init == receipt = "none" /\ starts = 0

Accept == receipt = "none" /\ receipt' = "accepted" /\ UNCHANGED starts

Execute == receipt = "accepted" /\ receipt' = "running" /\ UNCHANGED starts

Begin == receipt = "running" /\ starts = 0 /\ starts' = 1 /\ UNCHANGED receipt

\* A delivery that was not taken up can only fail.
Refuse == receipt = "accepted" /\ receipt' = "failed" /\ UNCHANGED starts

Settle ==
    /\ receipt = "running"
    /\ receipt' \in Results
    /\ receipt' = "completed" => starts = 1
    /\ UNCHANGED starts

Next == Accept \/ Execute \/ Begin \/ Refuse \/ Settle

Spec == Init /\ [][Next]_<<receipt, starts>>
=============================================================================
