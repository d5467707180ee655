----------------------------- MODULE TaskLedger -----------------------------
(***************************************************************************)
(* What a task queue promises its users: a task that was accepted is never *)
(* lost, gets one result, and the first result is the one that stays --    *)
(* whatever is claimed, reclaimed, collected or crashed in between.        *)
(***************************************************************************)
CONSTANT Ids

VARIABLE ledger

Results == {"succeeded", "failed", "cancelled"}

LedgerTypeOK == ledger \in [Ids -> {"absent", "open"} \cup Results]

Init == ledger \in [Ids -> {"absent", "open"}]

Accept(t) ==
    /\ ledger[t] = "absent"
    /\ ledger' = [ledger EXCEPT ![t] = "open"]

Resolve(t, r) ==
    /\ ledger[t] = "open"
    /\ ledger' = [ledger EXCEPT ![t] = r]

Next == \E t \in Ids : Accept(t) \/ \E r \in Results : Resolve(t, r)

Spec == Init /\ [][Next]_ledger
=============================================================================
