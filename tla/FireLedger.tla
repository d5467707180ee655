----------------------------- MODULE FireLedger -----------------------------
(***************************************************************************)
(* What the fire ledger promises the owner of a command center: a due      *)
(* instant of a trigger is claimed before its handler is called, is        *)
(* handled once at most, and the first fate written for it stays.  Only a  *)
(* handler that has answered gives it a fate other than lost, and a fate   *)
(* "started" has a run behind it; of a lost one nothing is promised, its   *)
(* handler may have been called before, may be called yet, or never.       *)
(***************************************************************************)
EXTENDS Integers

CONSTANTS
    Keys,       \* triggers
    Instants    \* due instants

VARIABLES
    fate,       \* what the ledger says of a due instant
    called,     \* how often its handler was called
    begun       \* how many runs those calls began

Answers == {"started", "declined", "failed"}

Init ==
    /\ fate = [k \in Keys |-> [due \in Instants |-> "none"]]
    /\ called = [k \in Keys |-> [due \in Instants |-> 0]]
    /\ begun = [k \in Keys |-> [due \in Instants |-> 0]]

Claim(k, due) ==
    /\ fate[k][due] = "none" /\ fate'[k][due] = "claimed"
    /\ fate' = [fate EXCEPT ![k][due] = "claimed"]
    /\ UNCHANGED <<called, begun>>

\* An owner that has lost its claim does not know it yet.
Call(k, due) ==
    /\ fate[k][due] \in {"claimed", "lost"}
    /\ called[k][due] = 0
    /\ called' = [called EXCEPT ![k][due] = 1]
    /\ \E n \in 0..1 : begun' = [begun EXCEPT ![k][due] = n]
    /\ UNCHANGED fate

Answer(k, due) ==
    /\ fate[k][due] = "claimed"
    /\ called[k][due] = 1
    /\ \E answer \in Answers :
        /\ answer = "started" => begun[k][due] = 1
        /\ fate' = [fate EXCEPT ![k][due] = answer]
    /\ UNCHANGED <<called, begun>>

\* Any claims are given up at once.
Claimed == {w \in Keys \X Instants : fate[w[1]][w[2]] = "claimed"}
Lose(lost) ==
    /\ fate' = [k \in Keys |-> [due \in Instants |->
                    IF <<k, due>> \in lost THEN "lost" ELSE fate[k][due]]]
    /\ UNCHANGED <<called, begun>>

Next ==
    \/ \E k \in Keys : \E due \in Instants : Claim(k, due) \/ Call(k, due) \/ Answer(k, due)
    \/ \E lost \in (SUBSET Claimed) \ {{}} : Lose(lost)

Spec == Init /\ [][Next]_<<fate, called, begun>>
=============================================================================
