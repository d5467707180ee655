---------------------------- MODULE EffectLedger ----------------------------
(***************************************************************************)
(* What a handoff promises its owner about one effect in the outside       *)
(* world.  It is called only on the record, and again only when every call *)
(* before was taken for refused; a call lands once at most, and another    *)
(* lands only when the landings before it were taken for refusals; what is *)
(* known of it stays known; and what the owner is shown of it, a state and *)
(* an outcome, says no more than is known and never comes back from an     *)
(* end.                                                                    *)
(***************************************************************************)
EXTENDS Naturals

VARIABLES
    effect,     \* what is known: "none", "called", "refused", or the reply
    calls,      \* calls begun
    landed,     \* effects in the outside world
    misread,    \* those of them that were taken for refusals
    shown,      \* the state of the handoff
    outcome     \* its outcome claim

Replies == {"submitted", "accepted", "rejected"}
Ended == {"rejected", "orphaned", "cancelled"}

Init ==
    /\ effect = "none" /\ calls = 0 /\ landed = 0 /\ misread = 0
    /\ shown = "none" /\ outcome = "none"

Begin ==
    /\ effect \in {"none", "refused"} /\ shown # "none"
    /\ effect' = "called" /\ calls' = calls + 1
    /\ UNCHANGED <<landed, misread, shown, outcome>>

\* The call that is out lands, once: all that landed before was misread.
Land ==
    /\ effect = "called" /\ landed = misread
    /\ landed' = landed + 1
    /\ UNCHANGED <<effect, calls, misread, shown, outcome>>

\* The call that is out counts as refused, also when it has landed.
Refuse ==
    /\ effect = "called"
    /\ effect' = "refused" /\ misread' = landed
    /\ UNCHANGED <<calls, landed, shown, outcome>>

\* The reply of the call that is out; only a rejection comes without the effect.
Learn(reply) ==
    /\ effect = "called"
    /\ landed = misread <=> reply = "rejected"
    /\ effect' = reply
    /\ UNCHANGED <<calls, landed, misread, shown, outcome>>

\* A state is shown: that it was submitted or accepted only when that is known.
Show(state) ==
    /\ shown \notin Ended
    /\ shown = "none" <=> state = "reserved"
    /\ state = "submitted" => effect \in {"submitted", "rejected"}
    /\ state = "accepted" => effect = "accepted"
    /\ shown' = state
    /\ UNCHANGED <<effect, calls, landed, misread, outcome>>

Claim(level) ==
    /\ outcome = "none"
    /\ level = "externally_verified" => effect = "accepted"
    /\ outcome' = level
    /\ UNCHANGED <<effect, calls, landed, misread, shown>>

Next ==
    \/ Begin \/ Land \/ Refuse
    \/ \E reply \in Replies : Learn(reply)
    \/ \E state \in {"reserved", "submitted", "accepted", "uncertain"} \cup Ended : Show(state)
    \/ \E level \in {"user_attested", "externally_verified"} : Claim(level)

Spec == Init /\ [][Next]_<<effect, calls, landed, misread, shown, outcome>>
=============================================================================
