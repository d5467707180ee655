--------------------------- MODULE HandoffEffects ---------------------------
(***************************************************************************)
(* One real-world handoff: the requests that execute it                    *)
(* (tinyassets/handoffs/service.py), the effect boundary that fires it     *)
(* (tinyassets/effectors/outbound_boundary.py), the receipt that journals  *)
(* it (tinyassets/storage/external_write_receipts.py), and its lifecycle   *)
(* row, confirmations and outcome claim (tinyassets/handoffs/store.py).    *)
(*                                                                         *)
(* All of them are keyed by one system-derived effect identity, so one     *)
(* identity is modelled.  The run is part of the identity: every request   *)
(* for it carries the same run_id, and the run_id = ? guards of            *)
(* finalize_receipt are always met.  A transaction is one action; the      *)
(* receipts and the lifecycle are in two databases and share none.         *)
(***************************************************************************)
EXTENDS Integers

CONSTANTS
    Requests,      \* threads in service.execute, one handoff each at a time
    Tokens,        \* confirmation tokens, each drawn at random once
    MaxStarts,     \* bound: executions begun
    MaxDeaths,     \* bound: requests whose thread or process dies
    MaxMisreads,   \* bound: calls that landed and then raised
    NoToken        \* "no token"

ASSUME HandoffAssumption ==
    /\ {MaxStarts, MaxDeaths, MaxMisreads} \subseteq Nat
    /\ NoToken \notin Tokens

VARIABLES
    irreversible, \* the declared effect class, which asks for a confirmation
    token,    \* handoff_confirmation: each token's state
    handoff,  \* handoff.state, "none" before the row exists
    outcome,  \* outcome_evidence of the handoff: its level, or "none"
    receipt,  \* external_write_receipts: the row of the identity
    req,      \* the requests
    starts, deaths,  \* the counters of the bounds
    calls,    \* history: adapter calls begun
    refused,  \* history: calls recorded as refused
    landed,   \* history: effects in the outside world
    misread,  \* history: calls recorded as refused although they had landed
    used      \* history: the tokens that have authorised a call

rows == <<token, handoff, outcome>>
bounds == <<irreversible, starts, deaths>>
history == <<calls, refused, landed, misread, used>>
vars == <<rows, receipt, req, bounds, history>>

Terminal == {"rejected", "orphaned", "cancelled"}
Lifecycle == {"reserved", "submitted", "accepted", "uncertain"} \cup Terminal
Reply == {"none", "submitted", "accepted", "rejected"}
Request == [pc : {"idle", "record", "reserve", "retry", "calling", "hold", "shared",
                  "settle", "advance", "outcome"},
            token : Tokens \cup {NoToken}, arrived : BOOLEAN,
            target : Lifecycle, seen : Lifecycle,
            answer : {"none", "handoff", "in_flight", "error"}]
Quiet == [pc |-> "idle", token |-> NoToken, arrived |-> FALSE, target |-> "reserved",
          seen |-> "reserved", answer |-> "none"]

TypeOK ==
    /\ irreversible \in BOOLEAN
    /\ token \in [Tokens -> {"none", "fresh", "spent", "expired"}]
    /\ handoff \in {"none"} \cup Lifecycle
    /\ outcome \in {"none", "user_attested", "externally_verified"}
    /\ receipt \in [status : {"none", "pending", "succeeded", "failed", "held"},
                    stale : BOOLEAN, reply : Reply]
    /\ req \in [Requests -> Request]
    /\ receipt.status # "none" => handoff # "none"
    /\ \A r \in Requests : req[r].pc \notin {"idle", "record"} => handoff # "none"
    /\ {starts, deaths, calls, refused, landed, misread} \subseteq Nat
    /\ used \subseteq Tokens

Init ==
    /\ irreversible \in BOOLEAN
    /\ token = [t \in Tokens |-> "none"]
    /\ handoff = "none" /\ outcome = "none"
    /\ receipt = [status |-> "none", stale |-> FALSE, reply |-> "none"]
    /\ req = [r \in Requests |-> Quiet]
    /\ starts = 0 /\ deaths = 0
    /\ calls = 0 /\ refused = 0 /\ landed = 0 /\ misread = 0 /\ used = {}

-----------------------------------------------------------------------------
(* What the transactions share.  A definition named like another with a     *)
(* suffix _Mut is a deliberately wrong form of it, used only to show that a *)
(* property can tell the difference.                                        *)

\* The closed transition graph; "verified" has no writer yet.
Legal(s) ==
    CASE s = "reserved" -> {"submitted", "accepted", "rejected", "uncertain", "cancelled"}
      [] s = "submitted" -> {"accepted", "rejected", "uncertain", "orphaned"}
      [] s = "accepted" -> {"orphaned", "uncertain"}
      [] s = "uncertain" -> {"submitted", "accepted", "rejected", "orphaned"}
      [] OTHER -> {}

\* The lifecycle state a succeeded receipt stands for.
Proven_Mut(reply) == "accepted"
Proven(reply) == IF reply = "accepted" THEN "accepted" ELSE "submitted"

Open_Mut(row) == row.status = "none" \/ row.stale
\* The insert succeeds only where there is no row: time alone opens nothing.
Open(row) == row.status = "none"

Reopenable_Mut(status) == status # "succeeded"
\* UPDATE ... WHERE status = 'failed'.
Reopenable(status) == status = "failed"

Holdable_Mut(status) == status # "none"
\* Only a pending intent is put on hold.
Holdable(status) == status = "pending"

\* One lifecycle row per effect identity.
Opened == IF handoff = "none" THEN "reserved" ELSE handoff

Spent_Mut(t) == token
\* UPDATE ... WHERE consumed_at IS NULL: a confirmation is spent once.
Spent(t) == [token EXCEPT ![t] = "spent"]

Swaps_Mut(r) == TRUE
\* UPDATE ... WHERE state = expected_state.
Swaps(r) == handoff = req[r].seen

Claimed_Mut(level) == level
\* A handoff has one outcome claim; a second one is answered with the first.
Claimed(level) == IF outcome = "none" THEN level ELSE outcome

Go(r, pc) == req' = [req EXCEPT ![r].pc = pc]
Ends(r, answer) == req' = [req EXCEPT ![r] = [Quiet EXCEPT !.answer = answer]]
\* execute_replay_safe_effect has returned: _settle is next.
Settles(r, target) == req' = [req EXCEPT ![r].pc = "settle", ![r].target = target]
Pending == [status |-> "pending", stale |-> FALSE, reply |-> "none"]

-----------------------------------------------------------------------------
(* The owner.                                                               *)

\* prepare: mint a confirmation for the irreversible effect.
Prepare(t) ==
    /\ irreversible /\ token[t] = "none"
    /\ token' = [token EXCEPT ![t] = "fresh"]
    /\ UNCHANGED <<handoff, outcome, receipt, req, bounds, history>>

\* expires_at passes.
Expire(t) ==
    /\ token[t] = "fresh"
    /\ token' = [token EXCEPT ![t] = "expired"]
    /\ UNCHANGED <<handoff, outcome, receipt, req, bounds, history>>

\* record_evidence: cancel or downgrade.  A swap that loses writes nothing.
Downgrade(to) ==
    /\ handoff # "none" /\ to \in Legal(handoff)
    /\ handoff' = to
    /\ UNCHANGED <<token, outcome, receipt, req, bounds, history>>

\* attest_outcome with a handoff_id.
Attest ==
    /\ handoff # "none"
    /\ outcome' = Claimed("user_attested")
    /\ UNCHANGED <<token, handoff, receipt, req, bounds, history>>

-----------------------------------------------------------------------------
(* A request.                                                               *)

\* execute: authority and adapter are in order; spend the confirmation.
Start(r) ==
    /\ req[r].pc = "idle" /\ starts < MaxStarts
    /\ starts' = starts + 1
    /\ IF irreversible
       THEN \E t \in Tokens :
                /\ token[t] = "fresh"
                /\ token' = Spent(t)
                /\ req' = [req EXCEPT ![r] = [Quiet EXCEPT !.pc = "record", !.token = t]]
       ELSE /\ req' = [req EXCEPT ![r] = [Quiet EXCEPT !.pc = "record"]]
            /\ UNCHANGED token
    /\ UNCHANGED <<irreversible, handoff, outcome, receipt, deaths, history>>

\* find_by_effect, or create_handoff; the loser of the insert reads the winner's row.
Record(r) ==
    /\ req[r].pc = "record"
    /\ handoff' = Opened
    /\ Go(r, "reserve")
    /\ UNCHANGED <<token, outcome, receipt, bounds, history>>

\* The reservation is ours: the adapter is called.
Calls(r) ==
    /\ receipt' = Pending
    /\ req' = [req EXCEPT ![r].pc = "calling", ![r].arrived = FALSE]
    /\ calls' = calls + 1
    /\ used' = used \cup ({req[r].token} \cap Tokens)
    /\ UNCHANGED <<rows, bounds, refused, landed, misread>>

\* try_reserve_receipt: insert, or read what is there.
Reserve(r) ==
    /\ req[r].pc = "reserve"
    /\ \/ Open(receipt) /\ Calls(r)
       \/ /\ ~Open(receipt)
          /\ \/ receipt.status = "succeeded" /\ Settles(r, Proven(receipt.reply))
             \/ receipt.status = "held" /\ Settles(r, "uncertain")
             \/ receipt.status = "failed" /\ Go(r, "retry")
             \/ receipt.status = "pending" /\ Go(r, IF receipt.stale THEN "hold" ELSE "shared")
          /\ UNCHANGED <<rows, receipt, bounds, history>>

\* The row was read as failed: take the reservation over, or classify anew.
Retry(r) ==
    /\ req[r].pc = "retry"
    /\ \/ Reopenable(receipt.status) /\ Calls(r)
       \/ /\ ~Reopenable(receipt.status)
          /\ IF receipt.status = "succeeded" THEN Settles(r, Proven(receipt.reply))
             ELSE Go(r, "shared")
          /\ UNCHANGED <<rows, receipt, bounds, history>>

\* The call reaches the destination.
Arrive(r) ==
    /\ req[r].pc = "calling" /\ ~req[r].arrived
    /\ req' = [req EXCEPT ![r].arrived = TRUE]
    /\ landed' = landed + 1
    /\ UNCHANGED <<rows, receipt, bounds, calls, refused, misread, used>>

\* The adapter returns a result: finalize_receipt(succeeded), whatever the result
\* claims.  The update looks at the run, not at the status.
Return(r, reply) ==
    /\ req[r].pc = "calling" /\ req[r].arrived = (reply # "rejected")
    /\ receipt' = [status |-> "succeeded", stale |-> FALSE, reply |-> reply]
    /\ Settles(r, Proven(reply))
    /\ UNCHANGED <<rows, bounds, history>>

\* invoke() raises anything but AmbiguousEffectOutcome: finalize_receipt(failed,
\* destination_rejected).  The adapter refuses, or what runs after the destination
\* has taken the call raises, HandoffResult's own validation among it.
Refuse(r) ==
    /\ req[r].pc = "calling"
    /\ req[r].arrived => misread < MaxMisreads
    /\ receipt' = [status |-> "failed", stale |-> FALSE, reply |-> "none"]
    /\ refused' = refused + 1
    /\ misread' = IF req[r].arrived THEN misread + 1 ELSE misread
    /\ Settles(r, "rejected")
    /\ UNCHANGED <<rows, bounds, calls, landed, used>>

\* AmbiguousEffectOutcome.
TimeOut(r) ==
    /\ req[r].pc = "calling"
    /\ Go(r, "hold")
    /\ UNCHANGED <<rows, receipt, bounds, history>>

\* _reconcile_effect without a reconciler: finalize_reconciliation(held), and if
\* that matched no row a look at the status.
Hold(r) ==
    /\ req[r].pc = "hold"
    /\ IF Holdable(receipt.status)
       THEN /\ receipt' = [status |-> "held", stale |-> FALSE, reply |-> "none"]
            /\ Settles(r, "uncertain")
       ELSE /\ IF receipt.status = "held" THEN Settles(r, "uncertain") ELSE Go(r, "shared")
            /\ UNCHANGED receipt
    /\ UNCHANGED <<rows, bounds, history>>

\* except RuntimeError, _shared_pending: answer in_flight, or raise again.
Share(r) ==
    /\ req[r].pc = "shared"
    /\ Ends(r, IF receipt.status = "pending" THEN "in_flight" ELSE "error")
    /\ UNCHANGED <<rows, receipt, bounds, history>>

AfterAdvance(r) ==
    IF req[r].target = "accepted" THEN Go(r, "outcome") ELSE Ends(r, "handoff")

\* _settle reads the row.
Settle(r) ==
    /\ req[r].pc = "settle"
    /\ IF handoff = req[r].target THEN AfterAdvance(r)
       ELSE req' = [req EXCEPT ![r].pc = "advance", ![r].seen = handoff]
    /\ UNCHANGED <<rows, receipt, bounds, history>>

\* advance_handoff: an illegal transition is raised to the caller, a lost swap is not.
Advance(r) ==
    /\ req[r].pc = "advance"
    /\ IF req[r].target \notin Legal(req[r].seen)
       THEN Ends(r, "error") /\ UNCHANGED handoff
       ELSE /\ handoff' = IF Swaps(r) THEN req[r].target ELSE handoff
            /\ AfterAdvance(r)
    /\ UNCHANGED <<token, outcome, receipt, bounds, history>>

\* record_outcome_evidence(externally_verified).
Claim(r) ==
    /\ req[r].pc = "outcome"
    /\ outcome' = Claimed("externally_verified")
    /\ Ends(r, "handoff")
    /\ UNCHANGED <<token, handoff, receipt, bounds, history>>

-----------------------------------------------------------------------------
(* The environment.                                                         *)

\* The pending row passes STALE_PENDING_THRESHOLD_SECONDS, its call still out or lost.
Age ==
    /\ receipt.status = "pending" /\ ~receipt.stale
    /\ receipt' = [receipt EXCEPT !.stale = TRUE]
    /\ UNCHANGED <<rows, req, bounds, history>>

\* The process stops, or a database stays locked past its time-out.
Die(r) ==
    /\ req[r].pc # "idle" /\ deaths < MaxDeaths
    /\ deaths' = deaths + 1
    /\ req' = [req EXCEPT ![r] = Quiet]
    /\ UNCHANGED <<rows, receipt, irreversible, starts, history>>

Owner ==
    \/ \E t \in Tokens : Prepare(t) \/ Expire(t)
    \/ \E to \in Terminal : Downgrade(to)
    \/ Attest

Step(r) ==
    \/ Start(r) \/ Record(r) \/ Reserve(r) \/ Retry(r) \/ Arrive(r)
    \/ \E reply \in Reply \ {"none"} : Return(r, reply)
    \/ Refuse(r) \/ TimeOut(r) \/ Hold(r) \/ Share(r)
    \/ Settle(r) \/ Advance(r) \/ Claim(r) \/ Die(r)

Next == Owner \/ Age \/ \E r \in Requests : Step(r)

Spec == Init /\ [][Next]_vars

-----------------------------------------------------------------------------
(* What the handoff must keep.                                              *)

\* However requests race, stall, time out, die and are repeated, the effect reaches
\* the outside world once, and once more for each call that raised after it had
\* landed and so was recorded as refused: nothing else makes it land again.
EffectOnce == landed <= 1 + misread

\* The adapter is called again only when every call before was recorded as refused:
\* neither a time-out nor a call nobody has heard of since reopens the receipt.
CalledAgainOnlyAfterRefusal == [][calls' # calls => refused = calls]_vars

\* A receipt that succeeded is the last word: no late hold and no late refusal of
\* another request overwrites it.
SuccessIsFinal == [][receipt.status = "succeeded" => receipt' = receipt]_vars

Ledger == INSTANCE EffectLedger WITH
    effect <- CASE receipt.status = "none" -> "none"
                [] receipt.status \in {"pending", "held"} -> "called"
                [] receipt.status = "failed" -> "refused"
                [] receipt.status = "succeeded" -> receipt.reply,
    shown <- handoff

\* The receipt, the adapter calls, the lifecycle row and the outcome claim, in two
\* databases and written by requests that race, implement the effect ledger: a call
\* is begun only on the record and after refusals, lands again only where a landing
\* was taken for a refusal, a result is not overwritten by a late hold or refusal,
\* and the owner is shown no more than the receipt knows.
KeepsEffectLedger == Ledger!Spec

\* The lifecycle row, in another database, claims no more than the receipt
\* proves: submitted and accepted need a succeeded receipt, accepted the
\* destination's word on a call that landed, and so does a verified outcome.
ClaimsAreBacked ==
    /\ handoff \in {"submitted", "accepted"} => receipt.status = "succeeded"
    /\ handoff = "accepted" \/ outcome = "externally_verified" =>
           receipt.reply = "accepted" /\ landed > misread

\* What the owner ended stays ended: a settle that read the row before does not
\* bring it back.
TerminalStays == [][(handoff \in Terminal) => handoff' = handoff]_vars

\* An outcome claim is never replaced, whoever else settles or attests.
OutcomeStays == [][outcome # "none" => outcome' = outcome]_vars

\* An irreversible effect is called only on a confirmation that has authorised no
\* call before.
ConfirmedAnew ==
    [][calls' # calls /\ irreversible =>
           \E t \in Tokens : token[t] = "spent" /\ t \notin used /\ used' = used \cup {t}]_vars
=============================================================================
