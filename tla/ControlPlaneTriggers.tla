------------------------ MODULE ControlPlaneTriggers ------------------------
(***************************************************************************)
(* The control plane: the trigger table and its fire ledger               *)
(* (tinyassets/control_plane/triggers.py), the owner tick that fires owed  *)
(* triggers (scheduler.py), the cadence policy that says when one is owed  *)
(* (cadence.py), the owner's lease (lease.py) and the wake handler behind  *)
(* it (wake.py).                                                           *)
(*                                                                         *)
(* A transaction of the trigger store is one action.  A tick is many: it   *)
(* lists the triggers, decides on each from that snapshot, checks the      *)
(* lease, settles, claims, calls the handler and finishes, and the owner's *)
(* messages and settings, the clock and another owner come in between.     *)
(***************************************************************************)
EXTENDS Integers, FiniteSets

CONSTANTS
    Keys,           \* triggers: one per kind, command center and agent
    Schedulers,     \* owner processes, each with one ControlPlaneScheduler
    Default,        \* the deploy's cadence policy
    Override,       \* a cadence policy its owner may set for a trigger
    Day,            \* ticks of the clock per day
    SingleOwner,    \* TRUE: SingleProcessLease, one process at a time;
                    \* FALSE: an OwnerLease that is handed over to a successor
    Horizon,        \* bound: the clock stops there
    MaxStarts,      \* bound: process starts (scheduler incarnations)
    MaxEdits,       \* bound: owner messages and settings
    MaxCrashes,     \* bound: crashes
    MaxFailures,    \* bound: failed accesses to the trigger store or the runs
    NoKey,          \* "no trigger"
    NoOne           \* "no process"

\* Seconds are ticks here; a period is at least one of them.
Policy == [engaged : Nat \ {0}, cooling : Nat \ {0}, dormant : Nat \ {0},
           coolAfter : Nat, dormantAfter : Nat, idle : Nat, open : SUBSET (0..Day - 1)]
Policies == {Default, Override}

ASSUME ControlPlaneAssumption ==
    /\ Day \in Nat \ {0}
    /\ \A p \in Policies : p \in Policy /\ p.open # {}
    /\ SingleOwner \in BOOLEAN
    /\ {Horizon, MaxStarts, MaxEdits, MaxCrashes, MaxFailures} \subseteq Nat
    /\ NoKey \notin Keys /\ NoOne \notin Schedulers

Times == 0..Horizon
Never == -1
Settled == {"started", "declined", "failed", "lost"}

VARIABLES
    now,        \* the clock
    triggers,   \* the triggers table: key -> row
    fires,      \* the trigger_fires table: key -> due instant -> row
    runs,       \* the runs a handler started: key -> due instant -> status
    calls,      \* how often the handler was called for a due instant
    lease,      \* the owner lease: its generation and its holder
    pc,         \* where each process is in its tick
    inc,        \* its incarnation
    wired,      \* whether it has a wake handler for the kind registered
    settled,    \* its _settled_generation, 0 for None
    tick,       \* what its tick has read: the listed rows, the clock, the rest
    fire,       \* what it has decided about the trigger at hand
    starts, edits, crashes, failures    \* the counters of the bounds

tables == <<triggers, fires>>
owner == <<lease, pc, inc, wired, settled, tick, fire>>
bounds == <<starts, edits, crashes, failures>>
vars == <<now, triggers, fires, runs, calls, lease, pc, inc, wired, settled, tick, fire,
          starts, edits, crashes, failures>>

\* last_run_id: empty, the unresolved claim of a due instant, or its run.
LastRun == [kind : {"none", "claim", "run"}, due : Times \cup {Never}]
NoLastRun == [kind |-> "none", due |-> Never]
\* A row; created = Never says that it is not enrolled.
Trigger == [created : Times \cup {Never}, enabled : BOOLEAN, policy : Policies,
            engaged : Times \cup {Never}, lastDue : Times \cup {Never},
            lastRun : LastRun, revision : Nat]
NotEnrolled == [created |-> Never, enabled |-> TRUE, policy |-> Default,
                engaged |-> Never, lastDue |-> Never, lastRun |-> NoLastRun,
                revision |-> 1]

NoFire == [outcome |-> "none", generation |-> 0, incarnation |-> 0]
Fire == [outcome : {"none", "claimed"} \cup Settled,
         generation : 0..MaxStarts + 1, incarnation : 0..MaxStarts]

-----------------------------------------------------------------------------
(* The cadence.                                                            *)

InActiveHours(t, p) == t % Day \in p.open
IntoActiveHours(t, p) ==
    CHOOSE u \in t..t + Day : InActiveHours(u, p) /\ \A v \in t..u - 1 : ~InActiveHours(v, p)

Later(s, t) == IF s > t THEN s ELSE t

Period(p, away) ==
    IF away < p.coolAfter THEN p.engaged
    ELSE IF away < p.dormantAfter THEN p.cooling ELSE p.dormant

\* The walk over the active-hours grid to the latest instant not after t.
Collapse(step, p, t) ==
    LET walk[due \in Nat] ==
            LET following == IntoActiveHours(due + step, p)
            IN  IF following > t THEN due ELSE walk[following]
    IN  walk

\* due_instant: the latest owed instant, and not before the idle wait is over.
DueInstant(p, created, engaged, lastDue, t) ==
    LET anchor == IF engaged # Never THEN engaged ELSE created
        step   == Period(p, t - anchor)
        first  == IF lastDue = Never THEN created ELSE lastDue + step
        latest == Collapse(step, p, t)[IntoActiveHours(first, p)]
    IN  IntoActiveHours(Later(latest, anchor + p.idle), p)
DueOf(r, t) == DueInstant(r.policy, r.created, r.engaged, r.lastDue, t)

\* The periods a policy knows, engaged, cooling and dormant.
Periods(p) == {p.engaged, p.cooling, p.dormant}

Eligible(r, due, t) == due <= t /\ InActiveHours(t, r.policy)

-----------------------------------------------------------------------------
(* The trigger store.  A definition with the suffix _Mut is a deliberately *)
(* wrong form of the next one, used to show that a property notices.       *)

Enrolled == {k \in Keys : triggers[k].created # Never}

\* run_is_live: the status the runs store shows, an orphan's is not terminal.
RunIsLive(k, due) == runs[k][due] \in {"live", "orphan"}

Blocked_Mut(k, r) == r.lastRun.kind = "run" /\ RunIsLive(k, r.lastRun.due)
\* Single flight: an unresolved claim or a live run of the last fire.
Blocked(k, r) ==
    r.lastRun.kind = "claim" \/ (r.lastRun.kind = "run" /\ RunIsLive(k, r.lastRun.due))

NoFence_Mut(k, r, due) == triggers[k].enabled
NoRevision_Mut(k, r, due) == triggers[k].enabled /\ fires[k][due].outcome = "none"
\* claim_fire finds the row it was decided on, and no fire of that instant.
FenceHolds(k, r, due) ==
    /\ triggers[k].enabled
    /\ triggers[k].revision = r.revision
    /\ fires[k][due].outcome = "none"

Claims(k, due, g, i) ==
    /\ fires' = [fires EXCEPT ![k][due] =
                    [outcome |-> "claimed", generation |-> g, incarnation |-> i]]
    /\ triggers' = [triggers EXCEPT
                       ![k].lastDue = due,
                       ![k].lastRun = [kind |-> "claim", due |-> due],
                       ![k].revision = @ + 1]

\* What finish_fire leaves in last_run_id.
AfterFire(due, outcome) ==
    IF outcome = "started" THEN [kind |-> "run", due |-> due] ELSE NoLastRun

Finished_Mut(k, due, outcome) ==
    [fires EXCEPT ![k][due].outcome = outcome]
\* finish_fire: only a row that is still claimed takes its outcome.
Finished(k, due, outcome) ==
    [fires EXCEPT ![k][due].outcome = IF @ = "claimed" THEN outcome ELSE @]

Lost_Mut(k, due, g, i) ==
    fires[k][due].outcome = "claimed" /\ fires[k][due].generation < g
\* The claims that settle_lost_claims takes for an earlier owner's.
Lost(k, due, g, i) ==
    /\ fires[k][due].outcome = "claimed"
    /\ fires[k][due].generation < g \/ fires[k][due].incarnation # i

SettleLostClaims(g, i) ==
    /\ fires' = [k \in Keys |-> [due \in Times |->
                    IF Lost(k, due, g, i)
                    THEN [fires[k][due] EXCEPT !.outcome = "lost"] ELSE fires[k][due]]]
    /\ triggers' = [k \in Keys |->
                    IF \E due \in Times : /\ Lost(k, due, g, i)
                                          /\ triggers[k].lastRun = [kind |-> "claim", due |-> due]
                    THEN [triggers[k] EXCEPT !.lastRun = NoLastRun] ELSE triggers[k]]

-----------------------------------------------------------------------------
Idle == [key |-> NoKey, due |-> Never, blocked |-> FALSE, generation |-> 0,
         outcome |-> "none"]
NoTick == [rows |-> [k \in Keys |-> NotEnrolled], moment |-> Never, left |-> {}]

Init ==
    /\ now = 0
    /\ triggers = [k \in Keys |-> NotEnrolled]
    /\ fires = [k \in Keys |-> [due \in Times |-> NoFire]]
    /\ runs = [k \in Keys |-> [due \in Times |-> "none"]]
    /\ calls = [k \in Keys |-> [due \in Times |-> 0]]
    /\ lease = [generation |-> 1, holder |-> NoOne]
    /\ pc = [s \in Schedulers |-> "off"]
    /\ inc = [s \in Schedulers |-> 0]
    /\ wired = [s \in Schedulers |-> FALSE]
    /\ settled = [s \in Schedulers |-> 0]
    /\ tick = [s \in Schedulers |-> NoTick]
    /\ fire = [s \in Schedulers |-> Idle]
    /\ starts = 0 /\ edits = 0 /\ crashes = 0 /\ failures = 0

-----------------------------------------------------------------------------
(* The owner of a command center.                                          *)

\* ensure: idempotent, a row is created once.
Ensure(k) ==
    /\ triggers[k].created = Never
    /\ triggers' = [triggers EXCEPT ![k].created = now]
    /\ UNCHANGED <<now, fires, runs, calls, owner, bounds>>

Edit(k) == k \in Enrolled /\ edits < MaxEdits /\ edits' = edits + 1

SetEnabled(k, b) ==
    /\ Edit(k)
    /\ triggers' = [triggers EXCEPT ![k].enabled = b, ![k].revision = @ + 1]
    /\ UNCHANGED <<now, fires, runs, calls, owner, starts, crashes, failures>>

SetCadenceOverride(k, p) ==
    /\ Edit(k)
    /\ triggers' = [triggers EXCEPT ![k].policy = p, ![k].revision = @ + 1]
    /\ UNCHANGED <<now, fires, runs, calls, owner, starts, crashes, failures>>

\* note_engagement: an older stamp never replaces a newer one.
NoteEngagement(k) ==
    /\ Edit(k)
    /\ triggers[k].engaged < now
    /\ triggers' = [triggers EXCEPT ![k].engaged = now, ![k].revision = @ + 1]
    /\ UNCHANGED <<now, fires, runs, calls, owner, starts, crashes, failures>>

-----------------------------------------------------------------------------
(* The tick of an owner process.                                           *)

Held(s) == lease.holder = s

\* A process starts and takes the lease.  Under SingleProcessLease there is no
\* other process and the generation stays 1; an OwnerLease that is handed over
\* gets a new generation while the old holder may be in the middle of a tick.
Boot(s) ==
    /\ pc[s] = "off" /\ starts < MaxStarts
    /\ SingleOwner => \A t \in Schedulers : pc[t] = "off"
    /\ starts' = starts + 1
    /\ inc' = [inc EXCEPT ![s] = starts + 1]
    /\ settled' = [settled EXCEPT ![s] = 0]
    /\ lease' = [holder |-> s, generation |-> IF SingleOwner THEN 1 ELSE lease.generation + 1]
    /\ pc' = [pc EXCEPT ![s] = "idle"]
    /\ UNCHANGED <<now, tables, runs, calls, wired, tick, fire, edits, crashes, failures>>

\* register_wake_handler.
RegisterHandler(s) ==
    /\ pc[s] # "off" /\ ~wired[s]
    /\ wired' = [wired EXCEPT ![s] = TRUE]
    /\ UNCHANGED <<now, tables, runs, calls, lease, pc, inc, settled, tick, fire, bounds>>

\* tick: the lease is held, and the enabled rows are listed.
ListTriggers(s) ==
    /\ pc[s] = "idle" /\ Held(s)
    /\ LET listed == {k \in Enrolled : triggers[k].enabled}
       IN  /\ listed # {}
           /\ tick' = [tick EXCEPT ![s] = [rows |-> triggers, moment |-> now, left |-> listed]]
    /\ pc' = [pc EXCEPT ![s] = "next"]
    /\ UNCHANGED <<now, tables, runs, calls, lease, inc, wired, settled, fire, bounds>>

\* Done with the trigger at hand: the next one, or the end of the tick.
Goto(s, l) == pc' = [pc EXCEPT ![s] = l] /\ UNCHANGED tick
Leave(s) ==
    /\ fire' = [fire EXCEPT ![s] = Idle]
    /\ IF tick[s].left = {} THEN /\ pc' = [pc EXCEPT ![s] = "idle"]
                                 /\ tick' = [tick EXCEPT ![s] = NoTick]
                            ELSE Goto(s, "next")

\* A row whose kind has no handler is left as it is: nothing is settled, claimed
\* or called for it.
NoHandler(s, k) ==
    /\ pc[s] = "next" /\ k \in tick[s].left /\ ~wired[s]
    /\ LET left == tick[s].left \ {k}
       IN  /\ tick' = [tick EXCEPT ![s] = IF left = {} THEN NoTick ELSE [@ EXCEPT !.left = left]]
           /\ pc' = [pc EXCEPT ![s] = IF left = {} THEN "idle" ELSE "next"]
    /\ UNCHANGED <<now, tables, runs, calls, lease, inc, wired, settled, fire, bounds>>

\* _consider, from the snapshot: when it is due, and whether its last run is
\* still live; a failed read of the runs store counts as live.
Consider(s, k) ==
    /\ pc[s] = "next" /\ k \in tick[s].left /\ wired[s]
    /\ \E unknown \in BOOLEAN :
        /\ unknown => failures < MaxFailures /\ tick[s].rows[k].lastRun.kind = "run"
        /\ failures' = IF unknown THEN failures + 1 ELSE failures
        /\ fire' = [fire EXCEPT ![s] =
                [key |-> k, due |-> DueOf(tick[s].rows[k], tick[s].moment),
                 blocked |-> unknown \/ Blocked(k, tick[s].rows[k]),
                 generation |-> 0, outcome |-> "none"]]
    /\ tick' = [tick EXCEPT ![s].left = @ \ {k}]
    /\ pc' = [pc EXCEPT ![s] = "check"]
    /\ UNCHANGED <<now, tables, runs, calls, lease, inc, wired, settled, starts, edits, crashes>>

\* lease.check, and the generation it is held under; LeaseLost ends the tick.
CheckLease(s) ==
    /\ pc[s] = "check"
    /\ IF Held(s)
       THEN /\ fire' = [fire EXCEPT ![s].generation = lease.generation]
            /\ Goto(s, IF settled[s] = lease.generation THEN "decide" ELSE "settle")
       ELSE /\ fire' = [fire EXCEPT ![s] = Idle]
            /\ pc' = [pc EXCEPT ![s] = "idle"]
            /\ tick' = [tick EXCEPT ![s] = NoTick]
    /\ UNCHANGED <<now, tables, runs, calls, lease, inc, wired, settled, bounds>>

\* settle_lost_claims, once per generation.
Settle(s) ==
    /\ pc[s] = "settle"
    /\ SettleLostClaims(fire[s].generation, inc[s])
    /\ settled' = [settled EXCEPT ![s] = fire[s].generation]
    /\ Goto(s, "decide")
    /\ UNCHANGED <<now, runs, calls, lease, inc, wired, fire, bounds>>

\* A row that is not eligible or waits is left; a snapshot that shows a claim is
\* read again, since the settlement may have cleared it.
Decide(s) ==
    /\ pc[s] = "decide"
    /\ LET k == fire[s].key
           r == tick[s].rows[k]
           waits == IF r.lastRun.kind = "claim" THEN Blocked(k, triggers[k]) ELSE fire[s].blocked
       IN  IF Eligible(r, fire[s].due, tick[s].moment) /\ ~waits
           THEN Goto(s, "claim") /\ UNCHANGED fire
           ELSE Leave(s)
    /\ UNCHANGED <<now, tables, runs, calls, lease, inc, wired, settled, bounds>>

Admitted_Mut(s) == Eligible(tick[s].rows[fire[s].key], fire[s].due, tick[s].moment)
\* The clock is read again once the writer lock is held.
Admitted(s) == Eligible(tick[s].rows[fire[s].key], fire[s].due, now)

\* claim_fire: one transaction, or nothing.
MayClaim(s) == Admitted(s) /\ FenceHolds(fire[s].key, tick[s].rows[fire[s].key], fire[s].due)

Claim(s) ==
    /\ pc[s] = "claim" /\ MayClaim(s)
    /\ Claims(fire[s].key, fire[s].due, fire[s].generation, inc[s])
    /\ Goto(s, "wake")
    /\ UNCHANGED <<now, runs, calls, lease, inc, wired, settled, fire, bounds>>

ClaimRefused(s) ==
    /\ pc[s] = "claim" /\ ~MayClaim(s)
    /\ Leave(s)
    /\ UNCHANGED <<now, tables, runs, calls, lease, inc, wired, settled, bounds>>

\* The wake handler starts a run, declines, or raises.
Wake(s, outcome) ==
    /\ pc[s] = "wake" /\ outcome \in {"started", "declined", "failed"}
    /\ LET k == fire[s].key  due == fire[s].due
       IN  /\ calls' = [calls EXCEPT ![k][due] = IF @ = 2 THEN 2 ELSE @ + 1]
           /\ runs' = IF outcome = "started" THEN [runs EXCEPT ![k][due] = "live"] ELSE runs
    /\ fire' = [fire EXCEPT ![s].outcome = outcome]
    /\ Goto(s, "finish")
    /\ UNCHANGED <<now, tables, lease, inc, wired, settled, bounds>>

\* finish_fire: the fire row, and the trigger if it has not moved on.
FinishFire(s) ==
    /\ pc[s] = "finish"
    /\ LET k == fire[s].key  due == fire[s].due
       IN  /\ fires' = Finished(k, due, fire[s].outcome)
           /\ triggers' = IF triggers[k].lastDue = due
                          THEN [triggers EXCEPT ![k].lastRun = AfterFire(due, fire[s].outcome)]
                          ELSE triggers
    /\ Leave(s)
    /\ UNCHANGED <<now, runs, calls, lease, inc, wired, settled, bounds>>

\* A read of the owner's clock or an access to the trigger store raises: the tick
\* goes on with the next row.
StoreFails(s) ==
    /\ pc[s] \in {"check", "settle", "decide", "claim", "finish"} /\ failures < MaxFailures
    /\ failures' = failures + 1
    /\ Leave(s)
    /\ UNCHANGED <<now, tables, runs, calls, lease, inc, wired, settled, starts, edits, crashes>>

\* The process dies, and with it the runs it was executing.
Crash(s) ==
    /\ pc[s] # "off" /\ crashes < MaxCrashes
    /\ crashes' = crashes + 1
    /\ pc' = [pc EXCEPT ![s] = "off"]
    /\ wired' = [wired EXCEPT ![s] = FALSE]
    /\ tick' = [tick EXCEPT ![s] = NoTick]
    /\ fire' = [fire EXCEPT ![s] = Idle]
    /\ runs' = [k \in Keys |-> [due \in Times |->
                    IF runs[k][due] = "live" /\ fires[k][due].incarnation = inc[s]
                    THEN "orphan" ELSE runs[k][due]]]
    /\ UNCHANGED <<now, tables, calls, lease, inc, settled, starts, edits, failures>>

-----------------------------------------------------------------------------
\* The run ends, or recovery closes the row of a run whose process died.
RunEnds(k, due) ==
    /\ RunIsLive(k, due)
    /\ runs' = [runs EXCEPT ![k][due] = "done"]
    /\ UNCHANGED <<now, tables, calls, owner, bounds>>

Clock ==
    /\ now < Horizon
    /\ now' = now + 1
    /\ UNCHANGED <<tables, runs, calls, owner, bounds>>

-----------------------------------------------------------------------------
OwnerEdit(k) ==
    \/ Ensure(k) \/ (\E b \in BOOLEAN : SetEnabled(k, b)) \/ NoteEngagement(k)
    \/ \E p \in Policies : SetCadenceOverride(k, p)

TickStep(s) ==
    \/ ListTriggers(s) \/ (\E k \in Keys : NoHandler(s, k) \/ Consider(s, k))
    \/ CheckLease(s) \/ Settle(s) \/ Decide(s) \/ Claim(s) \/ ClaimRefused(s)
    \/ (\E outcome \in {"started", "declined", "failed"} : Wake(s, outcome))
    \/ FinishFire(s)

Next ==
    \/ \E k \in Keys : OwnerEdit(k) \/ \E due \in Times : RunEnds(k, due)
    \/ \E s \in Schedulers :
        Boot(s) \/ RegisterHandler(s) \/ TickStep(s) \/ StoreFails(s) \/ Crash(s)
    \/ Clock

Spec == Init /\ [][Next]_vars

\* The consumer polls, a crashed owner is started again, runs end.  Nothing makes a
\* process register a handler.
Fairness ==
    /\ \A s \in Schedulers : WF_vars(TickStep(s))
    /\ WF_vars(\E s \in Schedulers : Boot(s))
    /\ \A k \in Keys : \A due \in Times : WF_vars(RunEnds(k, due))
    /\ WF_vars(Clock)

FairSpec == Spec /\ Fairness

-----------------------------------------------------------------------------
(* Properties.                                                             *)

Pcs == {"off", "idle", "next", "check", "settle", "decide", "claim", "wake", "finish"}

TypeOK ==
    /\ now \in Times
    /\ triggers \in [Keys -> Trigger]
    /\ fires \in [Keys -> [Times -> Fire]]
    /\ runs \in [Keys -> [Times -> {"none", "live", "orphan", "done"}]]
    /\ calls \in [Keys -> [Times -> 0..2]]
    /\ lease \in [generation : 1..MaxStarts + 1, holder : Schedulers \cup {NoOne}]
    /\ pc \in [Schedulers -> Pcs]
    /\ inc \in [Schedulers -> 0..MaxStarts]
    /\ wired \in [Schedulers -> BOOLEAN]
    /\ settled \in [Schedulers -> 0..MaxStarts + 1]
    /\ tick \in [Schedulers -> [rows : [Keys -> Trigger], moment : Times \cup {Never},
                                left : SUBSET Keys]]
    /\ fire \in [Schedulers -> [key : Keys \cup {NoKey}, due : Nat \cup {Never}, blocked : BOOLEAN,
                                generation : 0..MaxStarts + 1,
                                outcome : {"none", "started", "declined", "failed"}]]
    /\ starts \in 0..MaxStarts /\ edits \in 0..MaxEdits
    /\ crashes \in 0..MaxCrashes /\ failures \in 0..MaxFailures

\* The handler is called at most once for a due instant of a trigger: not again
\* after a crash between claim and wake, not by a successor, not by two owners
\* that evaluate it at the same instant.
HandlerOncePerDue == \A k \in Keys : \A due \in Times : calls[k][due] <= 1

\* Single flight: at most one run of a trigger executes, also when its outcome
\* could not be written or its owner was restarted.
SingleFlight ==
    \A k \in Keys : Cardinality({due \in Times : runs[k][due] = "live"}) <= 1

\* A wake is claimed only when its owner lets it run now: enabled, inside the
\* active hours, and after the idle wait since the owner's last message --
\* whatever the tick has read before the claim.
ClaimsOnlyWhenWanted ==
    [][\A k \in Keys : \A due \in Times :
        fires[k][due].outcome = "none" /\ fires'[k][due].outcome = "claimed" =>
            LET r == triggers[k]
            IN  /\ r.enabled /\ InActiveHours(now, r.policy)
                /\ r.engaged # Never => now >= r.engaged + r.policy.idle]_vars

\* One turn per cadence window, started or not: a fire is due at least one period
\* after every earlier one of its trigger.
OneFirePerWindow ==
    [][\A k \in Keys : \A due, before \in Times :
        /\ fires[k][due].outcome = "none" /\ fires'[k][due].outcome = "claimed"
        /\ fires[k][before].outcome # "none"
        => LET p == triggers[k].policy
           IN  \E step \in Periods(p) : due >= before + step]_vars

\* A fire keeps its outcome: one recorded lost is not overwritten by the answer
\* of the handler that comes late, and none is reopened.
OutcomeIsFinal ==
    [][\A k \in Keys : \A due \in Times :
        fires[k][due].outcome \in Settled => fires'[k][due] = fires[k][due]]_vars

Ledger == INSTANCE FireLedger WITH
    Instants <- Times,
    fate <- [k \in Keys |-> [due \in Times |-> fires[k][due].outcome]],
    called <- calls,
    begun <- [k \in Keys |-> [due \in Times |-> IF runs[k][due] = "none" THEN 0 ELSE 1]]

\* The trigger store and the ticks implement the fire ledger: the claim is
\* committed before the handler is called, the call is made once, an outcome is
\* written after the answer it records, "started" only for a run that began, and
\* the outcome that stands, also that of a claim given up as lost while the
\* handler was still at work, is never overwritten.
KeepsFireLedger == Ledger!Spec

\* The owner of the triggers has no handler for them: its ticks skip every row.
Unhandled == \A s \in Schedulers : Held(s) => ~wired[s]

\* A claim whose owner died is settled, unless the trigger is switched off, an
\* access failed, or the process that owns the triggers has no handler.
ClaimsAreSettled ==
    \A k \in Keys : \A due \in Times :
        fires[k][due].outcome = "claimed" ~>
            fires[k][due].outcome # "claimed" \/ ~triggers[k].enabled
                \/ failures > 0 \/ Unhandled

\* A trigger does not stay owed for ever, whatever its owner, its runs and a
\* crashed process did, where a handler is registered, unless an access failed: an
\* unwritten outcome bars it until its process is restarted.
Owed(k) ==
    /\ k \in Enrolled /\ triggers[k].enabled
    /\ Eligible(triggers[k], DueOf(triggers[k], now), now)
OwedFires == \A k \in Keys : Owed(k) ~> ~Owed(k) \/ failures > 0 \/ Unhandled
=============================================================================
