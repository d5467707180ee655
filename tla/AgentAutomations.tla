------------------------- MODULE AgentAutomations --------------------------
(***************************************************************************)
(* The automations of one agent, that is one branch in one universe: the   *)
(* store of rows, attempts and leases (tinyassets/automations.py) and the  *)
(* consumers that poll it and run what is due                              *)
(* (tinyassets/runtime/assigned_queue_consumer.py).                        *)
(*                                                                         *)
(* A consumer is one boot of a server process: its coordinator thread      *)
(* polls, judges each due row and submits at most one; an executor thread  *)
(* takes the agent's lease, claims the attempt, starts the run and waits   *)
(* for it.  A deploy may have two alive at once.  A transaction is one     *)
(* action; what a thread does in between on its own state is fused with    *)
(* the transaction before it.                                              *)
(*                                                                         *)
(* Every consumer has taken its liveness lock, so another process sees it  *)
(* as alive until it dies or lets go of the lock, and as dead from then    *)
(* on (tinyassets/process_liveness.py).                                    *)
(*                                                                         *)
(* A definition named like another with a suffix _Mut is a deliberately    *)
(* wrong form of it, used only to show that a property can tell the        *)
(* difference.                                                             *)
(***************************************************************************)
EXTENDS Naturals, Sequences, FiniteSets

CONSTANTS
    Consumers,    \* boots of a server process
    Wakes,        \* one-shot rows (trigger "once")
    Cadences,     \* interval rows
    Overlap,      \* each row's policy: "queue", "skip" or "cancel"
    NotBefore,    \* when each wake is due
    Period,       \* interval_seconds
    Retry,        \* ONCE_RETRY_SECONDS
    MaxAttempts,  \* MAX_ONCE_ATTEMPTS
    Horizon,      \* bound: the last instant of the clock
    MaxUpsets,    \* bound: processes that die or are stopped, refusals, late
                  \* refreshes, timeouts, runs that must wait for the workspace,
                  \* owner's edits
    None          \* "no lease", "no row"

Rows == Wakes \cup Cadences
Instants == 0..Horizon
Lease == [holder : Consumers, fresh : BOOLEAN, run : Nat]

ASSUME AutomationAssumption ==
    /\ Wakes \cap Cadences = {}
    /\ Overlap \in [Rows -> {"queue", "skip", "cancel"}]
    /\ NotBefore \in [Wakes -> Instants]
    /\ {Period, Retry, MaxAttempts} \subseteq Nat \ {0}
    /\ {Horizon, MaxUpsets} \subseteq Nat
    /\ None \notin Lease

VARIABLES
    now,        \* the clock
    state,      \* each row's desired state, or "retired"
    last,       \* each interval row's last_due_at
    fence,      \* automation_attempts: the instants claimed of each row
    claimed,    \* when each wake's latest attempt was claimed
    lease,      \* universe_leases: the agent's lease, or None
    runs,       \* the runs the automations started, in order; ids are indices
    proc,       \* each consumer's process
    poll,       \* its coordinator: where it is in a poll, what it has read
    task,       \* its executor thread for the agent
    unstopped,  \* _unstopped: the run that outlived its timeout and grace, or 0
    upsets      \* the counter of MaxUpsets

rows == <<state, last>>
attempts == <<fence, claimed>>
store == <<rows, attempts, lease>>
threads == <<poll, task, unstopped>>
vars == <<now, store, runs, proc, threads, upsets>>

Items == [row : Rows, due : Nat, count : Nat]

\* The steps of an executor thread that holds the lease it acquired.
Held == {"held", "stale", "gate", "announce", "wait", "grace", "refused",
          "hopeless", "spend", "release"}

\* A run is launched by a consumer and worked on by the pool of its process; one
\* that waited for the workspace, by that of whoever nominated it.
Run == {r \in [row : Rows, due : Nat, by : Consumers, on : Consumers, told : BOOLEAN,
               waited : BOOLEAN, st : {"waiting", "live", "asked", "ended"}]
            : ~r.waited => r.on = r.by /\ r.st # "waiting"}
Pass == [pc : {"idle", "overlap", "skipped"}, item : Items \cup {None},
         todo : SUBSET Items]
Task == [pc : {"free", "acquire"} \cup Held, item : Items \cup {None},
         run : Nat, keep : BOOLEAN]

NoTask == [pc |-> "free", item |-> None, run |-> 0, keep |-> FALSE]
NoPoll == [pc |-> "idle", item |-> None, todo |-> {}]

TypeOK ==
    /\ now \in Instants
    /\ state \in [Rows -> {"active", "paused", "retired"}]
    /\ last \in [Cadences -> Nat]
    /\ fence \in [Rows -> SUBSET Nat]
    /\ claimed \in [Wakes -> Instants]
    /\ lease \in Lease \cup {None}
    /\ runs \in Seq(Run)
    /\ proc \in [Consumers -> {"off", "up", "stopping", "lingering", "gone"}]
    /\ poll \in [Consumers -> Pass]
    /\ task \in [Consumers -> Task]
    /\ unstopped \in [Consumers -> Nat]
    /\ upsets \in 0..MaxUpsets

Init ==
    /\ now = 0
    /\ state = [r \in Rows |-> "active"]
    /\ last = [r \in Cadences |-> 0]
    /\ fence = [r \in Rows |-> {}]
    /\ claimed = [w \in Wakes |-> 0]
    /\ lease = None
    /\ runs = <<>>
    /\ proc = [c \in Consumers |-> "off"]
    /\ poll = [c \in Consumers |-> NoPoll]
    /\ task = [c \in Consumers |-> NoTask]
    /\ unstopped = [c \in Consumers |-> 0]
    /\ upsets = 0

-----------------------------------------------------------------------------
(* What is due                                                             *)

Later(i, j) == IF i < j THEN j ELSE i

Attempts(r) == Cardinality(fence[r])

\* The retry forgets the latest claim.
OnceDue_Mut(w) == NotBefore[w]

\* _once_due: not before its time, and a retry step after the latest claim.
OnceDue(w) ==
    IF Attempts(w) = 0 THEN NotBefore[w]
    ELSE Later(NotBefore[w], claimed[w]) + Retry

\* _due_instant: the latest instant of the interval's grid, anchored at the
\* last one served (an unserved row is anchored at its creation, instant 0).
DueInstant(r, t) ==
    IF r \in Wakes THEN OnceDue(r)
    ELSE last[r] + ((t - last[r]) \div Period) * Period

Owed(r, t) ==
    /\ state[r] = "active"
    /\ IF r \in Wakes THEN OnceDue(r) <= t ELSE last[r] + Period <= t

\* owed_since: when a row first became owed what it is owed.
Since(r, t) == IF r \in Wakes THEN DueInstant(r, t) ELSE last[r] + Period

\* due_automations.  Only a wake's attempts are counted, at the scan.
DueItems(t) ==
    {[row |-> r, due |-> DueInstant(r, t),
      count |-> IF r \in Wakes THEN Attempts(r) ELSE 0]
        : r \in {s \in Rows : Owed(s, t)}}

-----------------------------------------------------------------------------
(* The store                                                               *)

\* owner_state: the kernel keeps a liveness lock for as long as its process
\* lives, unless the process lets go of it.
Alive(c) == proc[c] \in {"up", "stopping", "lingering"}

\* An expired lease is free for the taking, whoever holds it.
LeaseBlocks_Mut(c) ==
    /\ lease # None
    /\ lease.holder # c
    /\ Alive(lease.holder)
    /\ lease.fresh

\* _lease_blocks, for the agent's own key.
LeaseBlocks(c) ==
    /\ lease # None
    /\ lease.holder # c
    /\ Alive(lease.holder)

\* claim_attempt, where no claim of the instant exists.
Claim(r, due) ==
    /\ fence' = [fence EXCEPT ![r] = @ \cup {due}]
    /\ claimed' = IF r \in Wakes THEN [claimed EXCEPT ![r] = now] ELSE claimed

\* finish_attempt rolls the attempt onto its row.  A wake's last_due_at is
\* never read, nor is the attempt's status.
Finish(r, due) ==
    /\ last' = IF r \in Cadences THEN [last EXCEPT ![r] = due] ELSE last
    /\ UNCHANGED state

Becomes(r, new) == state' = [state EXCEPT ![r] = new] /\ UNCHANGED last

\* _write_state refuses a retired row.
Paused(r) == IF state[r] = "retired" THEN "retired" ELSE "paused"

\* _retire_once: a wake is spent when its run exists, or out of attempts.
Spent(r, ran) ==
    IF r \in Wakes /\ (ran \/ Attempts(r) >= MaxAttempts)
    THEN "retired" ELSE state[r]

\* refresh_universe_lease and release_universe_lease touch only one's own.
Stamp(c) ==
    lease' = IF lease # None /\ lease.holder = c
             THEN [lease EXCEPT !.fresh = TRUE] ELSE lease

Release(c) ==
    lease' = IF lease # None /\ lease.holder = c THEN None ELSE lease

\* A run some worker works on, asked to stop or not.
Live(k) == runs[k].st \in {"live", "asked"}

\* request_cancel: a flag that a live run reads between its nodes; a run that
\* still waits for the workspace is settled at once.
Cancelled(k) ==
    [runs[k] EXCEPT !.st = IF @ = "live" THEN "asked"
                           ELSE IF @ = "waiting" THEN "ended" ELSE @]

-----------------------------------------------------------------------------
(* The coordinator thread                                                  *)

\* start(): one coordinator, with the liveness lock held.
Boot(c) ==
    /\ proc[c] = "off"
    /\ proc' = [proc EXCEPT ![c] = "up"]
    /\ UNCHANGED <<now, store, runs, threads, upsets>>

Running(c) == task[c].pc # "free"

\* _agent_running_elsewhere.
RunsElsewhere(c) ==
    /\ lease # None
    /\ lease.holder # c
    /\ lease.fresh
    /\ Alive(lease.holder)

\* _apply_overlap: what a row does whose agent is busy.  An instant that is
\* claimed is the running occurrence; a wake is never skipped; who waits is
\* offered again by the next poll.
Policy(i) ==
    IF i.due \in fence[i.row] THEN "none"
    ELSE IF Overlap[i.row] = "skip" /\ i.row \in Wakes THEN "queue"
    ELSE Overlap[i.row]

ToSettle == {i \in DueItems(now) : Policy(i) \in {"skip", "cancel"}}

\* _reap_unstopped: a timed-out run that is still worked on keeps the agent busy
\* and its lease stamped; once it is over the lease is given back.
StillRuns(c) == unstopped[c] # 0 /\ Live(unstopped[c])

ReapUnstopped(c) ==
    IF StillRuns(c) THEN Stamp(c) /\ UNCHANGED unstopped
    ELSE /\ unstopped' = [unstopped EXCEPT ![c] = 0]
         /\ IF unstopped[c] = 0 THEN UNCHANGED lease ELSE Release(c)

\* _submit_due_automations: if the agent is busy each row gets its policy, or
\* else the longest-owed one goes to the executor.
SubmitDue(c) ==
    IF Running(c) \/ StillRuns(c) \/ RunsElsewhere(c)
    THEN /\ poll' = IF ToSettle = {} THEN poll
                    ELSE [poll EXCEPT ![c].pc = "overlap", ![c].todo = ToSettle]
         /\ UNCHANGED task
    ELSE /\ IF DueItems(now) = {} THEN UNCHANGED task
            ELSE \E i \in DueItems(now) :
                 /\ \A j \in DueItems(now) : Since(i.row, now) <= Since(j.row, now)
                 /\ task' = [task EXCEPT ![c].pc = "acquire", ![c].item = i]
         /\ UNCHANGED poll

\* poll_once.  The reads of a pass are one step; what is written on their
\* strength comes later.
Poll(c) ==
    /\ proc[c] = "up" /\ poll[c].pc = "idle"
    /\ ReapUnstopped(c)
    /\ SubmitDue(c)
    /\ UNCHANGED <<now, rows, attempts, runs, proc, upsets>>

\* A row of the pass is dealt with.
Rest(c, i) ==
    IF poll[c].todo = {i} THEN NoPoll
    ELSE [pc |-> "overlap", item |-> None, todo |-> poll[c].todo \ {i}]

\* skip_overlapping: the instant is claimed, then closed as skipped.
Skip(c) ==
    /\ Alive(c) /\ poll[c].pc = "overlap"
    /\ \E i \in poll[c].todo :
        /\ Overlap[i.row] = "skip"
        /\ IF i.due \in fence[i.row]
           THEN /\ poll' = [poll EXCEPT ![c] = Rest(c, i)]
                /\ UNCHANGED attempts
           ELSE /\ Claim(i.row, i.due)
                /\ poll' = [poll EXCEPT ![c].pc = "skipped", ![c].item = i]
    /\ UNCHANGED <<now, rows, lease, runs, proc, task, unstopped, upsets>>

CloseSkipped(c) ==
    LET i == poll[c].item
    IN  /\ Alive(c) /\ poll[c].pc = "skipped"
        /\ Finish(i.row, i.due)
        /\ poll' = [poll EXCEPT ![c] = Rest(c, i)]
        /\ UNCHANGED <<now, attempts, lease, runs, proc, task, unstopped, upsets>>

\* lease_run_id, the run on record under an unexpired lease, and its cancel.
CancelPrevious(c) ==
    /\ Alive(c) /\ poll[c].pc = "overlap"
    /\ \E i \in poll[c].todo :
        /\ Overlap[i.row] = "cancel"
        /\ poll' = [poll EXCEPT ![c] = Rest(c, i)]
    /\ runs' = IF lease # None /\ lease.fresh /\ lease.run # 0
               THEN [runs EXCEPT ![lease.run] = Cancelled(lease.run)] ELSE runs
    /\ UNCHANGED <<now, store, proc, task, unstopped, upsets>>

-----------------------------------------------------------------------------
(* The executor thread                                                     *)

Goto(c, step) == task' = [task EXCEPT ![c].pc = step]

\* acquire_universe_lease, or the agent is busy.
Acquire(c) ==
    /\ Alive(c) /\ task[c].pc = "acquire"
    /\ IF LeaseBlocks(c)
       THEN task' = [task EXCEPT ![c] = NoTask] /\ UNCHANGED lease
       ELSE /\ lease' = [holder |-> c, fresh |-> TRUE,
                         run |-> IF lease # None /\ lease.holder = c
                                 THEN lease.run ELSE 0]
            /\ Goto(c, "held")
    /\ UNCHANGED <<now, rows, attempts, runs, proc, poll, unstopped, upsets>>

\* _refresh_lease, the thread beside the batch; it may come late.
Refresh(c) ==
    /\ Alive(c) /\ task[c].pc \in Held
    /\ lease # None /\ lease.holder = c /\ ~lease.fresh
    /\ lease' = [lease EXCEPT !.fresh = TRUE]
    /\ UNCHANGED <<now, rows, attempts, runs, proc, threads, upsets>>

Upset == upsets < MaxUpsets /\ upsets' = upsets + 1

Lapse ==
    /\ lease # None /\ lease.fresh
    /\ Upset
    /\ lease' = [lease EXCEPT !.fresh = FALSE]
    /\ UNCHANGED <<now, rows, attempts, runs, proc, threads>>

\* The pause file, read between rows, or an account without a free seat.
TurnBack(c) ==
    /\ Alive(c) /\ task[c].pc = "held"
    /\ Upset
    /\ Goto(c, "release")
    /\ UNCHANGED <<now, store, runs, proc, poll, unstopped>>

\* A wake gets one attempt too many.
OutOfAttempts_Mut(i) == i.row \in Wakes /\ i.count > MaxAttempts

OutOfAttempts(i) == i.row \in Wakes /\ i.count >= MaxAttempts

\* _run_due_automation: the attempts the scan counted are used up.
GiveUp(c) ==
    LET i == task[c].item
    IN  /\ Alive(c) /\ task[c].pc = "held"
        /\ OutOfAttempts(i)
        /\ Becomes(i.row, Spent(i.row, FALSE))
        /\ Goto(c, "release")
        /\ UNCHANGED <<now, attempts, lease, runs, proc, poll, unstopped, upsets>>

\* The claim does not look for an earlier one.
Unclaimed_Mut(i) == i.due \in Instants

Unclaimed(i) == i.due \notin fence[i.row]

\* claim_attempt: exactly one caller gets the instant.  The row is read again
\* under the claim, and only what is still active goes on.
ClaimAttempt(c) ==
    LET i == task[c].item
    IN  /\ Alive(c) /\ task[c].pc = "held"
        /\ ~OutOfAttempts(i)
        /\ IF Unclaimed(i)
           THEN /\ Claim(i.row, i.due)
                /\ Goto(c, IF state[i.row] = "active" THEN "gate" ELSE "stale")
           ELSE Goto(c, "release") /\ UNCHANGED attempts
        /\ UNCHANGED <<now, rows, lease, runs, proc, poll, unstopped, upsets>>

CloseStale(c) ==
    LET i == task[c].item
    IN  /\ Alive(c) /\ task[c].pc = "stale"
        /\ Finish(i.row, i.due)
        /\ Goto(c, "release")
        /\ UNCHANGED <<now, attempts, lease, runs, proc, poll, unstopped, upsets>>

\* The owner's authority is gone: the attempt is refused and the row paused.
Refuse(c) ==
    LET i == task[c].item
    IN  /\ Alive(c) /\ task[c].pc = "gate"
        /\ Upset
        /\ Finish(i.row, i.due)
        /\ Goto(c, "refused")
        /\ UNCHANGED <<now, attempts, lease, runs, proc, poll, unstopped>>

PauseRefused(c) ==
    LET i == task[c].item
    IN  /\ Alive(c) /\ task[c].pc = "refused"
        /\ Becomes(i.row, Paused(i.row))
        /\ Goto(c, "release")
        /\ UNCHANGED <<now, attempts, lease, runs, proc, poll, unstopped, upsets>>

\* The context, the branch or the provider fails before a run exists.
FailEarly(c) ==
    LET i == task[c].item
    IN  /\ Alive(c) /\ task[c].pc = "gate"
        /\ Finish(i.row, i.due)
        /\ Goto(c, "hopeless")
        /\ UNCHANGED <<now, attempts, lease, runs, proc, poll, unstopped, upsets>>

\* execute_branch_async: the run is refused at its admission, handed to the run
\* pool, or queued for the workspace that another run holds.
Launch(c) ==
    LET i == task[c].item
    IN  /\ Alive(c) /\ task[c].pc = "gate"
        /\ \E st \in {"ended", "live", "waiting"} :
            /\ IF st = "waiting" THEN Upset ELSE UNCHANGED upsets
            /\ runs' = Append(runs, [row |-> i.row, due |-> i.due, by |-> c, on |-> c,
                                     told |-> FALSE, waited |-> st = "waiting", st |-> st])
        /\ task' = [task EXCEPT ![c].pc = "announce", ![c].run = Len(runs) + 1]
        /\ UNCHANGED <<now, store, proc, poll, unstopped>>

\* _started: the run exists, so a wake is delivered; the consumer notes the run
\* for stop(), and on the lease for cancel_previous.
Announce(c) ==
    LET i == task[c].item
        k == task[c].run
    IN  /\ Alive(c) /\ task[c].pc = "announce"
        /\ Becomes(i.row, Spent(i.row, TRUE))
        /\ runs' = [runs EXCEPT ![k].told = TRUE]
        /\ lease' = IF lease # None /\ lease.holder = c
                    THEN [lease EXCEPT !.run = k] ELSE lease
        /\ Goto(c, "wait")
        /\ UNCHANGED <<now, attempts, proc, poll, unstopped, upsets>>

\* wait_for blocks on the future of a run that a pool of this process works; a
\* run that waits for the workspace, or that another process took up, has none.
Working(c, k) == Live(k) /\ runs[k].on = c

Await(c) ==
    LET i == task[c].item
        k == task[c].run
    IN  /\ Alive(c) /\ task[c].pc = "wait"
        /\ ~Working(c, k)
        /\ Finish(i.row, i.due)
        /\ \E ok \in BOOLEAN :
            /\ ok => runs[k].st = "ended"
            /\ Goto(c, IF ~ok THEN "hopeless"
                       ELSE IF i.row \in Wakes THEN "spend" ELSE "release")
        /\ UNCHANGED <<now, attempts, lease, runs, proc, poll, unstopped, upsets>>

\* The operator's run timeout: the run is asked to stop and given its grace.
TimeOut(c) ==
    /\ Alive(c) /\ task[c].pc = "wait"
    /\ Working(c, task[c].run)
    /\ Upset
    /\ runs' = [runs EXCEPT ![task[c].run] = Cancelled(task[c].run)]
    /\ Goto(c, "grace")
    /\ UNCHANGED <<now, store, proc, poll, unstopped>>

\* It stopped, or the grace is over and the lease is kept for it.
CloseTimedOut(c) ==
    LET i == task[c].item
    IN  /\ Alive(c) /\ task[c].pc = "grace"
        /\ Finish(i.row, i.due)
        /\ task' = [task EXCEPT ![c].pc = "hopeless",
                                ![c].keep = Working(c, task[c].run)]
        /\ UNCHANGED <<now, attempts, lease, runs, proc, poll, unstopped, upsets>>

\* _pause_if_hopeless: authority lost, a failure that will repeat, or too many.
PauseIfHopeless(c) ==
    LET r == task[c].item.row
    IN  /\ Alive(c) /\ task[c].pc = "hopeless"
        /\ \E pause \in BOOLEAN :
            Becomes(r, IF pause THEN Paused(r) ELSE state[r])
        /\ Goto(c, IF r \in Wakes THEN "spend" ELSE "release")
        /\ UNCHANGED <<now, attempts, lease, runs, proc, poll, unstopped, upsets>>

SpendWake(c) ==
    LET r == task[c].item.row
    IN  /\ Alive(c) /\ task[c].pc = "spend"
        /\ Becomes(r, Spent(r, task[c].run # 0))
        /\ Goto(c, "release")
        /\ UNCHANGED <<now, attempts, lease, runs, proc, poll, unstopped, upsets>>

\* The end of _run_automations: the lease is given back, unless a timed-out
\* run still works under it.
ReleaseLease(c) ==
    /\ Alive(c) /\ task[c].pc = "release"
    /\ IF task[c].keep
       THEN /\ unstopped' = [unstopped EXCEPT ![c] = task[c].run]
            /\ UNCHANGED lease
       ELSE Release(c) /\ UNCHANGED unstopped
    /\ task' = [task EXCEPT ![c] = NoTask]
    /\ UNCHANGED <<now, rows, attempts, runs, proc, poll, upsets>>

-----------------------------------------------------------------------------
(* Runs, processes, the owner and the clock                                *)

\* nominate_workspace_waiter, in any server: the run whose turn has come is started,
\* and nobody takes the agent's lease for it.
StartWaiting(c, k) ==
    /\ Alive(c) /\ runs[k].st = "waiting"
    /\ runs' = [runs EXCEPT ![k].st = "live", ![k].on = c]
    /\ UNCHANGED <<now, store, proc, threads, upsets>>

\* The graph ends, by itself or because it was asked to; a run that waits may be
\* cancelled by its owner, or fail when its turn comes.
RunEnds(k) ==
    /\ Live(k) \/ runs[k].st = "waiting"
    /\ runs' = [runs EXCEPT ![k].st = "ended"]
    /\ UNCHANGED <<now, store, proc, threads, upsets>>

\* stop(): the runs it knows of are asked to stop ...
Stop(c) ==
    /\ proc[c] = "up"
    /\ Upset
    /\ proc' = [proc EXCEPT ![c] = "stopping"]
    /\ runs' = [k \in DOMAIN runs |->
                   IF runs[k].by = c /\ runs[k].told THEN Cancelled(k) ELSE runs[k]]
    /\ UNCHANGED <<now, store, poll, task, unstopped>>

\* ... the executor is shut down, which cancels what no thread has begun, and
\* the liveness lock is let go unless something of this process still runs.
StopEnds(c) ==
    /\ proc[c] = "stopping"
    /\ \E left \in {task[c]} \cup (IF task[c].pc = "acquire" THEN {NoTask} ELSE {}) :
        /\ task' = [task EXCEPT ![c] = left]
        /\ proc' = [proc EXCEPT ![c] =
                IF /\ poll[c].pc = "idle"
                   /\ left.pc = "free"
                   /\ unstopped[c] = 0
                THEN "gone" ELSE "lingering"]
    /\ UNCHANGED <<now, store, runs, poll, unstopped, upsets>>

\* The end of a process, which takes its runs and its threads with it.
Ends(c) ==
    /\ proc' = [proc EXCEPT ![c] = "gone"]
    /\ runs' = [k \in DOMAIN runs |->
                   IF Working(c, k)
                   THEN [runs[k] EXCEPT !.st = "ended"] ELSE runs[k]]
    /\ poll' = [poll EXCEPT ![c] = NoPoll]
    /\ task' = [task EXCEPT ![c] = NoTask]
    /\ unstopped' = [unstopped EXCEPT ![c] = 0]

\* A stopped process exits when its pools have finished.
Exit(c) ==
    /\ proc[c] = "lingering"
    /\ ~Running(c)
    /\ \A k \in DOMAIN runs : ~Working(c, k)
    /\ Ends(c)
    /\ UNCHANGED <<now, store, upsets>>

Die(c) ==
    /\ Alive(c)
    /\ Upset
    /\ Ends(c)
    /\ UNCHANGED <<now, store>>

\* The owner pauses, resumes or retires a row (set_desired_state, retire).
OwnerEdits(r) ==
    /\ state[r] # "retired"
    /\ Upset
    /\ \E new \in {"active", "paused", "retired"} \ {state[r]} : Becomes(r, new)
    /\ UNCHANGED <<now, attempts, lease, runs, proc, threads>>

Tick ==
    /\ now < Horizon
    /\ now' = now + 1
    /\ UNCHANGED <<store, runs, proc, threads, upsets>>

-----------------------------------------------------------------------------
Coordinator(c) ==
    \/ Poll(c) \/ Skip(c) \/ CloseSkipped(c) \/ CancelPrevious(c)

Executor(c) ==
    \/ Acquire(c) \/ GiveUp(c) \/ ClaimAttempt(c) \/ CloseStale(c) \/ Refuse(c)
    \/ PauseRefused(c) \/ FailEarly(c) \/ Launch(c) \/ Announce(c)
    \/ Await(c) \/ CloseTimedOut(c) \/ PauseIfHopeless(c) \/ SpendWake(c)
    \/ ReleaseLease(c)

Next ==
    \/ \E c \in Consumers :
        \/ Boot(c) \/ Coordinator(c) \/ Executor(c)
        \/ Refresh(c) \/ TurnBack(c) \/ TimeOut(c)
        \/ Stop(c) \/ StopEnds(c) \/ Exit(c) \/ Die(c)
    \/ \E k \in DOMAIN runs : RunEnds(k) \/ \E c \in Consumers : StartWaiting(c, k)
    \/ \E r \in Rows : OwnerEdits(r)
    \/ Lapse \/ Tick

Spec == Init /\ [][Next]_vars

\* Time passes, a server is started, its threads go on, a stopped one comes to
\* its end, a lease is refreshed.  A run that was asked to stop stops; nothing
\* bounds one that was not.
Process(c) == Boot(c) \/ StopEnds(c) \/ Exit(c)

Fairness ==
    /\ WF_vars(Tick)
    /\ WF_vars(\E k \in DOMAIN runs : runs[k].st = "asked" /\ RunEnds(k))
    /\ \A c \in Consumers :
        /\ WF_vars(Process(c)) /\ WF_vars(Coordinator(c)) /\ WF_vars(Executor(c))
        /\ WF_vars(Refresh(c))

FairSpec == Spec /\ Fairness

-----------------------------------------------------------------------------
(* Properties                                                              *)

\* "Runs of one agent never overlap", whatever consumers are stopped, killed
\* or started beside each other, and however late a lease is refreshed.  Runs that
\* had to wait for the workspace are not meant: their attempt is closed and the
\* lease given back while they wait, so that they start beside a later run.
OneRunPerAgent ==
    \A j, k \in DOMAIN runs :
        Live(j) /\ Live(k) /\ ~runs[j].waited /\ ~runs[k].waited => j = k

\* An instant is run at most once, by whichever poller.  A wake is run at most
\* once at all, unless its process died before it could write that the wake's
\* run exists.
WorkRunsOnce ==
    \A j, k \in DOMAIN runs :
        j < k /\ runs[j].row = runs[k].row =>
            /\ runs[j].due # runs[k].due
            /\ runs[j].row \in Wakes => ~runs[j].told /\ proc[runs[j].by] = "gone"

\* A wake that never reaches a run is tried MAX_ONCE_ATTEMPTS times and no more.
AttemptsWithinMax == \A w \in Wakes : Attempts(w) <= MaxAttempts

\* A cadence whose instant was claimed by a process that died before it closed
\* the attempt takes the agent's turn in every poll until its next instant.
TurnLost(r) ==
    /\ Owed(r, now)
    /\ DueInstant(r, now) \in fence[r]
    /\ \A c \in Consumers : task[c].item = None \/ task[c].item.row # r
                           \/ task[c].pc \in {"acquire", "held", "release"}

\* A wake does not stay pending: it is spent, given up or paused, unless its
\* next attempt lies beyond the bound of the clock.
WakeSettles ==
    \A w \in Wakes :
        state[w] = "active" ~>
            \/ state[w] # "active"
            \/ OnceDue(w) > Horizon
            \/ now = Horizon /\ \E r \in Cadences : TurnLost(r)

=============================================================================
