-------------------------- MODULE BranchTaskQueue --------------------------
(***************************************************************************)
(* The per-universe branch task queue (tinyassets/branch_tasks.py), the    *)
(* dispatcher that feeds and drains it (tinyassets/dispatcher.py), the     *)
(* daemon processes that work on it (fantasy_daemon/__main__.py) and the   *)
(* cancel request of the MCP surface (tinyassets/api/universe.py).         *)
(*                                                                         *)
(* Every operation of branch_tasks.py runs under one file lock, so each is *)
(* one action; whatever a caller does between two of them (read the queue, *)
(* then append; pick a task, then claim it; look at the cancel flag, then  *)
(* finalize) is two actions that others may come between.                  *)
(***************************************************************************)
EXTENDS Integers, FiniteSets

CONSTANTS
    RequestIds,     \* fresh ids of user requests (new_task_id never repeats)
    PoolIds,        \* ids of goal-pool posts, the same for every producer run
    ChildIds,       \* ids of tasks spawned by one origin task
    LegacyIds,      \* ids of running rows written before leases existed
    Workers,        \* daemon processes (slots a supervisor restarts)
    Serves,         \* Serves[w]: the ids w's dispatcher config is eligible for
    PathOf,         \* PathOf[t]: how a claimed t is executed
    DaemonOf,       \* DaemonOf[w]: the daemon id (one per universe, or per soul)
    WorkerIdOf,     \* WorkerIdOf[w]: TINYASSETS_WORKER_ID of w
    Blank,          \* an unset string
    SharedId,       \* the shared fallback id "cloud-droplet"
    LeaseTicks,     \* DEFAULT_LEASE_SECONDS
    MaxNodeTicks,   \* longest time between two heartbeats of an executor
    MaxLineage,     \* max_lineage of append_task_capped
    MaxActive,      \* max_active of append_task_capped
    MaxRows,        \* bound: rows ever appended
    MaxFaults,      \* bound: crashes and failed queue accesses
    NoRow,          \* "no such row"
    NoTask          \* "no task"

Ids == RequestIds \cup PoolIds \cup ChildIds \cup LegacyIds
Slots == 1..MaxRows
Terminal == {"succeeded", "failed", "cancelled"}
Status == {"pending", "running"} \cup Terminal
NoLease == -1

ASSUME IdsAssumption ==
    /\ RequestIds \cap (PoolIds \cup ChildIds \cup LegacyIds) = {}
    /\ PoolIds \cap (ChildIds \cup LegacyIds) = {}
    /\ ChildIds \cap LegacyIds = {}
    /\ NoTask \notin Ids
ASSUME BoundsAssumption ==
    /\ LeaseTicks \in Nat \ {0}
    /\ MaxNodeTicks \in Nat
    /\ MaxLineage \in Nat
    /\ MaxActive \in Nat
    /\ MaxRows \in Nat
    /\ MaxFaults \in Nat
ASSUME WorkersAssumption ==
    /\ Serves \in [Workers -> SUBSET Ids]
    /\ PathOf \in [Ids -> {"stream", "direct", "bid"}]
    /\ Blank # SharedId
    /\ \A w \in Workers : DaemonOf[w] # Blank

VARIABLES
    rows,       \* branch_tasks.json: slot -> row, in list order; NoRow once collected
    tail,       \* the number of rows ever appended
    archive,    \* branch_tasks_archive.json: id -> archived status, or "none"
    runs,       \* runs.db: newest run named branch-task-<id>: none, unfinished, completed
    starts,     \* how often execute_branch was started for an id
    pc,         \* where each worker process is
    task,       \* the task it picked or claimed
    result,     \* the status it is about to write
    todo,       \* the pool ids its producers are about to append
    node,       \* ticks since its last heartbeat
    cancel,     \* the cancel request in flight: the id and the status it read
    faults      \* crashes and failed accesses so far

queueVars == <<rows, tail, archive>>
runVars == <<runs, starts>>
workerVars == <<pc, task, result, todo, node>>
vars == <<rows, tail, archive, runs, starts, pc, task, result, todo, node,
          cancel, faults>>

Owners == {DaemonOf[w] : w \in Workers} \cup {Blank}
Executors == {WorkerIdOf[w] : w \in Workers} \cup {Blank}

\* A row of the queue file.  by is the process that claimed it last: the code
\* does not keep it, the properties speak of it.
Row == [id : Ids, status : Status, owner : Owners, exec : Executors,
        by : Workers \cup {NoTask}, lease : {NoLease} \cup 0..LeaseTicks,
        cancel : BOOLEAN, old : BOOLEAN]

ASSUME NoRowAssumption == NoRow \notin Row

Pcs == {"down", "boot", "sweep0", "gc", "produce", "append", "sweep", "select",
        "claim", "reuse", "launch", "run", "check", "settle"}
Executing(w) == pc[w] \in {"reuse", "launch", "run", "check", "settle"}

-----------------------------------------------------------------------------
(* The queue file.  A definition named like another with a suffix _Mut is a *)
(* deliberately wrong form of it, used only to show that a property can     *)
(* tell the difference.                                                     *)

Held == {i \in Slots : rows[i] # NoRow}
RowsOf(t) == {i \in Held : rows[i].id = t}
Has(t) == RowsOf(t) # {}
\* Every operation scans the list for the first row of the id.
First(t) == CHOOSE i \in RowsOf(t) : \A j \in RowsOf(t) : i <= j
IsRunning(i) == rows[i] # NoRow /\ rows[i].status = "running"

NewRow(t) == [id |-> t, status |-> "pending", owner |-> Blank, exec |-> Blank,
              by |-> NoTask, lease |-> NoLease, cancel |-> FALSE, old |-> FALSE]

Put(i, r) == rows' = [rows EXCEPT ![i] = r]

\* append_task: no look at the ids already there.
AppendRow(t) ==
    /\ tail < MaxRows
    /\ tail' = tail + 1
    /\ Put(tail + 1, NewRow(t))

Lineage_Mut == Cardinality({t \in ChildIds : Has(t)})
\* _lineage_size over queue and archive: an id found in both counts once.
Lineage == Cardinality({t \in ChildIds : Has(t) \/ archive[t] # "none"})

Active == Cardinality({i \in Held : rows[i].status \in {"pending", "running"}})

Claimable(t) == Has(t) /\ rows[First(t)].status = "pending"

Claimed(r, w) ==
    [r EXCEPT !.status = "running", !.owner = DaemonOf[w], !.exec = WorkerIdOf[w],
              !.by = w, !.lease = LeaseTicks]

Reclaimed_Mut(r) ==
    [r EXCEPT !.status = "pending", !.owner = Blank, !.lease = NoLease, !.cancel = FALSE]
\* What every reclaim resets; the executor id and the cancel flag stay.
Reclaimed(r) == [r EXCEPT !.status = "pending", !.owner = Blank, !.lease = NoLease]

Reclaim(S) == rows' = [i \in Slots |-> IF i \in S THEN Reclaimed(rows[i]) ELSE rows[i]]

Predecessor_Mut(w) == {i \in Slots : IsRunning(i)}
\* reclaim_predecessor_tasks: running rows under this worker's own unique id.
Predecessor(w) ==
    {i \in Slots : /\ IsRunning(i)
                   /\ WorkerIdOf[w] \notin {Blank, SharedId}
                   /\ rows[i].exec = WorkerIdOf[w]}

ExpiredLeased_Mut(leaseless) == {i \in Slots : IsRunning(i) /\ rows[i].lease = 0}
Expired_Mut(leaseless) == {i \in Slots : IsRunning(i) /\ rows[i].lease <= 1}
\* reclaim_expired_leases: lease_expires_at <= now; at startup also no lease.
Expired(leaseless) ==
    {i \in Slots : /\ IsRunning(i)
                   /\ rows[i].lease = 0 \/ (leaseless /\ rows[i].lease = NoLease)}

\* garbage_collect: terminal rows queued more than ARCHIVE_AFTER_DAYS ago.
Collectable == {i \in Held : rows[i].status \in Terminal /\ rows[i].old}

\* The archive keeps the first row it ever got of an id.
ArchiveWith(S) ==
    [t \in Ids |->
        LET new == {i \in S : rows[i].id = t}
        IN  IF archive[t] = "none" /\ new # {}
            THEN rows[CHOOSE i \in new : \A j \in new : i <= j].status
            ELSE archive[t]]

\* is_task_cancel_requested: a missing row is not flagged.
Flagged(t) == Has(t) /\ rows[First(t)].cancel

\* _VALID_TRANSITIONS, as far as mark_status is called.
Allowed(r, s) == r.status = "running" \/ (r.status = "pending" /\ s = "cancelled")

Marked_Mut(r, s) == [r EXCEPT !.status = s]
\* mark_status: a terminal row keeps its first result.
Marked(r, s) == IF r.status \in Terminal THEN r ELSE [r EXCEPT !.status = s]

\* mark_status raises KeyError without a row, ValueError on a bad transition.
MarkRaises(t, s) ==
    \/ ~Has(t)
    \/ rows[First(t)].status \notin Terminal /\ ~Allowed(rows[First(t)], s)
MarkStatus(t, s) ==
    IF MarkRaises(t, s) THEN rows' = rows
                        ELSE Put(First(t), Marked(rows[First(t)], s))

-----------------------------------------------------------------------------
\* An empty queue, or one with running rows from before there were leases.
Init ==
    /\ rows \in [Slots -> {NoRow} \cup
                    {[NewRow(t) EXCEPT !.status = "running"] : t \in LegacyIds}]
    /\ tail \in 0..MaxRows
    /\ \A i \in Slots : (rows[i] # NoRow) <=> (i <= tail)
    /\ \A i, j \in 1..tail : rows[i].id = rows[j].id => i = j
    /\ archive = [t \in Ids |-> "none"]
    /\ runs = [t \in Ids |-> "none"]
    /\ starts = [t \in Ids |-> 0]
    /\ pc = [w \in Workers |-> "down"]
    /\ task = [w \in Workers |-> NoTask]
    /\ result = [w \in Workers |-> "none"]
    /\ todo = [w \in Workers |-> {}]
    /\ node = [w \in Workers |-> 0]
    /\ cancel = [task |-> NoTask, saw |-> "none"]
    /\ faults = 0

-----------------------------------------------------------------------------
(* The MCP surface.                                                        *)

\* _action_submit_request: a fresh id, appended without a cap.
SubmitRequest(t) ==
    /\ t \in RequestIds /\ ~Has(t) /\ archive[t] = "none"
    /\ AppendRow(t)
    /\ UNCHANGED <<archive, runVars, workerVars, cancel, faults>>

\* append_task_capped: both caps and the append under one lock (a task spawned
\* by a node of another; only tests call it at this commit).
SpawnChild(t) ==
    /\ t \in ChildIds /\ ~Has(t) /\ archive[t] = "none"
    /\ Active < MaxActive
    /\ Lineage < MaxLineage
    /\ AppendRow(t)
    /\ UNCHANGED <<archive, runVars, workerVars, cancel, faults>>

\* _action_queue_cancel first reads the queue and lets go of the lock ...
CancelRead(t) ==
    /\ cancel.task = NoTask /\ Has(t)
    /\ rows[First(t)].status \notin Terminal
    /\ cancel' = [task |-> t, saw |-> rows[First(t)].status]
    /\ UNCHANGED <<queueVars, runVars, workerVars, faults>>

\* ... then flags a task it saw running (request_task_cancel) ...
CancelRunning ==
    /\ cancel.saw = "running"
    /\ LET t == cancel.task
       IN  IF Has(t) /\ rows[First(t)].status \notin Terminal
           THEN Put(First(t), [rows[First(t)] EXCEPT !.cancel = TRUE])
           ELSE rows' = rows
    /\ cancel' = [task |-> NoTask, saw |-> "none"]
    /\ UNCHANGED <<tail, archive, runVars, workerVars, faults>>

\* ... and marks a task it saw pending, whatever it is by now.
CancelPending ==
    /\ cancel.saw = "pending"
    /\ MarkStatus(cancel.task, "cancelled")
    /\ cancel' = [task |-> NoTask, saw |-> "none"]
    /\ UNCHANGED <<tail, archive, runVars, workerVars, faults>>

-----------------------------------------------------------------------------
(* A daemon process: startup, one pick, one execution, exit.               *)

Exit(w) ==
    /\ pc' = [pc EXCEPT ![w] = "down"]
    /\ task' = [task EXCEPT ![w] = NoTask]
    /\ result' = [result EXCEPT ![w] = "none"]
    /\ todo' = [todo EXCEPT ![w] = {}]
    /\ node' = [node EXCEPT ![w] = 0]

Goto(w, l) ==
    /\ pc' = [pc EXCEPT ![w] = l]
    /\ UNCHANGED <<task, result, todo, node>>

Start(w) ==
    /\ pc[w] = "down"
    /\ Goto(w, "boot")
    /\ UNCHANGED <<queueVars, runVars, cancel, faults>>

\* _dispatcher_startup: the three recovery steps, each under its own lock.
ReclaimPredecessor(w) ==
    /\ pc[w] = "boot"
    /\ Reclaim(Predecessor(w))
    /\ Goto(w, "sweep0")
    /\ UNCHANGED <<tail, archive, runVars, cancel, faults>>

StartupSweep(w) ==
    /\ pc[w] = "sweep0"
    /\ Reclaim(Expired(TRUE))
    /\ Goto(w, "gc")
    /\ UNCHANGED <<tail, archive, runVars, cancel, faults>>

GarbageCollect(w) ==
    /\ pc[w] = "gc"
    /\ archive' = ArchiveWith(Collectable)
    /\ rows' = [i \in Slots |-> IF i \in Collectable THEN NoRow ELSE rows[i]]
    /\ Goto(w, "produce")
    /\ UNCHANGED <<tail, runVars, cancel, faults>>

\* The archive is written first; the process dies before the queue file is.
CrashInGarbageCollect(w) ==
    /\ pc[w] = "gc" /\ Collectable # {} /\ faults < MaxFaults
    /\ archive' = ArchiveWith(Collectable)
    /\ Exit(w)
    /\ faults' = faults + 1
    /\ UNCHANGED <<rows, tail, runVars, cancel>>

\* An exception in _dispatcher_startup is logged and the rest of it skipped.
StartupFails(w) ==
    /\ pc[w] \in {"boot", "sweep0", "gc"} /\ faults < MaxFaults
    /\ Goto(w, "produce")
    /\ faults' = faults + 1
    /\ UNCHANGED <<queueVars, runVars, cancel>>

Unqueued_Mut == PoolIds
\* The posts whose id is not among the queued ids.
Unqueued == {t \in PoolIds : ~Has(t)}

\* run_branch_task_producers_into_queue reads the ids that are queued ...
ProducersRead(w) ==
    /\ pc[w] = "produce"
    /\ todo' = [todo EXCEPT ![w] = Unqueued]
    /\ pc' = [pc EXCEPT ![w] = IF todo'[w] = {} THEN "sweep" ELSE "append"]
    /\ UNCHANGED <<queueVars, runVars, task, result, node, cancel, faults>>

\* ... and appends every other post, one lock each.
ProducerAppends(w, t) ==
    /\ pc[w] = "append" /\ t \in todo[w]
    /\ AppendRow(t)
    /\ todo' = [todo EXCEPT ![w] = @ \ {t}]
    /\ pc' = [pc EXCEPT ![w] = IF todo'[w] = {} THEN "sweep" ELSE "append"]
    /\ UNCHANGED <<archive, runVars, task, result, node, cancel, faults>>

\* A failed append is logged and skipped (the row bound counts as a failure).
ProducerSkips(w, t) ==
    /\ pc[w] = "append" /\ t \in todo[w]
    /\ tail = MaxRows \/ faults < MaxFaults
    /\ faults' = IF tail = MaxRows THEN faults ELSE faults + 1
    /\ todo' = [todo EXCEPT ![w] = @ \ {t}]
    /\ pc' = [pc EXCEPT ![w] = IF todo'[w] = {} THEN "sweep" ELSE "append"]
    /\ UNCHANGED <<queueVars, runVars, task, result, node, cancel>>

\* _try_dispatcher_pick: sweep, select and claim, each under its own lock.
PickSweep(w) ==
    /\ pc[w] = "sweep"
    /\ Reclaim(Expired(FALSE))
    /\ Goto(w, "select")
    /\ UNCHANGED <<tail, archive, runVars, cancel, faults>>

Eligible(w) == {i \in Held : rows[i].status = "pending" /\ rows[i].id \in Serves[w]}

\* select_next_task: any eligible row may have the top score (tier, age, bid,
\* boosts and the soul term).
Select(w, i) ==
    /\ pc[w] = "select" /\ i \in Eligible(w)
    /\ task' = [task EXCEPT ![w] = rows[i].id]
    /\ pc' = [pc EXCEPT ![w] = "claim"]
    /\ UNCHANGED <<queueVars, runVars, result, todo, node, cancel, faults>>

SelectNothing(w) ==
    /\ pc[w] = "select" /\ Eligible(w) = {}
    /\ Exit(w)
    /\ UNCHANGED <<queueVars, runVars, cancel, faults>>

Claim(w) ==
    /\ pc[w] = "claim" /\ Claimable(task[w])
    /\ Put(First(task[w]), Claimed(rows[First(task[w])], w))
    /\ node' = [node EXCEPT ![w] = 0]
    /\ pc' = [pc EXCEPT ![w] = IF PathOf[task[w]] = "direct" THEN "reuse" ELSE "run"]
    /\ UNCHANGED <<tail, archive, runVars, task, result, todo, cancel, faults>>

\* claim_lost_to_cancel: no task this time.
ClaimLost(w) ==
    /\ pc[w] = "claim" /\ ~Claimable(task[w])
    /\ Exit(w)
    /\ UNCHANGED <<queueVars, runVars, cancel, faults>>

\* refresh_task_heartbeat: nothing is refreshed on another owner's row or one
\* that is not running, and the executor does not look at the answer.
Refreshable(t, w) ==
    /\ Has(t)
    /\ rows[First(t)].status = "running"
    /\ rows[First(t)].owner \in {DaemonOf[w], Blank}
Refreshed_Mut(r, w) == r
Refreshed(r, w) == [r EXCEPT !.owner = DaemonOf[w], !.lease = LeaseTicks]

Heartbeat(w) ==
    /\ Executing(w) /\ node[w] > 0
    /\ IF Refreshable(task[w], w)
       THEN Put(First(task[w]), Refreshed(rows[First(task[w])], w))
       ELSE rows' = rows
    /\ node' = [node EXCEPT ![w] = 0]
    /\ UNCHANGED <<tail, archive, runVars, pc, task, result, todo, cancel, faults>>

Decide(w, l, r) ==
    /\ pc' = [pc EXCEPT ![w] = l]
    /\ result' = [result EXCEPT ![w] = r]
    /\ UNCHANGED <<task, todo, node>>

\* latest_run_by_name: a completed run is reused, any other run needs
\* reconciliation and fails the task, and only without one is the branch run.
ReuseRun(w) ==
    /\ pc[w] = "reuse" /\ runs[task[w]] # "none"
    /\ IF runs[task[w]] = "completed" THEN Decide(w, "check", "succeeded")
                                      ELSE Decide(w, "check", "failed")
    /\ UNCHANGED <<queueVars, runVars, cancel, faults>>

\* The branch is not found or does not validate: no run at all.
BranchInvalid(w) ==
    /\ pc[w] = "reuse"
    /\ Decide(w, "check", "failed")
    /\ UNCHANGED <<queueVars, runVars, cancel, faults>>

NoRunYet_Mut(t) == runs[t] # "completed"
NoRunYet(t) == runs[t] = "none"

NoRunFound(w) ==
    /\ pc[w] = "reuse" /\ NoRunYet(task[w])
    /\ Goto(w, "launch")
    /\ UNCHANGED <<queueVars, runVars, cancel, faults>>

\* execute_branch writes the run row before any node runs.
LaunchBranch(w) ==
    /\ pc[w] = "launch"
    /\ runs' = [runs EXCEPT ![task[w]] = "unfinished"]
    /\ starts' = [starts EXCEPT ![task[w]] = IF @ = 2 THEN 2 ELSE @ + 1]
    /\ Goto(w, "run")
    /\ UNCHANGED <<queueVars, cancel, faults>>

\* The branch, the node bid or the stream ends by itself, or fails.
FinishWork(w, r) ==
    /\ pc[w] = "run" /\ r \in {"succeeded", "failed"}
    /\ IF PathOf[task[w]] = "direct"
       THEN /\ Decide(w, "check", r)
            /\ runs' = [runs EXCEPT ![task[w]] =
                            IF r = "succeeded" THEN "completed" ELSE "unfinished"]
       ELSE /\ Decide(w, "settle", r)
            /\ runs' = runs
    /\ UNCHANGED <<queueVars, starts, cancel, faults>>

\* The stream loop breaks at an event: on the stop signal without a failure
\* reason, so the task counts as succeeded ...
StreamStops(w) ==
    /\ pc[w] = "run" /\ PathOf[task[w]] = "stream"
    /\ Decide(w, "settle", "succeeded")
    /\ UNCHANGED <<queueVars, runVars, cancel, faults>>

\* ... and on a cancel flag.
StreamSeesCancel(w) ==
    /\ pc[w] = "run" /\ PathOf[task[w]] = "stream" /\ Flagged(task[w])
    /\ Decide(w, "settle", "cancelled")
    /\ UNCHANGED <<queueVars, runVars, cancel, faults>>

\* _settle_claimed_direct_branch_task looks at the flag, then writes.
CheckCancel(w) ==
    /\ pc[w] = "check"
    /\ IF Flagged(task[w]) THEN Decide(w, "settle", "cancelled")
                           ELSE Goto(w, "settle")
    /\ UNCHANGED <<queueVars, runVars, cancel, faults>>

\* _branch_task_cancel_requested: a failed read counts as a cancel request.
CancelCheckFails(w) ==
    /\ \/ pc[w] = "run" /\ PathOf[task[w]] = "stream"
       \/ pc[w] = "check"
    /\ faults < MaxFaults
    /\ Decide(w, "settle", "cancelled")
    /\ faults' = faults + 1
    /\ UNCHANGED <<queueVars, runVars, cancel>>

\* _finalize_claimed_task / _cancel_claimed_task, then the process exits; an
\* exception of mark_status ends it as well.
Settle(w) ==
    /\ pc[w] = "settle"
    /\ MarkStatus(task[w], result[w])
    /\ Exit(w)
    /\ UNCHANGED <<tail, archive, runVars, cancel, faults>>

\* SIGKILL, power loss, or an exception of the pick.
Crash(w) ==
    /\ pc[w] # "down" /\ faults < MaxFaults
    /\ Exit(w)
    /\ faults' = faults + 1
    /\ UNCHANGED <<queueVars, runVars, cancel>>

-----------------------------------------------------------------------------
(* Time.                                                                   *)

\* One tick of every lease in use and of every executor's heartbeat gap; no
\* executor stays silent for longer than MaxNodeTicks.
Tick ==
    /\ \A w \in Workers : Executing(w) => node[w] < MaxNodeTicks
    /\ \E i \in Slots : IsRunning(i) /\ rows[i].lease > 0
    /\ rows' = [i \in Slots |-> IF IsRunning(i) /\ rows[i].lease > 0
                                THEN [rows[i] EXCEPT !.lease = @ - 1] ELSE rows[i]]
    /\ node' = [w \in Workers |-> IF Executing(w) THEN node[w] + 1 ELSE node[w]]
    /\ UNCHANGED <<tail, archive, runVars, pc, task, result, todo, cancel, faults>>

\* The row was queued ARCHIVE_AFTER_DAYS ago.
Age(i) ==
    /\ rows[i] # NoRow /\ ~rows[i].old
    /\ Put(i, [rows[i] EXCEPT !.old = TRUE])
    /\ UNCHANGED <<tail, archive, runVars, workerVars, cancel, faults>>

-----------------------------------------------------------------------------
Api ==
    \/ \E t \in Ids : SubmitRequest(t) \/ SpawnChild(t) \/ CancelRead(t)
    \/ CancelRunning \/ CancelPending

Work(w) ==
    \/ Start(w) \/ ReclaimPredecessor(w) \/ StartupSweep(w) \/ GarbageCollect(w)
    \/ ProducersRead(w) \/ (\E t \in PoolIds : ProducerAppends(w, t) \/ ProducerSkips(w, t))
    \/ PickSweep(w) \/ (\E i \in Slots : Select(w, i)) \/ SelectNothing(w)
    \/ Claim(w) \/ ClaimLost(w)
    \/ BranchInvalid(w) \/ ReuseRun(w) \/ NoRunFound(w) \/ LaunchBranch(w)
    \/ (\E r \in {"succeeded", "failed"} : FinishWork(w, r))
    \/ StreamStops(w) \/ StreamSeesCancel(w) \/ CheckCancel(w) \/ Settle(w)

Fault(w) ==
    \/ CrashInGarbageCollect(w) \/ StartupFails(w) \/ CancelCheckFails(w) \/ Crash(w)

Next ==
    \/ Api
    \/ \E w \in Workers : Work(w) \/ Heartbeat(w) \/ Fault(w)
    \/ Tick
    \/ \E i \in Slots : Age(i)

Spec == Init /\ [][Next]_vars

\* The supervisor restarts a process that ended, a process goes on with what
\* it does, an accepted request returns, and time passes.
Fairness ==
    /\ \A w \in Workers : WF_vars(Work(w))
    /\ WF_vars(CancelRunning \/ CancelPending)
    /\ WF_vars(Tick)

FairSpec == Spec /\ Fairness

-----------------------------------------------------------------------------
(* Properties.                                                             *)

TypeOK ==
    /\ rows \in [Slots -> Row \cup {NoRow}]
    /\ tail \in 0..MaxRows
    /\ archive \in [Ids -> Terminal \cup {"none"}]
    /\ runs \in [Ids -> {"none", "unfinished", "completed"}]
    /\ starts \in [Ids -> 0..2]
    /\ pc \in [Workers -> Pcs]
    /\ task \in [Workers -> Ids \cup {NoTask}]
    /\ result \in [Workers -> Terminal \cup {"none"}]
    /\ todo \in [Workers -> SUBSET PoolIds]
    /\ node \in [Workers -> 0..MaxNodeTicks]
    /\ cancel \in [task : Ids \cup {NoTask}, saw : {"none", "pending", "running"}]
    /\ faults \in 0..MaxFaults

\* Everything but the goal-pool posts: an id that is queued once.  A post may be
\* appended by two processes (NoDuplicateIds), and again after it was archived.
Tasks == Ids \ PoolIds

\* Two live processes never execute the same task, whatever is reclaimed,
\* restarted or cancelled around them: leases outlast the longest silence of an
\* executor, and a startup reclaim only takes the rows of its own dead
\* predecessor (branch_tasks.py, reclaim_predecessor_tasks).
OneExecutor ==
    \A v, w \in Workers :
        Executing(v) /\ Executing(w) /\ task[v] = task[w] /\ task[v] \in Tasks => v = w

\* A process that is about to write its result never finds its row given back to
\* the queue (the "Invalid transition" crash of the daemon, 2026-06-25).
SettleFindsNoPendingRow ==
    \A w \in Workers :
        pc[w] = "settle" /\ task[w] \in Tasks /\ Has(task[w]) =>
            rows[First(task[w])].status # "pending"

\* A directly executed branch is started at most once, over any number of
\* crashes, reclaims and repeated claims of its task: its run row decides.
DirectRunsOnce == \A t \in Tasks : starts[t] <= 1

\* The spawn cap counts every task an origin ever had, the collected ones too.
LineageWithinCap ==
    Cardinality({t \in ChildIds : Has(t) \/ archive[t] # "none"}) <= MaxLineage

\* A claim is taken back only from a process that no longer executes it.
NoLiveClaimReclaimed ==
    [][\A i \in Slots :
        /\ IsRunning(i) /\ rows[i].id \in Tasks
        /\ rows'[i] # NoRow /\ rows'[i].status = "pending"
        => ~\E w \in Workers : rows[i].by = w /\ Executing(w) /\ task[w] = rows[i].id]_vars

\* A cancel that was accepted stays with the task, through crashes and reclaims,
\* until the task has its result.
CancelKept ==
    [][\A i \in Slots :
        rows[i] # NoRow /\ rows[i].cancel /\ rows[i].status \notin Terminal =>
            rows'[i] # NoRow /\ rows'[i].cancel]_vars

\* Every task that is queued, or that a dead process left running, gets a result.
EveryTaskSettles ==
    \A i \in Slots : [](rows[i] # NoRow => <>(rows[i] = NoRow \/ rows[i].status \in Terminal))

\* Direct work whose cancel was accepted is never recorded as succeeded
\* (_settle_claimed_direct_branch_task).
CanceledWorkNotAttested ==
    [][\A i \in Slots :
        /\ IsRunning(i) /\ rows[i].cancel /\ PathOf[rows[i].id] = "direct"
        /\ rows'[i] # NoRow
        => rows'[i].status # "succeeded"]_vars

\* The status of an id as its users see it: its row, or else its archived one.
LedgerOf(t) ==
    IF Has(t) THEN IF rows[First(t)].status \in Terminal THEN rows[First(t)].status
                                                       ELSE "open"
    ELSE IF archive[t] # "none" THEN archive[t] ELSE "absent"
Ledger == INSTANCE TaskLedger
            WITH Ids <- Tasks, ledger <- [t \in Tasks |-> LedgerOf(t)]
\* The queue, its archive and its reclaims keep the promise of TaskLedger: no
\* accepted task is lost, between the two files of a collection neither, and the
\* first result wins (mark_status, garbage_collect).
KeepsLedger == Ledger!Spec

\* A task is in the queue at most once, however often a daemon stops between its
\* appends, fails at one or lists the posts again after a restart (dispatcher.py,
\* queue-level idempotency).  It takes one process: two that run the producers at
\* once may both read a queue without the post, and both append it.
NoDuplicateIds == \A i, j \in Held : rows[i].id = rows[j].id => i = j
=============================================================================
