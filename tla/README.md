# TinyAssets in TLA+

Models, TLC runs and TLAPS proofs for TinyAssets, a Python platform where a user owns
*command centers* ("universes") whose daemons work on queued branches, wake on a cadence and
write to the outside world. The reference is the code under `src/`; paths below are relative
to it, and `PROJECT.json` maps every definition to the lines it stands for.

## 1. The system

| Component | Code | State it keeps | Operations | Talks to |
|---|---|---|---|---|
| Branch task queue | `tinyassets/branch_tasks.py` | `branch_tasks.json`, `branch_tasks_archive.json`, one file lock per universe | append (plain, capped), claim, heartbeat, cancel flag, finalize, three reclaims, collection | called by everything below; two files, no journal |
| Dispatcher | `tinyassets/dispatcher.py` | none | producers into the queue; select the best pending task | reads the queue, then calls it again |
| Daemon loop | `fantasy_daemon/__main__.py` | one process per worker slot | startup recovery, pick, execute (stream, direct branch, node bid), heartbeat, finalize | queue, runs store |
| MCP surface | `tinyassets/api/`, `universe_server.py`, `engine_mcp_server.py` | none | submit a request, cancel a task, owner settings | queue, trigger store |
| Control plane | `tinyassets/control_plane/` | SQLite tables `triggers`, `trigger_fires`; the owner lease in the process | owner's message, enable, cadence; tick: settle, decide, claim, wake, finish | runs store, wake handler |
| Assigned queue consumer, automations | `tinyassets/runtime/assigned_queue_consumer.py`, `automations.py` | SQLite tables of rows (wakes, cadences), attempts, leases per agent; in the process: futures, unstopped runs, a liveness lock | poll, overlap policy, lease, claim, run, retry, give up, stop; drives the control-plane tick | control plane, runs |
| Epoch-2 queue | `tinyassets/branch_tasks_v2.py`, `storage/request_admissions.py` | SQLite tasks with leases | claim, heartbeat, cancel, finish, recover, quarantine | daemon loop, authority records |
| Workspace pool | `workspace_pool.py`, `workspace_fs.py`, `effectors/workspace.py` | in the command center's database: locks, leases, a queue of waiters, a release outbox; trees in a scratch pool | queue, admit, give back, owe a release, claim and process entries, sweeps | runs, the file system |
| External write receipts | `storage/external_write_receipts.py`, `effectors/` | reservations and receipts per idempotency key | reserve, finalize, release, reconcile | outside services |
| Real-world handoffs | `handoffs/service.py`, `handoffs/store.py`, `effectors/outbound_boundary.py` | lifecycle rows, confirmations and outcome claims in a second SQLite file | prepare, execute, settle, record evidence, attest | receipts, the adapters of destinations |
| Graph deliveries | `storage/deliveries.py`, `delivery_runtime.py` | deliveries, attempts, an OS lock per attempt | accept, start, finish, recover | runs store |
| Runs, graphs | `runs.py`, `graph_compiler.py`, `node_sandbox.py` | in the root database: run rows, cancels, events | execute, wait, cancel, recover, resume | providers, workspace pool |
| Turn journal, action result outbox, broker, payments, authority, providers, content stores, accounts, clients | see `PROJECT.json` | | | |

How they interact: a user's request becomes a row of the queue; each daemon process reclaims
what dead processes left, lets the producers append, picks, claims, executes and finalizes one
task and exits, and a supervisor starts it again. Several daemons share one queue directory.
In parallel the owner process polls; each poll runs one control-plane tick, which fires a wake
per owed trigger, each of which starts a run. A run whose graph checks out a repository waits
for its turn at the command center's workspace, works in a leased tree, and when it ends owes
an outbox entry that wipes the tree and frees the lock. An effect on the outside world goes
through a receipt keyed by what the effect *is*; a handoff adds a lifecycle row the owner can
read and edit.

**What is hard.** (a) A queue operation is atomic under the file lock, but every caller strings
several together: list and append, select and claim, look at the cancel flag and finalize. (b)
Processes are killed at any point; leases, worker ids and a run row are all that tells an orphan
from a live peer. (c) Two files are written one after the other. (d) A tick decides on a snapshot
while the owner, the clock and possibly a successor move on. (e) A wake may be claimed and never
started, or started and never recorded. (f) A run's end is in one SQLite file and the release of its
workspace in another, and no transaction spans them: sweeps repair what is missing and may repeat
what is not. (g) Requests, a nominator, a sweeper, a recovery and several outbox processors, each a
thread, decide on what they read a moment ago. (h) A call to the outside may land, be refused, or
time out and be either; the receipt that remembers it is in one database, what the owner is told in
another, and a late request settles on what it read before. (i) A delivery is accepted by one
process and executed by another: its lock dies with a process, its attempt does not, and the run it
reserved has a recovery of its own, which must neither lose the intent nor touch a live run. (j) A
deploy has two server processes on one data root: both poll the same automations, and a lease that
expires by the clock must still not admit a second run beside one in flight.

The `hazards` of `PROJECT.json` list these with their lines, and which property covers each.

## 2. Modules

| Module | Models | Depends on |
|---|---|---|
| `TaskLedger` | abstract: what a task queue promises its users | |
| `BranchTaskQueue` | queue, archive, dispatcher, daemon processes, MCP cancel | refines `TaskLedger` |
| `FireLedger` | abstract: what becomes of a due instant of a trigger | |
| `ControlPlaneTriggers` | triggers, fire ledger, cadence, lease, tick | refines `FireLedger` |
| `WorkspaceLedger` | abstract: what the workspace of a command center promises its runs | |
| `WorkspacePool` | workspace lock, leases, waiters, release outbox, and the runs that use them | refines `WorkspaceLedger` |
| `EffectLedger` | abstract: what is known and shown of an effect in the outside world | |
| `HandoffEffects` | a handoff's requests, receipt, lifecycle row, confirmations, outcome claim | refines `EffectLedger` |
| `DeliveryReceipt` | abstract: what the receipt of a delivery promises both parties | |
| `GraphDeliveries` | a delivery's attempt, its lock, its workers, its run, and their recoveries | refines `DeliveryReceipt` |
| `AgentAutomations` | the automations of one agent, their attempts and lease, and the consumers that run them | |
| `MCBranchTaskQueue`, `MCControlPlaneTriggers`, `MCWorkspacePool`, `MCHandoffEffects`, `MCGraphDeliveries`, `MCAgentAutomations` | instances for TLC | EXTEND the above |
| `BranchTaskQueueProofs` | type correctness; lemmas: how a step can change rows and archive; no duplicate ids | |
| `BranchTaskQueueClaims` | the queue implements `TaskLedger`; one executor, settle, live claims, run once | `BranchTaskQueueProofs` |
| `ControlPlaneTriggersProofs` | the cadence; types and the safety properties of the tick; it implements `FireLedger` | |
| `WorkspacePoolProofs` | types, lemmas on the queue and the outbox | |
| `WorkspacePoolSafety` | one start, lock, trees, settled runs, ticket order, the pool's cap; it implements `WorkspaceLedger` | `WorkspacePoolProofs` |
| `HandoffEffectsProofs` | types, and the safety properties of the handoff; it implements `EffectLedger` | |
| `GraphDeliveriesProofs` | types, agreement, live runs; the delivery implements `DeliveryReceipt` | |
| `AgentAutomationsProofs` | types, one run per agent, work runs once, attempts within the maximum | |

### BranchTaskQueue

*State.* `rows` is the queue file as slots in list order (`NoRow` once collected), `archive` the
archive file by id, `runs` the newest run named after an id in `runs.db`. Per process: `pc`,
the task it picked, the status it is about to write, the posts it is about to append, and the
ticks since its last heartbeat. `cancel` is the MCP request between its read and its write.
`starts` counts branch starts and the field `by` of a row names its last claimer: both exist for
the properties only.

*Actions.* Each function of `branch_tasks.py` holds the lock once and is one action:
`AppendRow` (`append_task`), `SpawnChild` (`append_task_capped`), `Claim`, `Heartbeat`,
`CancelRunning` (`request_task_cancel`), `MarkStatus` inside `Settle` and `CancelPending`,
`ReclaimPredecessor`, `StartupSweep`, `PickSweep`, `GarbageCollect`. What lies between two
holds of the lock is two actions, so others come in between: `ProducersRead` /
`ProducerAppends`, `Select` / `Claim`, `CancelRead` / `CancelPending`, `CheckCancel` / `Settle`,
`NoRunFound` / `LaunchBranch`. A process goes `down -> boot -> sweep0 -> gc -> produce ->
append -> sweep -> select -> claim -> (reuse -> launch) -> run -> (check) -> settle -> down`,
following `_run_graph`. `CrashInGarbageCollect` dies between the two file writes;
`StartupFails`, `ProducerSkips` and `CancelCheckFails` are the code's own exception handlers.
An id queued twice is possible (`AppendRow` does not look), and all operations use the first
row, as the code's loops do.

*Data.* Tasks are model values. Which tasks a daemon may take is the constant `Serves`; the
score is a free choice. `PathOf` says whether a claimed task is streamed, executed directly
(`_try_execute_claimed_branch_task`) or is a node bid. Leases count down in ticks; `Tick` lets
an executor be silent for at most `MaxNodeTicks`. `append_task_capped` has no caller but tests
at this commit; it is modelled because the queue promises its caps. A daemon that finds no task
exits here at once (`SelectNothing`); the code first spends an idle cycle or streams its soul
(`fantasy_daemon/__main__.py:2393-2429`), which touches no task.

### ControlPlaneTriggers

*State.* `triggers` and `fires` are the two tables; a run id is represented by the due instant
it was started for, and `last_run_id` by nothing, a claim of an instant or a run of an instant.
`lease` is the owner lease (generation, holder). Per process: `pc`, its incarnation, its
`_settled_generation`, whether a handler is registered for the triggers' kind of wake (`wired`),
the snapshot of its tick (`tick`) and the decision at hand (`fire`).
`runs` is what the runs store shows (a run whose process died stays `orphan` until recovery
closes it) and `calls` counts handler calls for the properties.

*Actions.* Every transaction of `TriggerStore` is one action (`Ensure`, `SetEnabled`,
`SetCadenceOverride`, `NoteEngagement`, `Claim`, `FinishFire`, `Settle`), every other step of
`_consider` is one of its own (`ListTriggers`, `Consider`, `CheckLease`, `Decide`, `Wake`,
`ClaimRefused`), `NoHandler` passes over a row whose kind nobody handles in this process, before
anything is settled or claimed (`scheduler.py:149-152`), and `StoreFails` is the `except` of `tick`.
`RegisterHandler` may come at any time or never (nothing unregisters one): **at this commit no code
outside the tests calls `register_wake_handler`** (`research_turn.py` has the shape of a handler and
is not registered), so that in today's deploy no trigger is settled, claimed or woken, and what is
owed stays owed, as `wake.py:19-21` says. What the runs show beyond that is about a process that
gets one. Due instants are *computed* as `cadence.due_instant` does, decay, active hours, collapse
and idle wait included, over a day of `Day` ticks. `admit` reads the clock again inside the claim,
so `Claim` uses `now` where the decision before it uses the snapshot's moment. `Boot` starts an
owner: under `SingleOwner` (today's `SingleProcessLease`) only when no other runs; otherwise it
takes the lease from a holder that may be in the middle of a tick.

### WorkspacePool

*State.* Of the root database: `status`, `cancels`, and `started` (the run has a checkpoint).
Of the command center's: `lock`, `tickets` in order with their `dispatched` marks, `lease`
(state and run) and `outbox`. `disk` says which of a lease's two names, the tree and its
quarantine, exist. All else belongs to the live process and goes with it: `owned` (rows whose
owner token is alive), `claimed` (`_WAITER_DISPATCHED`), and the threads: `worker`,
`admitting`, `nominator`, `settling`, `releasing`, `sweeping`, `proc`, `mount` (what a run does
with a lease), and `startup`: whether the startup sweep was asked for in this process, runs, or is
over, so that the periodic sweeper is at work. `submits`, `resumed` and `overlooked` exist for the
properties only. The
universe lock and the host slot are taken and freed together, and are one `lock`.

*Actions.* A transaction is one action, and so is a file system call; a thread that reads in
one and writes in another has a variable for what it read. A run goes
`Prepare -> EnqueueWaiter -> ReadTurn -> (ClaimTurn -> TakeTurn)`, or waits for
`NominateRead -> NominateDecide -> NominateDispatch`, then `WorkerStart`, any number of
`Admit`, `Populate`, `GiveBack`, and `WorkerEnd`. Its end is the commit at the root and then
`Release` in the command center's database, which may fail (`ReleaseFails`) or never happen
(`Crash`); `SweepRead`, `SweepWrite` find such a lock through the root's status. A processor
goes `Claim -> LookSrc -> LookQuarantine | ClearQuarantine -> Rename -> Delete -> Finish`,
which is `_reconcile_filesystem` call by call inside `process_entry`; a claim may expire under
it, and the same entry be claimed by another. A look may fail (`Sees`): `exists` answers "absent"
for any `OSError` (`workspace_fs.py:787-804`), and `overlooked` remembers the lease at which that
happened to a name that was there. `RequestCancel`, `SettleDecide`, `SettleWrite`
are a cancel of a waiter. Nothing sweeps a command center because a process started: the first
checkout (`Reconcile`) or the recovery of a waiter that the restart kept (`KeepWaiter`) asks for it.
Then `StartupSweep` takes every claim, `BarrierOpen`
keeps admissions out until entries of an earlier process are done, and `Recover` interrupts
every run of the dead process but the waiters. `Resume` is `resume_run`.

*Data.* A lease reserves the lease cap, so the pool's bound is a number of leases
(`PoolLeases`). Ages and timeouts are free choices: a claim may expire at any time, within
`MaxExpiries`. A run ends as `done` (completed or failed) or `cancelled`.

### HandoffEffects

*State.* `receipt` is the row of the effect in `external_write_receipts` (its status, whether it
is old enough to be called stale, and the destination's word kept in it). `handoff`, `outcome`
and `token` are the lifecycle row, the outcome claim and the confirmations of the handoff
store. Per request in `service.execute`: `pc`, the token it spent, whether its call has reached
the destination, the lifecycle state it is about to settle on and the one it read, and what it
answered. `irreversible` is the declared effect class. `calls`, `refused`, `landed`, `misread`
and `used` exist for the properties only (and `misread` for the bound on its own events).

*Actions.* One transaction or one event of the outside call each. A request goes `Start` (spend
the confirmation), `Record` (find or insert the lifecycle row), `Reserve` (insert the receipt
or classify what is there; over a failed one `Retry` updates it with a compare on the status),
then waits in `calling` while the call may `Arrive`, until the adapter answers: `Return`,
`Refuse` or `TimeOut`. A time-out goes through `Hold`, as does a reservation that finds a stale
pending row. `Settle` reads the lifecycle row and `Advance` writes it if it is still the one
read; an accepted effect then makes its outcome claim (`Claim`). A request that finds another
in flight ends in `Share`. Around them: `Age` (a pending row gets stale, with its call still
out or lost), `Die` (the process stops between any two steps), and the owner's `Prepare`,
`Expire`, `Downgrade` and `Attest`.

*Data.* Every table is keyed by the effect's identity, so one identity is modelled; the run id is
part of it, so the run guards of the receipt store are always met. Every exception out of
`invoke()` but `AmbiguousEffectOutcome` is recorded as a refusal, whether the call has landed or
not: an adapter may break its contract, and the repository's own code behind it
(`HandoffResult.__post_init__`, the rest of `_invoke`) may raise on a reply that came back. So
`Refuse` has no guard on what happened outside; `misread` counts the calls it gets wrong. A call
lands while its request waits for it, or never: one that lands after its time-out or death is,
for every property, one that landed just before. A returned result carries any reply, a rejection
if and only if nothing landed. Handoffs pass no reconciler, so a held receipt stays held.

### GraphDeliveries

*State.* `attempt` is the state of the row in `graph_delivery_attempts`, `status`, `owner` and
`cancel` are the reserved run's row and its entry in `run_cancels`, `lock` is the operating
system's lock on the attempt's file. `proc` says which processes live and `server` which of them
holds the recovery lock. Per process, `pc` is the place of its worker: `_submitted` admits one
per attempt. `begun` counts invocations of the graph, for the properties.

*Actions.* A worker goes `Dispatch -> TryLock -> ReconcileAttempt -> Start -> Prepare -> Begin ->
Invoke -> Complete -> Close -> Finish`, which is `_work` with what it calls; each transaction is
an action, so a process may `Die` between any two. `ReconcileAttempt`, `Start` and `Recheck` share
`RecoverAttempt`, which is `recover_attempt_in_transaction`. A run ends in one of four ways
(`Complete`, `StopCancelled`, `Fail`, `StopWaiting`). What raises goes to `Abort`, whose own
write may fail, and then to the finally clause: `Finish` under a claim, `Recheck` without one.
Around them: `Accept` and its `Replay`, `Reconcile` (boot, and every five minutes), `Cancel`,
`Recover` (the runs of dead owners, at boot and every 15 seconds), `Boot`.

*Data.* One delivery with one attempt, since nothing in the code makes a second attempt and
deliveries share no state. What is checked before the acceptance (link, consent, rate limit,
files) only decides whether there is one. The receiver's authority at the start is a refusal
that may come at any time (`StartFails`). An owner token names one incarnation of a process, and
a process that died has released its liveness lock, as the kernel guarantees; the runs of
`GraphDeliveries` have no managed family, for nothing at this commit makes the managed runtime
ready. `resume_run` is left out: its caller must be the actor of the run, here
`universe:<id>`, which no served caller is. `Recover` is done by a server that holds the recovery
lock; an engine child that finds the lock free may do the same at its first run tool
(`api/runs.py:433-470`), and is not modelled there.

### AgentAutomations

*State.* `state` and `last` are the rows of `automations` (desired state or retired, the interval
rows' `last_due_at`), `fence` the instants claimed in `automation_attempts`, `claimed` when each
wake's latest attempt was claimed, `lease` the agent's row of `universe_leases` with its holder,
whether it is unexpired (`fresh`), and the run on record. Per consumer, that is per boot of a
server process: `proc`, `poll` (the coordinator between what a pass has read and what it writes),
`task` (the executor thread of the agent) and `unstopped`. `runs` are the runs the automations
started: `by` is the process that launched it and `on` the one whose pool works it, `waited` says
that it had to queue for the workspace, `told` that it was announced, which is when a wake is
retired and `stop()` knows of the run.

*Actions.* `Poll` is a pass of the coordinator up to its first write: it gives back the lease of an
unstopped run that has ended, reads what is due, and either submits the longest-owed row or keeps
the rows whose overlap policy has something to do: `Skip` and `CloseSkipped` (two transactions),
`CancelPrevious`. The executor thread goes `Acquire -> ClaimAttempt -> Launch -> Announce -> Await
-> (PauseIfHopeless) -> SpendWake -> ReleaseLease`, which is `_run_automations` around
`_run_due_automation`; the exits are `TurnBack` (paused, or no seat), `GiveUp`, `CloseStale`,
`Refuse` with `PauseRefused`, `FailEarly`, and `TimeOut` with `CloseTimedOut`, which keeps the lease
when the run ignores its cancel. A launch may end with the run queued for the workspace, which has
no future: `Await` then closes the attempt at once and the lease is given back, and `StartWaiting`
is any server that takes the run up when its turn has come, without the lease. Around them: `Boot`,
`Stop` and `StopEnds` (the liveness lock is let go only if nothing can still run), `Exit`, `Die`,
`Lapse` and `Refresh` of the lease, `OwnerEdits`, `RunEnds`, `Tick`.

*Data.* All rows share one agent, since the lease and the overlap rule are per agent and agents
share nothing else but slots. Instants are numbers; a cadence counts from instant 0. Whether a
failed run pauses its row (authority lost, a failure that repeats, `MAX_CONSECUTIVE_FAILURES`) is a
free choice. A run ends with the process that works it; one that waits outlives every process. Whose
turn it is in the queue is `WorkspacePool`'s matter, and any time here. A failure of `_retire_once`
or of `finish_attempt` itself, which the code logs and goes on from (`automations.py:2514-2517`), is
left out.

## 3. Runs

All with two TLC workers; `PROJECT.json` holds one mutant of the code per property of a passing
run, and TLC finds the property violated on it.

| Run | Question | Checks |
|---|---|---|
| `queue` | Do two daemons stay out of each other's way? | `OneExecutor`, `SettleFindsNoPendingRow`, `DirectRunsOnce`, `NoLiveClaimReclaimed`, `CancelKept`, `KeepsLedger` |
| `queue_recovery` | Does everything get a result, within the cap, each id once? | `LineageWithinCap`, `NoDuplicateIds`, `EveryTaskSettles` |
| `triggers` | Does a single owner with a handler fire what it owes, one run at a time? | `SingleFlight`, `ClaimsAreSettled`, `OwedFires` |
| `triggers_handover` | Do the fences hold when owners overlap? | `HandlerOncePerDue`, `ClaimsOnlyWhenWanted`, `OneFirePerWindow`, `KeepsFireLedger` |
| `pool_queue` | Does one run at a time work in the workspace, in order? | `HolderKeepsLock`, `MountedIntact`, `StartedOnce`, `ServedInOrder`, `SettledStays` |
| `pool_waiters` | Does every waiter get its turn, and all that is held come back? | `WaitersAreAnswered`, `WorkspaceComesBack` |
| `pool_outbox` | Do processors that overtake one another agree with the disk? | `AvailableIsGone`, `KeepsWorkspaceLedger` |
| `handoff` | Does an effect happen once, and do both databases say so? | `EffectOnce`, `ClaimsAreBacked`, `CalledAgainOnlyAfterRefusal`, `KeepsEffectLedger`, `TerminalStays`, `OutcomeStays`, `ConfirmedAnew` |
| `delivery` | Is a delivery executed once, told the same to both sides, and settled? | `ReceiptAgrees`, `LiveRunStays`, `PromiseKept`, `DeliverySettles` |
| `agents` | Does an agent run one thing at a time, each thing once, and every wake? | `OneRunPerAgent`, `WorkRunsOnce`, `AttemptsWithinMax`, `WakeSettles` |
| `queue_cancel_race` | *violated*: `CanceledWorkNotAttested` | a cancel between the last look and the write |
| `delivery_watcher` | *violated*: `IntentSurvives` | a survived intent under the watcher of dead owners |

The two violations are disagreements between the code and what its comments say; `findings`
quotes both. Neither breaks a property of a passing run. `queue_cancel_race` is a narrow race;
`delivery_watcher` needs a tick of the watcher in the moment between the claim of a survived
attempt and the start of its graph. The type invariants are no part of the runs, since all of them
are proved (section 5).

More facts met while modelling are kept out of the properties on purpose. A stop signal in the
middle of a stream breaks its loop without a failure reason (`fantasy_daemon/__main__.py:2431`), so
the half-done task is recorded as succeeded (`:2541`) although the comment at `:2501` speaks of a
stream that completed cleanly. A run resumed by
`resume_run` may lose its lock to the release owed for its first life; the verb is dispatched
(`api/runs.py`) but not advertised to clients, so `Resume` is modelled and the properties of the
pool exempt resumed runs. An adapter that *returns* `HandoffResult(state="rejected")` instead of
raising leaves the handoff submitted (`handoffs/service.py:569`). A call that landed and then
raised is recorded as `destination_rejected`, under a comment that says that nothing reached the
world (`outbound_boundary.py:437`); its handoff is shown as rejected, and a repeated request may
make the effect a second time: `landed = 2` with `misread = 1` in the model. A delivery whose run was
cancelled while it waited is still claimed, since `recover_attempt_in_transaction` looks at the
status alone (`storage/deliveries.py:427`); nothing runs, but its receipt says failed, not cancelled.

Of the pool: (a) a look at the disk that fails counts as "absent" (`workspace_fs.py:793-802`), so a
lease may be reported AVAILABLE, its bytes no longer counted, with its tree on the disk.
`AvailableIsGone` and the ledger leave out those leases (`overlooked`), and no others. (b) After a
restart nobody sweeps a command center until a checkout or a kept waiter asks for it: a run that
committed its end and died before its release was owed keeps the workspace until then. And a waiter
that queues behind it before the first checkout of the process has no one to nominate it, since
`_admit_workspace_waiter` (`runs.py:711-761`) starts no sweep, while
`openspec/changes/durable-workspace-wait/design.md:62-64` has nominations come with every periodic
sweep. `WorkspaceComesBack` and `WaitersAreAnswered` speak of processes in which it was asked for.

Of the automations: (a) between two processes `cancel_previous` can cancel the very occurrence it
belongs to, because "already claimed" is read before the other process claims
(`assigned_queue_consumer.py:686-691`). (b) An executor whose scan is stale may claim an older
instant of a cadence than the last one served, and `last_due_at` then goes back. (c) Three
failed attempts pause a wake (`MAX_CONSECUTIVE_FAILURES`) before it has had its five
(`MAX_ONCE_ATTEMPTS`). (d) A run noted after the sweep of `stop()` is not cancelled by it. (e) An
admission refused with a run id spends the wake, while `_once_due` says that a refused admission
is retried (`automations.py:1697`, `:2133`). (f) A run that is queued for the workspace has no
future yet: `wait_for` returns at once (`runs.py:5734`), the attempt is recorded
`run_failed:queued` and the lease given back, while `_execute` says that the slot stays held
(`automations.py:2082-2084`). The run starts later, without the lease, beside whatever the agent
runs by then: two runs of one agent. `OneRunPerAgent` is stated for runs that had not to wait; for
all runs TLC finds it violated. (g) A cadence whose instant a dead process had claimed and not closed
stays the longest-owed row and takes the agent's turn in every poll, until its next instant; the
comment at `assigned_queue_consumer.py:605` says that the order starves no wake.

**Bounds of the queue.** `queue` has two processes, two faults (crash, failed access) and one
slot, which holds a request (direct), a spawn (stream), a legacy row (bid) or a goal-pool post.
One slot suffices for its properties because they speak of one task: the claim, the
lease, the flag, the run and the archive entry of another task are untouched by an operation
on this one. The theorems of section 5 confirm it for any number of slots, processes and
faults. The lease is two ticks, a heartbeat gap at most one. The post
competes with the tasks for the processes and may come back after its row was archived, but
the properties are about tasks (`Tasks`): two daemons may both queue a post (hazard at
`dispatcher.py:346`), and then "one result" would be about two rows. `queue_recovery` has
two slots, two spawns under a cap of one, a post, a leaseless row and one process *without* a
worker id, so that recovery depends on leases alone; its lease is one tick that does not lapse
under the running process, the only one there. It is restarted anywhere between the reading of the
posts and the appends, which is where `NoDuplicateIds` could fail with one producer.

**Bounds of the control plane.** One trigger (triggers share only the settlement, which is per
claim), a day of four ticks with one closed, a clock of four ticks (`Horizon`) in `triggers` and of
three in `triggers_handover`, two process starts, one crash, one owner edit, one failed access. A
process starts without a handler and may get one at any time. The default policy has periods 2, 3, 4
and decays after 3 and 9 ticks, the override has other periods, hours and idle wait, so that
collapse, decay and a change of policy between decision and claim all occur; two fires fit in
the horizon. The recursion of the cadence is a recursive function; `DueInstantIsOwed` says
what it computes for every policy and instant. `CHECK_DEADLOCK FALSE`
in these runs because the bounded clock and counters can all be spent.

**Bounds of the pool.** `pool_queue` has two runs that both queue and may both be cancelled, two
leases over a pool of one (so that the second admission needs the first wipe, or is given back and
admitted again), one processor and a restart; runs are interchangeable, and so are leases, hence the
symmetry. It is the run about who is served when, so calls do not fail and claims do not expire in
it. `pool_outbox` is about processors: one run, two leases, two processors, a restart, two claims
that expire under a live processor and one failure (of a look, a removal or a release write); the
second expiry lets the first processor overtake back. The refinement is checked there, where the
lease, the disk and the lock come apart; that it holds for more runs and for resumes is the theorem
`KeepsWorkspaceLedgerHolds`. `pool_waiters` checks liveness, without symmetry: a waiter that may be
resumed behind a run that does not queue, a restart, one failure, and a startup sweep that has or
has not been asked for when they come. Only a run that does not queue can be in front of a waiter
without a ticket, so two runs show both ways to be in line. The theorems of section 5 hold for any
numbers of all these. `CHECK_DEADLOCK FALSE`, since every run may have ended.

**Bounds of the handoff.** Three requests for one effect: one that calls, one that finds its row
stale and holds it, one that retries or settles in between. Four executions and three
confirmations (each executes an irreversible effect once; four executions are had without), two
deaths, one call that lands and raises, both effect classes. Requests are alike and so
are confirmations: no action tells them apart, hence the symmetry. The theorems hold for any
numbers. `CHECK_DEADLOCK FALSE`, since all executions may be spent. The run states no
liveness: without a reconciler a held receipt and a lost call wait for a person.

**Bounds of the delivery.** Three servers, one after another, and two engine children, so that
three workers may meet at one attempt; two deaths, so that acceptance and a recovery may both be
cut short and a server is left to settle the delivery; two failures, so that a failed write may
hit the handler of another failure. No symmetry, for the sake of liveness. `delivery_watcher`
needs one server, a child and a death, and no failure at all. The theorems hold for any
numbers. `CHECK_DEADLOCK FALSE`, since the delivery may be settled and retried by nobody.

**Bounds of the agents.** Two consumers, so that one may die, be stopped or be late while the other
polls; one wake, which cancels what runs, and one cadence of period 2, which skips, so that each
policy meets the other row's run; two attempts a retry step apart within a clock of two ticks, so
that a wake may be retried, used up, and be due beside the cadence; one upset (a death, a stop, a
refusal, a late refresh, a timeout, a run that has to wait for the workspace or an owner's edit).
The safety properties have also been checked with two upsets (6.4 million states), and the theorems
hold for any numbers of rows, consumers and upsets. No symmetry, for the sake of liveness.
`CHECK_DEADLOCK FALSE`, since the clock and the upsets may be spent.

**Fairness.** Queue: weak fairness of each process (the supervisor restarts a daemon that ended, and
a running daemon proceeds), of an accepted MCP request, and of time. No fairness of crashes,
cancels, appends or of ageing, and none that forces a result other than by finishing the work: a
task may fail. Control plane: weak fairness of each owner's tick (the consumer polls), of starting a
crashed owner again, of the end of runs (the runs store's own recovery closes orphans) and of the
clock; none of the registration of a handler. `OwedFires` and `ClaimsAreSettled` exempt processes
without a handler (`Unhandled`), where nothing is settled or claimed, and behaviours with a failed
access: an outcome that cannot be written bars its trigger until the process restarts, by design of
the barrier (`claim_fire`), and a settlement is tried once per generation. Pool: weak fairness of
what a thread of the live process has begun (a request, a worker, a nomination, a sweep), of the
recovery at startup, which also asks for the startup sweep when it keeps a waiter
(`runs.py:6840-6841`), and of the end of a run once it has started. New passes of the sweep and of
the nomination are counted on only while the periodic sweeper is at work (`SweeperRuns`), and those
of a processor only once the startup sweep was asked for; the single pass that follows a release
(`_kick_workspace_sweep`) may come and is not counted on. None of admissions, cancels, resumes,
failures or crashes. Delivery: weak fairness of each worker (executor threads run, and nodes time
out, so that a graph ends), of the reconciler's loop and of a server's start; none of retries,
cancels, the watcher, failures or deaths. Agents: weak fairness of the clock, of each process's
start and end, of its coordinator, its executor and its refresher, and of the end of a run that was
asked to stop; none of a run that was not asked, since nothing bounds it, and none of any upset. A
wake that waits behind a run without end is no exception all the same: in the instance it cancels
what runs.

## 4. Properties worth a word

- `OneExecutor` is the 2026-06-25 incident the code's comments refer to: a restart must not
  take a live peer's task. It depends on three mechanisms at once: leases longer than a node,
  the startup reclaim scoped to the own worker id, and claims only of pending rows.
- `DirectRunsOnce` relates the queue to the runs store: a reclaimed task is claimed again, but
  its run row, written before any node, keeps the branch from running again.
- `KeepsLedger` is refinement: `TaskLedger` with an id's status read from its first row or,
  without one, from the archive. It covers first-writer-wins and the two-file collection.
- `KeepsFireLedger` is refinement: `FireLedger` with a due instant's fate read from its fire row,
  and the calls and runs counted. It relates a successor that settles a claim as lost to the old
  owner who still holds it: the first fate stays, and one that says "started" tells of a run. That
  a lost claim's handler may still be called, once, is in the abstract ledger on purpose: the code
  does not prevent it.
- `LineageWithinCap` counts rows and archive, also between the two writes of a collection.
- `ClaimsOnlyWhenWanted` speaks of the trigger *now*, while the tick decided on a snapshot:
  only the revision compare-and-set and the clock read under the lock make it true.
- `OneFirePerWindow` compares a new fire with every earlier one of the trigger, across
  changes of period, anchor and override.
- `SingleFlight` holds for one owner at a time; with overlapping owners a successor settles a
  claim that is still in flight, and starts another.
- `NoDuplicateIds` depends on the producers reading the posts again after every restart: what
  was appended before a crash must not be appended from a list read before it.

- `HolderKeepsLock` and `MountedIntact` relate four parties: an entry names the run it
  releases, a sweep may owe the same release again, a processor may sit on either entry for as
  long as it likes, and the run that works now may be the next one. What saves them is that a
  release is owed only for a run that has ended, and frees that run's lock only. The resume is
  the exception, since then the run has ended and works: the properties leave it out (section 3).
- `AvailableIsGone` is about two processors on one entry: each looks at two names and then
  acts; a rename that finds its source moved must end as LOST, never as wiped. That a look may
  itself fail, and then says "absent", is fact (a) of the pool: the property is about all other
  leases, whose trees only an honest look, a rename or a removal has accounted for.
- `KeepsWorkspaceLedger` is refinement: `WorkspaceLedger` with the state of a run read from its row
  at the root, the state of a lease from its row and from who works in it, and its tree from the
  disk. It joins what the invariants say one by one over two databases and a disk: the workspace is
  one run's from its first lease until that run has ended, the tree it works in stays, a lease is
  reported gone only when it is or when a look at it has failed (`Overlook`), and what was not
  reported gone counts against the pool. A resumed run is promised nothing (section 3): its leases
  leave the ledger.
- `StartedOnce` and `ServedInOrder` relate two threads, a per-process set and two tables, over
  restarts: nothing in the database keeps a queued run from being handed out twice.
- `WorkspaceComesBack` is the incident of 2026-09-01 that `_workspace_sweep_once` describes: a
  lock held for a day by a run that had failed. It is a promise of a process in which somebody has
  asked for the startup sweep, and that does not stop before it is kept; who comes first to a
  restarted process does ask, but nobody has to come (fact (b) of the pool).
- `OwedFires` and `ClaimsAreSettled` are promises of an owner that has a handler for the wake. That
  a row without one stays owed is the code's intention (`wake.py:19-21`); that today no row has one
  is a matter of what is wired up, not of the scheduler.
- `EffectOnce` and `CalledAgainOnlyAfterRefusal` are the promise of the receipts. They depend on
  the insert and on the compare in the retry, and on nothing that happens in time: a row that is
  stale, a call nobody heard of and a request that died must all leave the row shut, while a
  recorded refusal opens it for one request only. What they cannot promise is that a recorded
  refusal was one: an effect lands once for every call that raised after landing, and once more.
  With adapters and replies that never raise behind a landing (`misread = 0`) that is at most once.
- `ClaimsAreBacked` relates two databases without a common transaction: the lifecycle row may
  lag behind the receipt, never run ahead of it, whatever request settles it last.
- `KeepsEffectLedger` is refinement: `EffectLedger` with what is known of the effect read from the
  receipt, and what is shown from the lifecycle row. `finalize_receipt` does not look at the
  status, so it is the single caller and the guard of the hold that keep a known reply from being
  overwritten by a hold decided before it; a late success replaces a hold, which is why a held and
  a pending receipt are the same to the abstract ledger.
- `TerminalStays`: a request may read `submitted`, the owner cancel or downgrade, the request
  write; only the compare on the state keeps the owner's word.

- `PromiseKept` is refinement: `DeliveryReceipt` with the receipt read from the attempt as
  `_receipt` does. It depends on the lock from the first look to the last write, and on the claim
  being committed before the provider is touched: what a dead worker left executing is settled as
  interrupted, never taken up.
- `LiveRunStays` is about two recoveries that know different things: the watcher knows owners
  and no lock, a worker the lock and no owners. The row of a live execution names its process,
  and the lock keeps every other worker away.
- `ReceiptAgrees`: the attempt is settled from the run or the run from the attempt, in one
  transaction, after anything may have failed before it.
- `DeliverySettles` rests on the reconciler alone: a worker may be lost with its process, a
  transaction may fail and end it, and a retry need not come.

- `OneRunPerAgent` is the sentence of `automation_lease_key`: a branch "never overlaps itself",
  kept for the runs that start when they are launched; those that had to wait for the workspace
  break it (fact (f) of section 3), and the property leaves them out by name (`waited`). It
  relates runs to processes, not to the clock: an expired lease still bars others as long as its
  holder's liveness lock is held, so what matters is who lets go of that lock, and when; a
  timed-out run must keep the lease after its thread is gone, and a stopped process its lock.
- `WorkRunsOnce` depends on the claim for one instant, and for a wake on three writes in a row: the
  attempt, the run, the retirement. A wake is due again under a new key after every claim, so what
  keeps it from running again is that the lease of a live process bars everyone else until the
  wake is spent. The exception, a process killed between the run and the retirement, is real.
- `AttemptsWithinMax`: the count is read at the scan, before the lease; the claim does not count. It
  is the key of the attempt, derived from the same scan, that makes a stale count harmless.
- `WakeSettles`: whatever dies or is refused, the wake is delivered, given up or paused. The
  exception `TurnLost` is fact (g) of section 3.

## 5. Proofs

Checked by `tlapm` to the last leaf, no axioms. `IdsAssumption`, `BoundsAssumption`,
`WorkersAssumption`, `NoRowAssumption`, `ControlPlaneAssumption`, `WorkspaceAssumption`,
`HandoffAssumption`, `DeliveryAssumption` and `AutomationAssumption` are the assumptions on
constants; TLC evaluates each in the runs. The recursive cadence function is no exception: what it
yields is proved from its definition.

| Theorem | Module | Under |
|---|---|---|
| `TypeCorrect`, `CancelKeptHolds`, `LineageHolds` | `BranchTaskQueueProofs` | nothing further |
| `NoDuplicateIdsHolds` | `BranchTaskQueueProofs` | `NoPool` or `OneProcess` |
| `QueueKeepsLedger` | `BranchTaskQueueClaims` | nothing further |
| `OneExecutorHolds`, `SettleHolds`, `LiveClaimsStay`, `DirectRunsOnceHolds` | `BranchTaskQueueClaims` | `Deployment` |
| `DueInstantIsOwed`, `TypeCorrect`, `HandlerOnceHolds`, `OutcomeIsFinalHolds`, `ClaimsWantedHolds`, `OneFirePerWindowHolds`, `KeepsFireLedgerHolds` | `ControlPlaneTriggersProofs` | nothing further |
| `SingleFlightHolds` | `ControlPlaneTriggersProofs` | `SingleOwner` |
| `TypeCorrect`, `StartedOnceHolds`, `HolderKeepsLockHolds`, `MountedIntactHolds`, `AvailableIsGoneHolds`, `SettledStaysHolds`, `ServedInOrderHolds`, `PoolNotOversubscribedHolds`, `KeepsWorkspaceLedgerHolds` | `WorkspacePoolSafety` | nothing further |
| `TypeCorrect`, `ReceiptAgreesHolds`, `LiveRunStaysHolds`, `PromiseKeptHolds` | `GraphDeliveriesProofs` | nothing further |
| `TypeCorrect`, `EffectOnceHolds`, `ClaimsAreBackedHolds`, `CalledAgainHolds`, `SuccessIsFinalHolds`, `TerminalStaysHolds`, `OutcomeStaysHolds`, `ConfirmedAnewHolds`, `KeepsEffectLedgerHolds` | `HandoffEffectsProofs` | nothing further |
| `TypeCorrect`, `OneRunPerAgentHolds`, `WorkRunsOnceHolds`, `AttemptsWithinMaxHolds` | `AgentAutomationsProofs` | nothing further |

`NoPool` says that no goal-pool posts exist, `OneProcess` that the queue has one daemon process:
two may both append a post (hazard at `dispatcher.py:346`). `Deployment` is
`UniqueWorkerIds` (a worker id other than the shared `cloud-droplet` belongs to one slot:
`branch_tasks.py:612`, `:629-633`) with `NodesFitLease` (`MaxNodeTicks < LeaseTicks`:
`branch_tasks.py:39-44`). Without either, `OneExecutor` fails, as the mutants show.
`SingleOwner` says that a process starts only where no other is on (`SingleProcessLease`);
under a handover `SingleFlight` fails, as section 4 says.

*Queue, shapes.* `BranchTaskQueueProofs` proves `TypeOK` together with `Ready` (what each `pc`
implies about the other worker variables). It also proves once that the ids of tasks stay unique,
that the archive only grows, and that each action changes the rows in one of a few shapes; the later
modules argue about shapes instead of thirty actions. An append of a post, which may repeat an id,
is a shape of its own. `CancelKept` then needs only that an append takes a slot nobody has written
(`FreshTail`), so that the shapes that rewrite rows are the ones to look at. For `LineageWithinCap`
the invariant is that the origin's children, queued or archived (`Family`), are a finite set within
the cap: a collection writes the archive before it drops the row and so takes none out, and only the
capped append, which counts first, adds one. `NoDuplicateIds` speaks of posts too, and is inductive
with `TodoIsNew`: what the one process is about to append is in no row, since nobody else appends
posts and a restarted process reads the queue again before it does.

*The abstract ledgers.* Each refinement is proved the same way: initial states map to initial
states, and every step, under the inductive invariant, to an abstract step or a stutter. In the
queue every shape maps to `Accept`, `Resolve` or a stutter; the collection is the delicate one:
archive entry and last row of an id agree, which is why the ledger is about tasks, whose ids are
unique, and not about posts.

*Claims.* The inductive invariant says that each process executing a task is *backed* by a row
that is running, was claimed last by it under its daemon and worker id, has a lease, and that
this lease plus the ticks since its last heartbeat is at least `LeaseTicks`. Then no sweep can
find it expired, no other process's startup reclaim can match it, no other process can claim
it: that gives the first three theorems. `DirectRunsOnce` adds that a started branch has a run row
and that only the one process in `launch` for an id has not written it yet.

*Triggers.* `TypeInv` is `TypeOK` with what each `pc` implies. `CallInv` says that a process
between claim and finish holds a fire row that is not unclaimed, that no two processes hold the
same one, and that a due instant whose fire row is unclaimed has had no call; the claim's
insert (`FenceHolds`) makes the holder unique, across generations and crashes. `SnapInv` says
that a listed row is an earlier state of the trigger (`RowMoves`: enrolled once, and changed
under the same revision in its last run only), so the revision fence makes the row that is
claimed the row that was decided on, which gives `ClaimsOnlyWhenWanted`. `LastInv` adds that
the ledger has no fire later than `lastDue`, hence a claim, which is a period after `lastDue`,
is a period after all. `FlightInv`, for one owner: a live run is the last run its row shows and
its process is on; the last run that was listed is still there, or was a claim that has been
settled; what a tick considered had ended; between claim and finish the trigger's row shows
that claim and nothing runs. For the fire ledger, `AnswerInv` adds that an answer, written or about
to be, is that of a call that was made, and "started" that of one that began a run: `Claim`,
`Wake`, `FinishFire` and `Settle` then map to the ledger's four actions, a wake that raises or
declines to a call that begins nothing. All of them need to know when the cadence is due
(`DueInstantIsOwed`); what its walk over the active hours yields is proved by the least distance to
the present at which it could go wrong, since nothing is left to walk at distance zero.

*Pool.* The invariant `IInv` has eight parts. `Starts` ties the threads that may start a run to
the claim: a thread about to hand it out holds the claim, no other does, and no worker has it.
`Owed`: only a run that has ended, or was resumed, is owed the release of its lock; `Mounts`:
a mounted lease is an executing run's, which holds the lock, and an executing run has not
ended, so no owed entry is its own. `Wiped`: an entry's lease is in nobody's hands. `Hands`
says what a processor's place in the program still tells about the disk whoever else has been
at it since (the tree's name never comes back once it is gone, because a lease is filled
once); `Trees` says what a lease's state tells about the disk. None is inductive alone: `Trees`
needs `Hands` at `Finish`, `Hands` needs `Wiped`, which needs `Mounts`, which needs `Owed`.
`ServedInOrderHolds` and `PoolNotOversubscribedHolds` add `Turns` (tickets are distinct; a run a
thread has seen at the head stays first while it has its ticket, since tickets are appended behind
and removed) and `Pooled` (what has a tree, or may get one, is within the cap: it is a subset of
what `PoolReserved` counts, and only `Admit` adds to it). The refinement adds `Granted` (who is
"resumed" was resumed; a lease is in use only while it is ACTIVE). The end of a run, by its
worker, a cancel, a failed nomination or recovery, maps to `End`, which leaves what the run used;
`GiveBack` and `Crash` to `Leave`; the calls of a processor to `Wipe`, allowed because an entry's
lease is in nobody's hands (`Wiped`); `Finish` to `Account`, where `Hands` says that what is
reported gone is, and `Owed` that the lock it frees is that of a run that has ended. `Trees`, `Hands`
and `Pooled` speak of the leases that no look has overlooked; a failed look at a name that is there
maps to `Overlook`, which is possible only where nobody works in the lease, again by `Wiped`.

*Handoff.* `EffectOnce` is not inductive: it needs to know who may still call. The invariant has
four parts beside the types. `OneCaller`: at most one request is in `calling`, and then the receipt
is pending or held. `Counted`: what the receipt says about the calls so far; no row means none, a
failed one that all were refused and what landed was misread, any other that all but the last were
refused; so a new call is possible only where every landing was misread. `Backed`: a request that
settles on a success has read it in the receipt, which is final. `Confirmed`: a confirmation on its
way to a call is spent, by one request, and has authorised nothing yet. Every action is first shown
to be of one of a few kinds (it leaves receipt and callers alone, puts a request to wait, begins a
call, lets it arrive, or answers it), and the four parts are proved per kind. For the effect ledger
the same kinds map to `Begin`, `Land`, `Refuse` or `Learn` and the writes of the lifecycle row and
the claim to `Show` and `Claim`; that a shown success is known is `Backed`, that a call lands before
it is answered otherwise than by a rejection is `Counted`.

*Delivery.* `Exclusive`: who is at a held place has the lock, so nobody else is. `Living`:
workers, and the server that dispatches, are alive, hence a run whose owner is at work is not
the watcher's. `Placed`: what a place tells about attempt, run and execution; from `check` on the
attempt is pending, from `prepare` on executing, and an executing graph's run is running and
names its process. `Story`: what attempt, run and execution tell about each other when nobody is
there, after a death for instance; a pending attempt was never begun and its run is queued,
interrupted or failed, a completed run was begun. Neither of the properties is inductive without
them. Refinement: a recovery maps to `Refuse`, `Settle` or a stutter (`RecoveredReceipt`), a start
to `Execute`, an invocation to `Begin`, a finish to `Settle` or a stutter, all else to a stutter.

*Automations.* The invariant has four parts. `Typed`: the types, and what a place of a thread tells
about the row and the run it names. `Guarded`: a thread past `Acquire`, and an unstopped run, hold
the agent's lease (`Mine`), and every live run that had not to wait for the workspace (`Prompt`) is
worked by a process that holds it (`Worker`); the lease changes hands only when its holder is gone,
which takes its runs along. That gives `OneRunPerAgent`. `Fenced`: every run answers to a claim of
its own instant, a wake whose run was announced is retired, and the process of a run that was not is
gone or still about to announce it; so a second run of a wake finds the first one's process gone.
`Counted`: what a thread or a pass has in hand of a wake is either an instant already claimed or the
next attempt of that count (`NextAttempt`, since a key is later than every earlier claim), so a
claim with a stale count fails. Each is proved per action, most of them through a lemma on the
variables that change.

**Only model-checked**: liveness (`EveryTaskSettles`, `ClaimsAreSettled`, `OwedFires`,
`WaitersAreAnswered`, `WorkspaceComesBack`, `DeliverySettles`, `WakeSettles`), which under fairness
is out of the prover's reach. Every other property of the passing runs is a theorem.

## 6. Not modelled

Inside the modelled components: `mark_task_progress`, `recover_claimed_tasks` and
`_guarded_reclaim` (no caller), corrupt JSON, the epoch-2 branches of the daemon, heartbeats
that fail to be written and nodes longer than a lease (hazards), pause and dashboard; deletion
of an account's triggers, counters and metrics, the lease proof, time zones and
daylight-saving folds; permanent (universe) generations with their quota, the byte ledger
below the lease cap, budget families, locks whose run no database knows (released after an
hour), an admission that fails to write its ticket, several processes on one data root,
staging, git and push intents; of the handoffs, authority and consent checks (a refusal there
comes before the first write), dry runs, the transition journal, verification levels and
artifact attribution; of the receipts, their other users (capped actions with two-person holds,
wiki write-back, batches), reconcilers, identity aliases with dual keys, release and deletion; of
the deliveries, files that travel with them, links, consent and rate limits, the release of a
workspace and the terminal event that a settled run owes, and a run that recovery keeps queued
because it waits for a workspace; of the automations, cron rows and their zones, events that store
wakes, registration, the seats of an account, the legacy lease of a whole universe, a consumer
that could not take its liveness lock, fair share among universes, the count of failures, a failing
`finish_attempt` or `_retire_once`, and the order in which runs that wait for the workspace are
started.

The other components are listed in `PROJECT.json` with their reason: mostly I/O, formatting, data
validation or single-row transactions without concurrency. The action result outbox has no caller at
this commit. The epoch-2 queue is dormant: the consumer stopped claiming from it
(`assigned_queue_consumer.py:384-391`) and nothing live publishes its descriptor. The repository is
large (clients, packaging with a generated copy of the package, content stores, providers); the
share of its lines these models stand for is small, and is the share that carries concurrent state.

## 7. Plan

1. `BranchTaskQueue` with `TaskLedger` and proofs; `ControlPlaneTriggers` and proofs;
   `WorkspacePool` and proofs; `HandoffEffects` and proofs; `GraphDeliveries` with
   `DeliveryReceipt` and proofs; `AgentAutomations` and proofs (done).
2. The other users of receipts: reconcilers (a held row may reopen or succeed), capped actions
   with their two-person hold, wiki write-back with its dual keys. Property: a reconciler's
   verdict on one attempt never opens another.
3. Event subscriptions and cron slots of the automations; the runs that wait for the workspace
   composed with `WorkspacePool`. Epoch-2 tasks, should they come alive:
   SQLite leases and `cancel_wins`, refining `TaskLedger` as the queue does.
4. `WorkspacePool` with two processes on one data root, and with permanent generations.
5. Proofs: every safety property of the runs is proved. Next: an abstract specification of what
   an agent's wakes are promised, for `AgentAutomations` to implement as the other components
   implement theirs; and the safety cores of the liveness properties, such as that the lease of an
   ended run is owed a wipe or its lock is one the sweep finds.
