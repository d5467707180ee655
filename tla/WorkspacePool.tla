--------------------------- MODULE WorkspacePool ---------------------------
(***************************************************************************)
(* The workspace of one command center: the job lock, the scratch leases  *)
(* and the release outbox of tinyassets/workspace_pool.py, and the runs    *)
(* that use them (tinyassets/runs.py): the durable queue of waiters, its   *)
(* nomination, the two-database release of a finished run, the sweeps,     *)
(* recovery after a restart, cancel and resume.                            *)
(*                                                                         *)
(* A SQLite transaction is one action; a file system call of an outbox     *)
(* processor is one action.  Run rows are in the root database and all     *)
(* else durable is in the command center's: no transaction spans both.     *)
(* The universe lock and the host slot are rows that are always taken and  *)
(* released together, by one run: lock stands for both.                    *)
(***************************************************************************)
EXTENDS Integers, FiniteSets, Sequences

CONSTANTS
    Runs,           \* root runs that use the workspace
    Direct,         \* those that do not queue for it (no authenticated owner)
    Cancellable,    \* bound: the runs whose owner may cancel them
    Leases,         \* lease ids, each drawn at random once
    Procs,          \* threads that process outbox entries
    PoolLeases,     \* the pool's byte cap, in leases of the lease cap each
    MaxBoots,       \* bound: process starts
    Resumable,      \* bound: the runs whose owner may resume them, once each
    MaxExpiries,    \* bound: claims that expire under a processor at work
    MaxFaults,      \* bound: failed looks and removals, and lost release writes
    NoRun, NoLease  \* "no run", "no lease"

ASSUME WorkspaceAssumption ==
    /\ Direct \subseteq Runs /\ Cancellable \subseteq Runs /\ Resumable \subseteq Runs
    /\ {PoolLeases, MaxBoots, MaxExpiries, MaxFaults} \subseteq Nat
    /\ NoRun \notin Runs /\ NoLease \notin Leases
    /\ IsFiniteSet(Leases)

VARIABLES
    status,     \* root database: runs.status, "none" before admission
    cancels,    \* root database: the run_cancels table
    started,    \* runs with a checkpoint: they have begun to execute
    lock,       \* workspace_locks: the run that holds the rows
    tickets,    \* workspace_waiters in ticket order
    dispatched, \* the tickets whose dispatched_at is set
    lease,      \* workspace_leases: state and run
    outbox,     \* workspace_outbox in entry order
    disk,       \* which of a lease's two names exist in the pool
    boot,       \* process starts
    owned,      \* runs whose owner_token is the live process's
    claimed,    \* _WAITER_DISPATCHED
    worker,     \* the run's worker thread
    admitting,  \* the request thread that admits the run
    nominator,  \* the thread in nominate_workspace_waiter
    settling,   \* cancelled waiters about to be settled
    releasing,  \* runs between their terminal commit and the outbox write
    sweeping,   \* the run a sweep has found to hold a lock past its end
    mount,      \* what the live run does with a lease
    startup,    \* ensure_workspace_reconciled: "idle" until somebody calls it in
                \* this process, then "pending", the thread in startup_sweep, and
                \* "finished": the periodic sweeper runs
    proc,       \* the outbox processors
    expiries, faults,  \* the counters of the bounds
    submits,    \* history: how often a never-started run was handed to a worker
    resumed,    \* history: the runs that were ever resumed
    overlooked  \* history: the leases at which a look failed on a name that was there

rows == <<status, cancels, started>>
queue == <<tickets, dispatched>>
store == <<lease, outbox>>
threads == <<admitting, nominator, settling>>
sweeps == <<sweeping, startup>>
bounds == <<expiries, faults>>
history == <<submits, resumed, overlooked>>
vars == <<rows, lock, queue, store, disk, boot, owned, claimed, worker, threads,
          releasing, sweeps, mount, proc, bounds, history>>

Terminal == {"done", "cancelled", "interrupted"}
Live == {"queued", "resumed", "running"}
Entry == [run : Runs, lease : Leases \cup {NoLease}, release : BOOLEAN,
          token : Nat, done : BOOLEAN, boot : Nat]
Processor == [pc : {"idle", "look", "clear", "rename", "delete", "finish"},
              entry : Nat, token : Nat, src : BOOLEAN, lost : BOOLEAN]
Idle == [pc |-> "idle", entry |-> 0, token |-> 0, src |-> FALSE, lost |-> FALSE]

TypeOK ==
    /\ status \in [Runs -> {"none"} \cup Live \cup Terminal]
    /\ cancels \subseteq Runs /\ started \subseteq Runs
    /\ lock \in Runs \cup {NoRun}
    /\ tickets \in Seq(Runs) /\ dispatched \subseteq Runs
    /\ lease \in [Leases -> [state : {"none", "ACTIVE", "AVAILABLE", "LOST"},
                             run : Runs \cup {NoRun}]]
    /\ outbox \in Seq(Entry)
    /\ disk \in [Leases -> SUBSET {"src", "quarantine"}]
    /\ boot \in Nat /\ {expiries, faults} \subseteq Nat
    /\ owned \subseteq Runs /\ claimed \subseteq Runs
    /\ worker \in [Runs -> {"none", "submitted", "executing"}]
    /\ admitting \in [Runs -> {"none", "enqueue", "head", "turn", "mark"}]
    /\ nominator \in [pc : {"idle", "head", "mark"}, run : Runs \cup {NoRun}, free : BOOLEAN]
    /\ settling \subseteq Runs /\ releasing \subseteq Runs
    /\ sweeping \in Runs \cup {NoRun}
    /\ mount \in [Leases -> {"no", "filling", "in"}]
    /\ startup \in Procs \cup {"idle", "pending", "finished"}
    /\ proc \in [Procs -> Processor]
    /\ submits \in [Runs -> Nat] /\ resumed \subseteq Runs /\ overlooked \subseteq Leases

Init ==
    /\ status = [r \in Runs |-> "none"] /\ cancels = {} /\ started = {}
    /\ lock = NoRun /\ tickets = <<>> /\ dispatched = {}
    /\ lease = [l \in Leases |-> [state |-> "none", run |-> NoRun]]
    /\ outbox = <<>>
    /\ disk = [l \in Leases |-> {}]
    /\ boot = 1 /\ owned = {} /\ claimed = {}
    /\ worker = [r \in Runs |-> "none"]
    /\ admitting = [r \in Runs |-> "none"]
    /\ nominator = [pc |-> "idle", run |-> NoRun, free |-> FALSE]
    /\ settling = {} /\ releasing = {} /\ sweeping = NoRun
    /\ mount = [l \in Leases |-> "no"]
    /\ startup = "idle" /\ proc = [p \in Procs |-> Idle]
    /\ expiries = 0 /\ faults = 0
    /\ submits = [r \in Runs |-> 0] /\ resumed = {} /\ overlooked = {}

-----------------------------------------------------------------------------
(* Queries and writes the transactions share.  A definition named like      *)
(* another with a suffix _Mut is a deliberately wrong form of it, used only *)
(* to show that a property can tell the difference.                         *)

HasTicket(r) == \E i \in DOMAIN tickets : tickets[i] = r
ActiveOf_Mut(r) == {l \in Leases : lease[l].state = "ACTIVE"}
ActiveOf(r) == {l \in Leases : lease[l] = [state |-> "ACTIVE", run |-> r]}
Unfinished == {i \in DOMAIN outbox : ~outbox[i].done}

\* Neither the universe lock nor the host slot is another run's.
WorkspaceFree(r) == lock \in {r, NoRun}

\* A free lock is reserved for the first ticket until its run is dispatched.
MayLock(r) ==
    \/ lock = r
    \/ /\ lock = NoRun
       /\ tickets # <<>> => Head(tickets) \in dispatched \cup {r}

PoolReserved_Mut == Cardinality({l \in Leases : lease[l].state = "ACTIVE"})
\* The reserved bytes of every lease that is not AVAILABLE, LOST ones included.
PoolReserved == Cardinality({l \in Leases : lease[l].state \in {"ACTIVE", "LOST"}})

\* An unfinished entry of an earlier process holds the startup barrier.
BarrierOpen == \A i \in Unfinished : outbox[i].boot = boot

CanClaim_Mut(r) == status[r] = "queued" /\ r \notin cancels
CanClaimCancelled_Mut(r) == r \notin claimed /\ status[r] = "queued"
\* _claim_waiter_dispatch: once per process, and a cancel recorded before wins.
CanClaim(r) == r \notin claimed /\ status[r] = "queued" /\ r \notin cancels

Without(s, i) == [j \in 1..(Len(s) - 1) |-> IF j < i THEN s[j] ELSE s[j + 1]]

RemoveTicket(r) ==
    /\ \/ \E i \in DOMAIN tickets : tickets[i] = r /\ tickets' = Without(tickets, i)
       \/ ~HasTicket(r) /\ UNCHANGED tickets
    /\ dispatched' = dispatched \ {r}

NewEntry(r, l, release) ==
    [run |-> r, lease |-> l, release |-> release, token |-> 0, done |-> FALSE, boot |-> boot]

\* The rows of a query without ORDER BY, in the order the database gives them.
Orders(S) == {q \in [1..Cardinality(S) -> S] : \A i, j \in DOMAIN q : q[i] = q[j] => i = j}

\* A wipe for every ACTIVE lease of the run, or a release of its lock alone.
EnqueueTerminal(r) ==
    /\ \E q \in Orders(ActiveOf(r)) :
         outbox' = outbox \o
             (IF ActiveOf(r) # {} THEN [i \in DOMAIN q |-> NewEntry(r, q[i], TRUE)]
              ELSE IF lock = r THEN <<NewEntry(r, NoLease, TRUE)>> ELSE <<>>)
    /\ RemoveTicket(r)

\* The terminal commit of a run: its release is owed in the other database.
CommitTerminal(r, s) ==
    /\ status' = [status EXCEPT ![r] = s]
    /\ releasing' = releasing \cup {r}

-----------------------------------------------------------------------------
(* Admission and the queue of waiters.                                     *)

Submit(r) ==
    /\ worker' = [worker EXCEPT ![r] = "submitted"]
    /\ submits' = [submits EXCEPT ![r] = @ + 1]

\* The run row is written; a run that does not queue goes to a worker at once.
Prepare(r) ==
    /\ status[r] = "none"
    /\ status' = [status EXCEPT ![r] = "queued"]
    /\ owned' = owned \cup {r}
    /\ IF r \in Direct THEN Submit(r) /\ UNCHANGED admitting
       ELSE admitting' = [admitting EXCEPT ![r] = "enqueue"] /\ UNCHANGED <<worker, submits>>
    /\ UNCHANGED <<cancels, started, lock, queue, store, disk, boot, claimed, nominator, settling,
                   releasing, sweeps, mount, proc, bounds, resumed, overlooked>>

EnqueueWaiter(r) ==
    /\ admitting[r] = "enqueue"
    /\ tickets' = IF HasTicket(r) THEN tickets ELSE Append(tickets, r)
    /\ admitting' = [admitting EXCEPT ![r] = "head"]
    /\ UNCHANGED <<rows, lock, dispatched, store, disk, boot, owned, claimed, worker, nominator,
                   settling, releasing, sweeps, mount, proc, bounds, history>>

MyTurn_Mut(r) == tickets # <<>> /\ WorkspaceFree(r)
MyTurn(r) == tickets # <<>> /\ Head(tickets) = r /\ WorkspaceFree(r)

\* Is it this run's turn already?  Otherwise it waits.
ReadTurn(r) ==
    /\ admitting[r] = "head"
    /\ admitting' = [admitting EXCEPT ![r] =
                        IF MyTurn(r) THEN "turn" ELSE "none"]
    /\ UNCHANGED <<rows, lock, queue, store, disk, boot, owned, claimed, worker, nominator,
                   settling, releasing, sweeps, mount, proc, bounds, history>>

ClaimTurn(r) ==
    /\ admitting[r] = "turn"
    /\ IF CanClaim(r)
       THEN claimed' = claimed \cup {r} /\ admitting' = [admitting EXCEPT ![r] = "mark"]
       ELSE admitting' = [admitting EXCEPT ![r] = "none"] /\ UNCHANGED claimed
    /\ UNCHANGED <<rows, lock, queue, store, disk, boot, owned, worker, nominator, settling,
                   releasing, sweeps, mount, proc, bounds, history>>

\* A mark that cannot be written is only logged.
Mark(r) ==
    \/ dispatched' = IF HasTicket(r) THEN dispatched \cup {r} ELSE dispatched
    \/ UNCHANGED dispatched

TakeTurn(r) ==
    /\ admitting[r] = "mark"
    /\ admitting' = [admitting EXCEPT ![r] = "none"]
    /\ Mark(r) /\ Submit(r)
    /\ UNCHANGED <<rows, lock, tickets, store, disk, boot, owned, claimed, nominator, settling,
                   releasing, sweeps, mount, proc, bounds, resumed, overlooked>>

Waiting_Mut == tickets # <<>> /\ Head(tickets) \notin dispatched
\* A head that was dispatched by a process that died is a head still.
Waiting == tickets # <<>>

NominateRead ==
    /\ nominator.pc = "idle" /\ Waiting
    /\ nominator' = [pc |-> "head", run |-> Head(tickets), free |-> WorkspaceFree(Head(tickets))]
    /\ UNCHANGED <<rows, lock, queue, store, disk, boot, owned, claimed, worker, admitting,
                   settling, releasing, sweeps, mount, proc, bounds, history>>

\* A dead head is dropped, a cancelled one settled; a free one is claimed.
NominateDecide ==
    LET r == nominator.run
        stop == [nominator EXCEPT !.pc = "idle", !.run = NoRun, !.free = FALSE] IN
    /\ nominator.pc = "head"
    /\ \/ /\ status[r] \in Terminal
          /\ RemoveTicket(r) /\ nominator' = stop /\ UNCHANGED <<settling, claimed>>
       \/ /\ status[r] = "queued" /\ r \in cancels /\ r \notin claimed
          /\ settling' = settling \cup {r} /\ nominator' = stop /\ UNCHANGED <<queue, claimed>>
       \/ /\ CanClaim(r) /\ nominator.free
          /\ claimed' = claimed \cup {r} /\ nominator' = [nominator EXCEPT !.pc = "mark"]
          /\ UNCHANGED <<queue, settling>>
       \/ /\ \/ status[r] \in {"running", "resumed"}
             \/ /\ status[r] = "queued"
                /\ r \in cancels => r \in claimed
                /\ ~nominator.free \/ ~CanClaim(r)
          /\ nominator' = stop /\ UNCHANGED <<queue, settling, claimed>>
    /\ UNCHANGED <<rows, lock, store, disk, boot, owned, worker, admitting,
                   releasing, sweeps, mount, proc, bounds, history>>

\* The claimed waiter starts from its admission; a failure settles it.
NominateDispatch ==
    LET r == nominator.run IN
    /\ nominator.pc = "mark"
    /\ nominator' = [nominator EXCEPT !.pc = "idle", !.run = NoRun, !.free = FALSE]
    /\ Mark(r)
    /\ \/ Submit(r) /\ UNCHANGED <<status, releasing, faults>>
       \/ /\ faults < MaxFaults /\ faults' = faults + 1
          /\ IF status[r] = "queued" THEN CommitTerminal(r, "done")
             ELSE UNCHANGED <<status, releasing>>
          /\ UNCHANGED <<worker, submits>>
    /\ UNCHANGED <<cancels, started, lock, tickets, store, disk, boot, owned, claimed, admitting, settling,
                   sweeps, mount, proc, expiries, resumed, overlooked>>

RequestCancel(r) ==
    /\ r \in Cancellable /\ status[r] \in Live /\ r \notin cancels
    /\ cancels' = cancels \cup {r}
    /\ UNCHANGED <<status, started, lock, queue, store, disk, boot, owned, claimed, worker,
                   threads, releasing, sweeps, mount, proc, bounds, history>>

\* A cancel of a run that only waits settles it; a claimed one has a worker.
SettleDecide(r) ==
    /\ status[r] = "queued" /\ r \in cancels
    /\ HasTicket(r) /\ r \notin claimed /\ r \notin settling
    /\ settling' = settling \cup {r}
    /\ UNCHANGED <<rows, lock, queue, store, disk, boot, owned, claimed, worker, admitting,
                   nominator, releasing, sweeps, mount, proc, bounds, history>>

SettleWrite(r) ==
    /\ r \in settling
    /\ settling' = settling \ {r}
    /\ IF status[r] = "queued" THEN CommitTerminal(r, "cancelled")
       ELSE UNCHANGED <<status, releasing>>
    /\ UNCHANGED <<cancels, started, lock, queue, store, disk, boot, owned, claimed, worker, admitting,
                   nominator, sweeps, mount, proc, bounds, history>>

-----------------------------------------------------------------------------
(* The run's worker and its leases.                                        *)

\* The worker takes the row forward whatever its status is.
WorkerStart(r) ==
    /\ worker[r] = "submitted"
    /\ status' = [status EXCEPT ![r] = "running"]
    /\ owned' = owned \cup {r}
    /\ worker' = [worker EXCEPT ![r] = "executing"]
    /\ started' = started \cup {r}
    /\ UNCHANGED <<cancels, lock, queue, store, disk, boot, claimed, threads, releasing, sweeps,
                   mount, proc, bounds, history>>

\* A checkout first asks for the startup sweep; the first one of a process runs
\* it, and starts the command center's periodic sweeper.
Reconcile(r) ==
    /\ worker[r] = "executing" /\ startup = "idle"
    /\ startup' = "pending"
    /\ UNCHANGED <<rows, lock, queue, store, disk, boot, owned, claimed, worker, threads, releasing,
                   sweeping, mount, proc, bounds, history>>

\* admit: barrier, pool total, locks, the ticket's end and the lease in one
\* transaction; a refusal leaves everything as it was.
Admit(r, l) ==
    /\ worker[r] = "executing" /\ r \notin cancels /\ startup # "idle"
    /\ lease[l].state = "none"
    /\ BarrierOpen /\ PoolReserved < PoolLeases /\ MayLock(r)
    /\ lock' = r
    /\ RemoveTicket(r)
    /\ lease' = [lease EXCEPT ![l] = [state |-> "ACTIVE", run |-> r]]
    /\ mount' = [mount EXCEPT ![l] = "filling"]
    /\ UNCHANGED <<rows, outbox, disk, boot, owned, claimed, worker, threads, releasing, sweeps,
                   proc, bounds, history>>

Populate(l) ==
    /\ mount[l] = "filling"
    /\ disk' = [disk EXCEPT ![l] = @ \cup {"src"}]
    /\ mount' = [mount EXCEPT ![l] = "in"]
    /\ UNCHANGED <<rows, lock, queue, store, boot, owned, claimed, worker, threads, releasing,
                   sweeps, proc, bounds, history>>

\* A checkout that failed past its admission owes a wipe (_owe_wipe), and so
\* does the lease a run discards; neither gives up the run's lock.
GiveBack(l) ==
    /\ mount[l] # "no"
    /\ mount' = [mount EXCEPT ![l] = "no"]
    /\ \/ UNCHANGED disk
       \/ mount[l] = "filling" /\ disk' = [disk EXCEPT ![l] = @ \cup {"src"}]
    /\ outbox' = Append(outbox, NewEntry(lease[l].run, l, FALSE))
    /\ UNCHANGED <<rows, lock, queue, lease, boot, owned, claimed, worker, threads, releasing,
                   sweeps, proc, bounds, history>>

\* The end of the run: the root commit.  It is cancelled only if a cancel is
\* recorded; it may also finish past one.
WorkerEnd(r) ==
    /\ worker[r] = "executing"
    /\ \A l \in ActiveOf(r) : mount[l] # "filling"
    /\ \E s \in {"done"} \cup (IF r \in cancels THEN {"cancelled"} ELSE {}) : CommitTerminal(r, s)
    /\ worker' = [worker EXCEPT ![r] = "none"]
    /\ mount' = [l \in Leases |-> IF lease[l].run = r THEN "no" ELSE mount[l]]
    /\ UNCHANGED <<cancels, started, lock, queue, store, disk, boot, owned, claimed, threads, sweeps, proc,
                   bounds, history>>

\* The second transaction, in the command center's database.
Release(r) ==
    /\ r \in releasing
    /\ releasing' = releasing \ {r}
    /\ EnqueueTerminal(r)
    /\ UNCHANGED <<rows, lock, lease, disk, boot, owned, claimed, worker, threads, sweeps, mount,
                   proc, bounds, history>>

\* It fails: the failure is logged and a sweep kicked.
ReleaseFails(r) ==
    /\ r \in releasing /\ faults < MaxFaults
    /\ releasing' = releasing \ {r}
    /\ faults' = faults + 1
    /\ UNCHANGED <<rows, lock, queue, store, disk, boot, owned, claimed, worker, threads, sweeps,
                   mount, proc, expiries, history>>

OrphanedLock_Mut(r) == FALSE
\* A lock of a run that has ended, with nothing pending to release it.
OrphanedLock(r) ==
    /\ status[r] \in Terminal
    /\ \A i \in Unfinished : outbox[i].run # r

\* A sweep reads the run of the lock at the root, then owes its release.  Its
\* first query, for orphaned leases, joins run rows this database has none of.
SweepRead ==
    /\ sweeping = NoRun /\ lock # NoRun
    /\ OrphanedLock(lock)
    /\ sweeping' = lock
    /\ UNCHANGED <<rows, lock, queue, store, disk, boot, owned, claimed, worker, threads,
                   releasing, startup, mount, proc, bounds, history>>

SweepWrite ==
    /\ sweeping # NoRun
    /\ sweeping' = NoRun
    /\ EnqueueTerminal(sweeping)
    /\ UNCHANGED <<rows, lock, lease, disk, boot, owned, claimed, worker, threads, releasing,
                   startup, mount, proc, bounds, history>>

\* The owner resumes an interrupted run from its checkpoint.
Resume(r) ==
    /\ status[r] = "interrupted" /\ r \in started /\ r \in Resumable \ resumed
    /\ status' = [status EXCEPT ![r] = "resumed"]
    /\ owned' = owned \cup {r} /\ resumed' = resumed \cup {r}
    /\ worker' = [worker EXCEPT ![r] = "submitted"]
    /\ UNCHANGED <<cancels, started, lock, queue, store, disk, boot, claimed, threads, releasing, sweeps,
                   mount, proc, bounds, submits, overlooked>>

-----------------------------------------------------------------------------
(* The outbox processors.                                                  *)

\* A claim nobody works on any more is a dead thread's.
Abandoned(i) == \A p \in Procs : proc[p].pc = "idle" \/ proc[p].entry # i
                                   \/ proc[p].token # outbox[i].token

\* The oldest unfinished entry that is unclaimed or whose claim has expired;
\* the startup sweep takes every claim.
Claim(p) ==
    /\ proc[p].pc = "idle"
    /\ \E i \in Unfinished :
        /\ \/ startup = p /\ \A j \in Unfinished : i <= j
           \/ startup # p /\ \A j \in Unfinished : j < i => outbox[j].token # 0
        /\ IF outbox[i].token = 0 \/ Abandoned(i) \/ startup = p THEN UNCHANGED expiries
           ELSE expiries < MaxExpiries /\ expiries' = expiries + 1
        /\ outbox' = [outbox EXCEPT ![i].token = @ + 1]
        /\ proc' = [proc EXCEPT ![p] =
             [Idle EXCEPT !.pc = IF outbox[i].lease = NoLease THEN "finish" ELSE "look",
                          !.entry = i, !.token = outbox[i].token + 1]]
    /\ UNCHANGED <<rows, lock, queue, lease, disk, boot, owned, claimed, worker, threads,
                   releasing, sweeps, mount, faults, history>>

At(p) == outbox[proc[p].entry].lease

\* What exists() answers: a look that fails reports a name that is there absent.
Sees(p, name, seen) ==
    \/ seen = (name \in disk[At(p)]) /\ UNCHANGED <<faults, overlooked>>
    \/ /\ name \in disk[At(p)] /\ ~seen
       /\ faults < MaxFaults /\ faults' = faults + 1
       /\ overlooked' = overlooked \cup {At(p)}

\* exists(src), then exists(quarantine): two looks, not one.
LookSrc(p) ==
    /\ proc[p].pc = "look"
    /\ \E seen \in BOOLEAN :
        /\ Sees(p, "src", seen)
        /\ proc' = [proc EXCEPT ![p] = [@ EXCEPT !.src = seen, !.pc = "clear"]]
    /\ UNCHANGED <<rows, lock, queue, store, disk, boot, owned, claimed, worker, threads,
                   releasing, sweeps, mount, expiries, submits, resumed>>

AfterClear(p) == IF proc[p].src THEN "rename" ELSE "finish"

LookQuarantine(p) ==
    /\ proc[p].pc = "clear" /\ Sees(p, "quarantine", FALSE)
    /\ proc' = [proc EXCEPT ![p] = [@ EXCEPT !.pc = AfterClear(p), !.src = FALSE]]
    /\ UNCHANGED <<rows, lock, queue, store, disk, boot, owned, claimed, worker, threads,
                   releasing, sweeps, mount, expiries, submits, resumed>>

\* A removal: the tree is gone, or the call fails and the lease is LOST.
Remove(p, next) ==
    \/ /\ disk' = [disk EXCEPT ![At(p)] = @ \ {"quarantine"}]
       /\ proc' = [proc EXCEPT ![p] = [@ EXCEPT !.pc = next, !.src = FALSE]]
       /\ UNCHANGED faults
    \/ /\ faults < MaxFaults /\ faults' = faults + 1
       /\ proc' = [proc EXCEPT ![p] =
                      [@ EXCEPT !.pc = "finish", !.src = FALSE, !.lost = TRUE]]
       /\ UNCHANGED disk

ClearQuarantine(p) ==
    /\ proc[p].pc = "clear" /\ "quarantine" \in disk[At(p)]
    /\ Remove(p, AfterClear(p))
    /\ UNCHANGED <<rows, lock, queue, store, boot, owned, claimed, worker, threads, releasing,
                   sweeps, mount, expiries, history>>

RenameFailed_Mut(x) == [x EXCEPT !.pc = "finish"]
RenameFailed(x) == [x EXCEPT !.pc = "finish", !.lost = TRUE]

\* The rename fails when another processor has moved the source, or when a
\* quarantine is there again.
Rename(p) ==
    /\ proc[p].pc = "rename"
    /\ IF disk[At(p)] = {"src"}
       THEN /\ disk' = [disk EXCEPT ![At(p)] = {"quarantine"}]
            /\ proc' = [proc EXCEPT ![p] = [@ EXCEPT !.pc = "delete"]]
       ELSE /\ proc' = [proc EXCEPT ![p] = RenameFailed(@)]
            /\ UNCHANGED disk
    /\ UNCHANGED <<rows, lock, queue, store, boot, owned, claimed, worker, threads, releasing,
                   sweeps, mount, bounds, history>>

Delete(p) ==
    /\ proc[p].pc = "delete"
    /\ Remove(p, "finish")
    /\ UNCHANGED <<rows, lock, queue, store, boot, owned, claimed, worker, threads, releasing,
                   sweeps, mount, expiries, history>>

Freed_Mut(e) == IF e.release THEN NoRun ELSE lock
\* An entry releases the lock of its own run, and of no other.
Freed(e) == IF e.release /\ lock = e.run THEN NoRun ELSE lock

\* The final transaction: nothing changes under another's claim.
Finish(p) ==
    LET i == proc[p].entry
        e == outbox[i] IN
    /\ proc[p].pc = "finish"
    /\ proc' = [proc EXCEPT ![p] = Idle]
    /\ IF e.token # proc[p].token \/ e.done THEN UNCHANGED <<store, lock>>
       ELSE /\ lease' = IF e.lease = NoLease THEN lease
                        ELSE [lease EXCEPT ![e.lease].state =
                                  IF proc[p].lost THEN "LOST" ELSE "AVAILABLE"]
            /\ lock' = Freed(e)
            /\ outbox' = [outbox EXCEPT ![i].done = TRUE]
    /\ UNCHANGED <<rows, queue, disk, boot, owned, claimed, worker, threads, releasing, sweeps,
                   mount, bounds, history>>

StartupSweep(p) ==
    /\ startup = "pending" /\ proc[p].pc = "idle"
    /\ startup' = p
    /\ UNCHANGED <<rows, lock, queue, store, disk, boot, owned, claimed, worker, threads,
                   releasing, sweeping, mount, proc, bounds, history>>

StartupDone(p) ==
    /\ startup = p /\ proc[p].pc = "idle" /\ Unfinished = {}
    /\ startup' = "finished"
    /\ UNCHANGED <<rows, lock, queue, store, disk, boot, owned, claimed, worker, threads,
                   releasing, sweeping, mount, proc, bounds, history>>

-----------------------------------------------------------------------------
(* Crash, restart, recovery.                                               *)

Crash ==
    /\ boot < MaxBoots
    /\ boot' = boot + 1
    /\ owned' = {} /\ claimed' = {} /\ settling' = {} /\ releasing' = {}
    /\ worker' = [r \in Runs |-> "none"]
    /\ admitting' = [r \in Runs |-> "none"]
    /\ nominator' = [pc |-> "idle", run |-> NoRun, free |-> FALSE]
    /\ sweeping' = NoRun /\ startup' = "idle"
    /\ mount' = [l \in Leases |-> "no"]
    /\ proc' = [p \in Procs |-> Idle]
    \* a run that is still queued has executed nothing
    /\ submits' = [r \in Runs |-> IF status[r] = "queued" THEN 0 ELSE submits[r]]
    /\ UNCHANGED <<rows, lock, queue, store, disk, bounds, resumed, overlooked>>

\* recover_in_flight_runs, of the runs of a dead owner: a queued waiter keeps
\* its place, all others are interrupted.
Recover(r) ==
    /\ status[r] \in Live /\ r \notin owned
    /\ ~(status[r] = "queued" /\ HasTicket(r))
    /\ CommitTerminal(r, "interrupted")
    /\ UNCHANGED <<cancels, started, lock, queue, store, disk, boot, owned, claimed, worker, threads,
                   sweeps, mount, proc, bounds, history>>

\* It also starts the sweeper of a command center whose waiter it keeps.
KeepWaiter(r) ==
    /\ status[r] = "queued" /\ HasTicket(r) /\ r \notin owned
    /\ startup = "idle" /\ startup' = "pending"
    /\ UNCHANGED <<rows, lock, queue, store, disk, boot, owned, claimed, worker, threads, releasing,
                   sweeping, mount, proc, bounds, history>>

ProcStep(p) ==
    \/ Claim(p) \/ LookSrc(p) \/ LookQuarantine(p) \/ ClearQuarantine(p) \/ Rename(p)
    \/ Delete(p) \/ Finish(p) \/ StartupSweep(p) \/ StartupDone(p)

RunStep(r) ==
    \/ Prepare(r) \/ EnqueueWaiter(r) \/ ReadTurn(r) \/ ClaimTurn(r) \/ TakeTurn(r)
    \/ RequestCancel(r) \/ SettleDecide(r) \/ SettleWrite(r)
    \/ WorkerStart(r) \/ Reconcile(r) \/ (\E l \in Leases : Admit(r, l)) \/ WorkerEnd(r)
    \/ Release(r) \/ ReleaseFails(r) \/ Resume(r) \/ Recover(r) \/ KeepWaiter(r)

Next ==
    \/ \E r \in Runs : RunStep(r)
    \/ NominateRead \/ NominateDecide \/ NominateDispatch
    \/ \E l \in Leases : Populate(l) \/ GiveBack(l)
    \/ SweepRead \/ SweepWrite
    \/ \E p \in Procs : ProcStep(p)
    \/ Crash

Spec == Init /\ [][Next]_vars

\* The periodic sweeper is at work in this process.
SweeperRuns == startup = "finished"

\* A thread that has begun goes on: requests, workers, recovery at startup, a
\* sweep or a nomination under way.  New passes of the outbox, the sweep and the
\* nomination are only counted on where the startup sweep was asked for in this
\* process; the single pass that follows a release is not.
Fairness ==
    /\ \A r \in Runs :
        /\ WF_vars(EnqueueWaiter(r)) /\ WF_vars(ReadTurn(r)) /\ WF_vars(ClaimTurn(r))
        /\ WF_vars(TakeTurn(r)) /\ WF_vars(SettleWrite(r)) /\ WF_vars(WorkerStart(r))
        /\ WF_vars(WorkerEnd(r)) /\ WF_vars(Release(r))
        /\ WF_vars(Recover(r)) /\ WF_vars(KeepWaiter(r))
    /\ \A l \in Leases : WF_vars(Populate(l))
    /\ WF_vars(SweeperRuns /\ NominateRead) /\ WF_vars(NominateDecide) /\ WF_vars(NominateDispatch)
    /\ WF_vars(SweeperRuns /\ SweepRead) /\ WF_vars(SweepWrite)
    /\ \A p \in Procs : WF_vars(startup # "idle" /\ ProcStep(p))

FairSpec == Spec /\ Fairness

-----------------------------------------------------------------------------
(* Properties.                                                             *)

\* The lock "is held from the holder's first checkout until its terminal
\* outbox entry" (durable-workspace-wait/proposal.md): no entry, sweep or
\* processor of an earlier run or of a dead process frees it under a run that
\* works in a lease, so no two runs work in the command center's workspace.
HolderKeepsLock ==
    \A l \in Leases : mount[l] # "no" /\ lease[l].run \notin resumed => lock = lease[l].run

\* No processor, slow or repeated, moves or deletes the tree a live run works in.
MountedIntact ==
    \A l \in Leases : mount[l] = "in" /\ lease[l].run \notin resumed => disk[l] = {"src"}

\* A lease is AVAILABLE only once both its names are gone, whichever processor
\* lost its claim half way through, and however their calls interleave; but for
\* the lease at which a look itself failed, which exists() calls absent.
AvailableIsGone ==
    \A l \in Leases \ overlooked :
        lease[l].state = "AVAILABLE" /\ lease[l].run \notin resumed => disk[l] = {}

\* Until a run is resumed, the trees in the pool never take more than its cap:
\* a wipe that failed or died half way stays charged.  Only a tree that a failed
\* look overlooked is on the disk and not in the count.
PoolNotOversubscribed ==
    resumed = {} => Cardinality({l \in Leases \ overlooked : disk[l] # {}}) <= PoolLeases

\* A run is handed to a worker once: the admitting request and the nominator
\* race for it, and a restart hands out again only what never started.
StartedOnce == \A r \in Runs : submits[r] <= 1

\* Waiters start in the order of their tickets, over crashes and cancels.
ServedInOrder ==
    [][\A r \in Runs \ Direct : submits'[r] > submits[r] =>
           \A i \in DOMAIN tickets : \A j \in 1..i :
               tickets[i] = r => tickets[j] = r \/ status[tickets[j]] # "queued"]_vars

\* A settled run stays settled: a waiter cancelled or failed while it waited is
\* never taken to running by a worker, a nomination or recovery.
SettledStays ==
    [][\A r \in Runs : status[r] \in Terminal =>
           status'[r] = status[r] \/ (status[r] = "interrupted" /\ status'[r] = "resumed")]_vars

\* What WorkspaceLedger calls the state of a run, and that of a lease.
Phase(r) ==
    CASE r \in resumed -> "resumed"
      [] r \notin resumed /\ status[r] = "queued" -> "waiting"
      [] r \notin resumed /\ status[r] \in Terminal -> "ended"
      [] r \notin resumed /\ status[r] \in {"none", "running"} -> status[r]
Disowned(l) == lease[l].run \in resumed
Use(l) ==
    CASE Disowned(l) -> "void"
      [] ~Disowned(l) /\ mount[l] # "no" -> "used"
      [] ~Disowned(l) /\ mount[l] = "no" ->
            CASE lease[l].state = "none" -> "none"
              [] lease[l].state = "ACTIVE" -> "left"
              [] lease[l].state = "AVAILABLE" -> "gone"
              [] lease[l].state = "LOST" -> "lost"

Ledger == INSTANCE WorkspaceLedger WITH
    Cap <- PoolLeases, holder <- lock,
    phase <- [r \in Runs |-> Phase(r)],
    use <- [l \in Leases |-> Use(l)], by <- [l \in Leases |-> lease[l].run],
    trees <- {l \in Leases : ~Disowned(l) /\ disk[l] # {}}

\* All that the workspace promises a run that was not resumed, over two databases,
\* the disk, processors that overtake one another, sweeps and restarts: it is one
\* run's from its first lease to its end, a used tree stays, what is reported gone
\* is gone unless a look failed there, and what is not counts against the pool
\* (workspace_pool.py).
KeepsWorkspaceLedger == Ledger!Spec

\* A run that holds a ticket is started or settled, over a restart too, once the
\* startup sweep was asked for: by a checkout, or by recovery for the waiters a
\* restart has kept.  One that starts to wait before the first checkout of its
\* process waits for that, or for the release of a run that did not check out.
WaitersAreAnswered ==
    \A r \in Runs \ Direct : HasTicket(r) /\ startup # "idle" ~> status[r] # "queued"

\* What a run that has ended still holds comes back: a lost release is found by
\* the sweep, a dead processor's claim is taken over, and its leases are wiped
\* or counted as lost.  This needs a process in which the startup sweep was asked
\* for, by a checkout or for a waiter, and that does not stop before it is done:
\* the restart alone sweeps nothing.
WorkspaceComesBack ==
    \A r \in Runs :
        status[r] \in Terminal /\ (lock = r \/ ActiveOf(r) # {}) /\ startup # "idle"
            ~> (lock # r /\ ActiveOf(r) = {}) \/ r \in resumed \/ startup = "idle"
=============================================================================
