-------------------------- MODULE GraphDeliveries ---------------------------
(***************************************************************************)
(* One accepted delivery to a receiver's graph: its attempt                *)
(* (tinyassets/storage/deliveries.py), the operating-system lock that      *)
(* names the worker executing it (storage/delivery_lock.py), that worker   *)
(* and the reconciler (delivery_runtime.py), and the run row reserved for  *)
(* it, with the recovery of runs whose owner died (tinyassets/runs.py).    *)
(*                                                                         *)
(* A process is one incarnation: it starts once, and its owner token is    *)
(* the process itself.  Servers run the recovery watcher and the           *)
(* reconciler; the other processes are engine children, which also accept  *)
(* and execute deliveries.  Of each process's workers only the one that    *)
(* _submitted admits is modelled.  A transaction is one action, fused with *)
(* the release of the lock where nothing else follows it.                  *)
(*                                                                         *)
(* A definition named like another with a suffix _Mut is a deliberately    *)
(* wrong form of it, used only to show that a property can tell the        *)
(* difference.                                                             *)
(***************************************************************************)
EXTENDS Naturals

CONSTANTS
    Servers,    \* processes that run universe_server, one after another
    Children,   \* engine child processes
    MaxDeaths,  \* bound: processes that die
    MaxFaults,  \* bound: storage errors and refusals
    None        \* "no process"

Procs == Servers \cup Children

ASSUME DeliveryAssumption ==
    /\ {MaxDeaths, MaxFaults} \subseteq Nat
    /\ None \notin Procs

VARIABLES
    proc,     \* each process: "new", "up" or "down"
    server,   \* the live server, or None
    attempt,  \* graph_delivery_attempts.state, "none" before acceptance
    status,   \* runs.status of the reserved run
    owner,    \* runs.owner_token: the process it names
    cancel,   \* whether run_cancels has the run
    lock,     \* the process whose worker holds the attempt's lock
    pc,       \* where each process's worker for the delivery is
    begun,    \* history: times the receiver's graph was invoked
    deaths, faults  \* the counters of the bounds

processes == <<proc, server, deaths>>
run == <<status, owner, cancel>>
vars == <<processes, attempt, run, lock, pc, begun, faults>>

Terminal == {"completed", "failed", "cancelled", "interrupted"}

\* The steps of a worker that holds the lock.
Held == {"locked", "check", "prepare", "invoke", "entered", "running", "close",
         "abort", "refused", "finish", "recheck"}

TypeOK ==
    /\ proc \in [Procs -> {"new", "up", "down"}]
    /\ server \in Servers \cup {None}
    /\ attempt \in {"none", "pending", "executing"} \cup Terminal
    /\ status \in {"none", "queued", "running"} \cup Terminal
    /\ owner \in Procs \cup {None}
    /\ cancel \in BOOLEAN
    /\ lock \in Procs \cup {None}
    /\ pc \in [Procs -> {"idle", "accepted", "submitted"} \cup Held]
    /\ begun \in Nat
    /\ deaths \in 0..MaxDeaths
    /\ faults \in 0..MaxFaults

Init ==
    /\ proc = [p \in Procs |-> "new"]
    /\ server = None
    /\ attempt = "none"
    /\ status = "none"
    /\ owner = None
    /\ cancel = FALSE
    /\ lock = None
    /\ pc = [p \in Procs |-> "idle"]
    /\ begun = 0
    /\ deaths = 0
    /\ faults = 0

-----------------------------------------------------------------------------
(* The run row and the worker's place.                                     *)

Goto(p, step) == pc' = [pc EXCEPT ![p] = step]

\* The worker leaves its with block: the kernel frees the lock.
Release(p) == Goto(p, "idle") /\ lock' = None

\* A run that starts keeps the owner it had.
SetStatus_Mut(p, s) == status' = s /\ UNCHANGED <<owner, cancel>>

\* update_run_status.  The run has no managed family and the caller expects
\* no status, so the write is unconditional; only a start names a new owner.
SetStatus(p, s) ==
    /\ status' = s
    /\ owner' = IF s = "running" THEN p ELSE owner
    /\ UNCHANGED cancel

Fault == faults < MaxFaults /\ faults' = faults + 1

-----------------------------------------------------------------------------
(* Acceptance and dispatch.                                                *)

\* One transaction inserts the intent, the run, owned by this process, and
\* the attempt.
Accept(p) ==
    /\ proc[p] = "up"
    /\ pc[p] = "idle"
    /\ attempt = "none"
    /\ attempt' = "pending"
    /\ status' = "queued"
    /\ owner' = p
    /\ Goto(p, "accepted")
    /\ UNCHANGED <<processes, cancel, lock, begun, faults>>

\* A retry of the occurrence finds the delivery and only dispatches it again.
Replay(p) ==
    /\ proc[p] = "up"
    /\ pc[p] = "idle"
    /\ attempt # "none"
    /\ Goto(p, "accepted")
    /\ UNCHANGED <<processes, attempt, run, lock, begun, faults>>

\* The handler hands the attempt to the executor after its commit.
Dispatch(p) ==
    /\ pc[p] = "accepted"
    /\ Goto(p, "submitted")
    /\ UNCHANGED <<processes, attempt, run, lock, begun, faults>>

\* It fails between the commit and that call: the reconciler has to find the
\* delivery.
DispatchFails(p) ==
    /\ pc[p] = "accepted"
    /\ Fault
    /\ Goto(p, "idle")
    /\ UNCHANGED <<processes, attempt, run, lock, begun>>

\* The attempts that were claimed are left out.
Reconcile_Mut(p) ==
    /\ server = p
    /\ pc[p] = "idle"
    /\ attempt = "pending"
    /\ Goto(p, "submitted")
    /\ UNCHANGED <<processes, attempt, run, lock, begun, faults>>

\* reconcile_deliveries, at boot and every five minutes.
Reconcile(p) ==
    /\ server = p
    /\ pc[p] = "idle"
    /\ attempt \in {"pending", "executing"}
    /\ Goto(p, "submitted")
    /\ UNCHANGED <<processes, attempt, run, lock, begun, faults>>

\* try_attempt_lock never waits: the loser's worker returns.
TryLock(p) ==
    /\ pc[p] = "submitted"
    /\ IF lock = None THEN lock' = p /\ Goto(p, "locked")
                      ELSE Goto(p, "idle") /\ UNCHANGED lock
    /\ UNCHANGED <<processes, attempt, run, begun, faults>>
-----------------------------------------------------------------------------
(* Recovery of the attempt, and its start.  All of it under the lock.      *)

\* An attempt that was claimed is pending again.
Recovered_Mut ==
    IF attempt \in Terminal THEN attempt
    ELSE IF status \in {"queued", "interrupted"} THEN "pending"
    ELSE IF status \in Terminal THEN status
    ELSE "interrupted"

\* The attempt's state after recover_attempt_in_transaction: an unstarted
\* attempt survives the interruption of its run, and a started one without a
\* settled run is interrupted.
Recovered ==
    IF attempt \in Terminal THEN attempt
    ELSE IF attempt = "pending" /\ status \in {"queued", "interrupted"} THEN "pending"
    ELSE IF status \in Terminal THEN status
    ELSE "interrupted"

\* The run is left to the recovery of runs.
RecoverAttempt_Mut == attempt' = Recovered /\ UNCHANGED run

\* Its transaction settles the run with the attempt.
RecoverAttempt ==
    /\ attempt' = Recovered
    /\ status' = IF attempt \notin Terminal /\ status \notin Terminal /\ Recovered \in Terminal
                   THEN Recovered ELSE status
    /\ UNCHANGED <<owner, cancel>>

\* reconcile_attempt; only a pending attempt is taken further.
ReconcileAttempt(p) ==
    /\ pc[p] = "locked"
    /\ RecoverAttempt
    /\ IF Recovered = "pending" THEN Goto(p, "check") /\ UNCHANGED lock
                                ELSE Release(p)
    /\ UNCHANGED <<processes, begun, faults>>

\* start_attempt_in_transaction, in the transaction that has revalidated the
\* receiver's authority: the attempt is claimed and its run queued again.
Start(p) ==
    /\ pc[p] = "check"
    /\ IF Recovered = "pending"
         THEN /\ attempt' = "executing"
              /\ SetStatus(p, "queued")
              /\ Goto(p, "prepare")
         ELSE RecoverAttempt /\ Goto(p, "recheck")
    /\ UNCHANGED <<processes, lock, begun, faults>>

\* The receiver's authority, snapshot or inputs no longer hold, or the
\* transaction fails: nothing is claimed.
StartFails(p) ==
    /\ pc[p] = "check"
    /\ Fault
    /\ Goto(p, "refused")
    /\ UNCHANGED <<processes, attempt, run, lock, begun>>

-----------------------------------------------------------------------------
(* Execution.                                                              *)

\* The run's admission is recorded and its provider session prepared, which
\* refuses a run that is not queued or whose cancellation was requested.
Prepare(p) ==
    /\ pc[p] = "prepare"
    /\ Goto(p, IF status = "queued" /\ ~cancel THEN "invoke" ELSE "abort")
    /\ UNCHANGED <<processes, attempt, run, lock, begun, faults>>

\* The graph compiles: the run is running, and is this process's.
Begin(p) ==
    /\ pc[p] = "invoke"
    /\ SetStatus(p, "running")
    /\ Goto(p, "entered")
    /\ UNCHANGED <<processes, attempt, lock, begun, faults>>

\* It does not compile.
CompileFails(p) ==
    /\ pc[p] = "invoke"
    /\ Fault
    /\ SetStatus(p, "failed")
    /\ Goto(p, "close")
    /\ UNCHANGED <<processes, attempt, lock, begun>>

\* A cancellation requested by now stops the run before its first node.
Invoke(p) ==
    /\ pc[p] = "entered"
    /\ IF cancel
         THEN SetStatus(p, "cancelled") /\ Goto(p, "close") /\ UNCHANGED begun
         ELSE begun' = begun + 1 /\ Goto(p, "running") /\ UNCHANGED run
    /\ UNCHANGED <<processes, attempt, lock, faults>>

\* The graph returns; s is what _invoke_graph writes of it.
End(p, s) ==
    /\ pc[p] = "running"
    /\ SetStatus(p, s)
    /\ Goto(p, "close")
    /\ UNCHANGED <<processes, attempt, lock, begun, faults>>

Complete(p) == End(p, "completed")

\* The check between nodes finds the cancellation.
StopCancelled(p) == cancel /\ End(p, "cancelled")

\* A node, an effect or the recursion limit fails.
Fail(p) == End(p, "failed")

\* A child run outlasts its wait: the parent waits for the receipt.
StopWaiting(p) == End(p, "interrupted")

\* The provider claim is released.
Close(p) ==
    /\ pc[p] = "close"
    /\ Goto(p, "finish")
    /\ UNCHANGED <<processes, attempt, run, lock, begun, faults>>

\* It is not, and the run fails whatever it was.  The write expects the
\* status of the outcome, which nobody else changes.
CloseFails(p) ==
    /\ pc[p] = "close"
    /\ Fault
    /\ SetStatus(p, "failed")
    /\ Goto(p, "finish")
    /\ UNCHANGED <<processes, attempt, lock, begun>>

-----------------------------------------------------------------------------
(* The handlers and the end of the worker.                                 *)

\* The admission or the provider refuses, or the status of the run cannot be
\* written, and the exception reaches the worker's handler.
Raise(p) ==
    /\ pc[p] \in {"prepare", "invoke", "entered", "running", "close"}
    /\ Fault
    /\ Goto(p, "abort")
    /\ UNCHANGED <<processes, attempt, run, lock, begun>>

\* The handler fails the run, whatever its status.
Abort(p) ==
    /\ pc[p] \in {"abort", "refused"}
    /\ SetStatus(p, "failed")
    /\ Goto(p, IF pc[p] = "abort" THEN "finish" ELSE "recheck")
    /\ UNCHANGED <<processes, attempt, lock, begun, faults>>

\* Its write fails as well; the finally clause runs all the same.
AbortFails(p) ==
    /\ pc[p] \in {"abort", "refused"}
    /\ Fault
    /\ Goto(p, IF pc[p] = "abort" THEN "finish" ELSE "recheck")
    /\ UNCHANGED <<processes, attempt, run, lock, begun>>

\* finish_attempt_in_transaction publishes a settled run's status, and
\* refuses to publish anything else.
Finish(p) ==
    /\ pc[p] = "finish"
    /\ attempt' = IF status \in Terminal THEN status ELSE attempt
    /\ Release(p)
    /\ UNCHANGED <<processes, run, begun, faults>>

\* A worker that claimed nothing reconciles once more.
Recheck(p) ==
    /\ pc[p] = "recheck"
    /\ RecoverAttempt
    /\ Release(p)
    /\ UNCHANGED <<processes, begun, faults>>

\* A transaction outside the handler fails and ends the worker.
Drop(p) ==
    /\ pc[p] \in {"locked", "finish", "recheck"}
    /\ Fault
    /\ Release(p)
    /\ UNCHANGED <<processes, attempt, run, begun>>

-----------------------------------------------------------------------------
(* The other writers of the run row, and the processes.                    *)

\* request_cancel records the intent of a run that is not settled.
Cancel ==
    /\ status \in {"queued", "running"}
    /\ cancel' = TRUE
    /\ UNCHANGED <<processes, attempt, status, owner, lock, pc, begun, faults>>

\* The recovery watcher interrupts the run of a dead owner.
Recover ==
    /\ server # None
    /\ status \in {"queued", "running"}
    /\ proc[owner] = "down"
    /\ status' = "interrupted"
    /\ UNCHANGED <<processes, attempt, owner, cancel, lock, pc, begun, faults>>

\* One server at a time; it starts the children.
Boot(p) ==
    /\ proc[p] = "new"
    /\ IF p \in Servers THEN server = None /\ server' = p
                        ELSE server # None /\ UNCHANGED server
    /\ proc' = [proc EXCEPT ![p] = "up"]
    /\ UNCHANGED <<deaths, attempt, run, lock, pc, begun, faults>>

\* The kernel frees what the process held.
Die(p) ==
    /\ proc[p] = "up"
    /\ deaths < MaxDeaths
    /\ deaths' = deaths + 1
    /\ proc' = [proc EXCEPT ![p] = "down"]
    /\ server' = IF server = p THEN None ELSE server
    /\ lock' = IF lock = p THEN None ELSE lock
    /\ Goto(p, "idle")
    /\ UNCHANGED <<attempt, run, begun, faults>>

-----------------------------------------------------------------------------
\* What a worker does unless something goes wrong.
Work(p) ==
    \/ Dispatch(p) \/ TryLock(p) \/ ReconcileAttempt(p) \/ Start(p)
    \/ Prepare(p) \/ Begin(p) \/ Invoke(p)
    \/ Complete(p) \/ StopCancelled(p) \/ Fail(p) \/ StopWaiting(p)
    \/ Close(p) \/ Abort(p) \/ Finish(p) \/ Recheck(p)

GoWrong(p) ==
    \/ DispatchFails(p) \/ StartFails(p) \/ CompileFails(p) \/ Raise(p)
    \/ CloseFails(p) \/ AbortFails(p) \/ Drop(p) \/ Die(p)

Step(p) == Accept(p) \/ Replay(p) \/ Reconcile(p) \/ Work(p) \/ GoWrong(p) \/ Boot(p)

Next == Cancel \/ Recover \/ \E p \in Procs : Step(p)

Spec == Init /\ [][Next]_vars

\* A server is started again, its reconciler comes round, and executor
\* threads run; nodes time out, so a graph ends.
Fairness == \A p \in Procs : WF_vars(Work(p)) /\ WF_vars(Reconcile(p)) /\ WF_vars(Boot(p))

FairSpec == Spec /\ Fairness
-----------------------------------------------------------------------------
(* Properties.                                                             *)

\* The sender's projection of the attempt (_receipt).
Receipt == CASE attempt = "pending" -> "accepted"
             [] attempt = "executing" -> "running"
             [] OTHER -> attempt

Sender == INSTANCE DeliveryReceipt WITH receipt <- Receipt, starts <- begun

\* Whatever dies, fails or is dispatched again, the receipt keeps what
\* DeliveryReceipt promises: one execution at most, no replay of work that
\* may have begun, and a first result that stays.
PromiseKept == Sender!Spec

\* A settled attempt and its run tell the two parties the same story, though
\* two transactions write them and the worker may die between the two.
ReceiptAgrees == attempt \in Terminal => status = attempt

\* No recovery settles a run whose graph a live worker is executing: not the
\* watcher, not the reconciler, not another process's worker
\* (run-owner-proof, "never interrupt one whose owner is alive").
LiveRunStays ==
    \A p \in Procs : pc[p] \in {"entered", "running"} => status = "running"

\* An accepted delivery settles: its intent survives every crash and error
\* between acceptance, dispatch, claim and the final receipt.
DeliverySettles == attempt = "pending" ~> attempt \in Terminal

\* What recover_attempt_in_transaction says of itself: an interruption mark
\* alone must not destroy the durable intent.  With no fault, refusal or
\* cancellation, work that never began does not fail.
IntentSurvives == attempt = "failed" /\ begun = 0 => faults > 0 \/ cancel
=============================================================================
