----------------------- MODULE GraphDeliveriesProofs ------------------------
(***************************************************************************)
(* The safety of a delivery: one worker holds the attempt's lock, its      *)
(* place in the program tells what the attempt and the run row say, and    *)
(* from that the receipt keeps its promise.                                *)
(***************************************************************************)
EXTENDS GraphDeliveries, TLAPS

USE DeliveryAssumption

\* The places of a worker that has claimed the attempt.
Claimed == {"prepare", "invoke", "entered", "running", "close", "abort", "finish"}

\* Nobody is at a held place without the lock, and so at most one is.
Exclusive == \A p \in Procs : pc[p] \in Held => lock = p

\* A worker belongs to a live process and to an accepted delivery; the server
\* that dispatches again is alive.
Living ==
    /\ \A p \in Procs : pc[p] # "idle" => proc[p] = "up" /\ attempt # "none"
    /\ \A p \in Procs : server = p => proc[p] = "up"

\* What a worker's place tells about the attempt, the run and the execution.
Place(p) ==
    /\ pc[p] \in {"check", "refused"} => attempt = "pending"
    /\ pc[p] \in Claimed => attempt = "executing"
    /\ pc[p] = "recheck" => attempt # "executing"
    /\ pc[p] \in {"prepare", "invoke", "entered"} => begun = 0
    /\ pc[p] \in {"entered", "running"} => status = "running" /\ owner = p
    /\ pc[p] = "running" => begun = 1

Placed == \A p \in Procs : Place(p)

\* What attempt, run and execution tell about each other wherever the workers
\* are.  The run of an attempt that was not claimed has not started: recovery
\* may have interrupted it, or a refused worker failed it.
Story ==
    /\ attempt \in {"none", "pending"} => begun = 0
    /\ attempt = "pending" => status \in {"queued", "interrupted", "failed"}
    /\ begun <= 1
    /\ status = "completed" => begun = 1

IInv == TypeOK /\ Exclusive /\ Living /\ Placed /\ Story /\ ReceiptAgrees
-----------------------------------------------------------------------------
(* The invariant holds initially and every step keeps it.                  *)

LEMMA InitIInv == Init => IInv
<1> SUFFICES ASSUME Init PROVE IInv
  OBVIOUS
<1>1. TypeOK
  <2>1. MaxDeaths \in Nat /\ MaxFaults \in Nat
    OBVIOUS
  <2>2. deaths \in 0..MaxDeaths /\ faults \in 0..MaxFaults /\ begun \in Nat
    BY <2>1 DEF Init
  <2>3. cancel \in BOOLEAN
    BY DEF Init
  <2> QED
    BY <2>2, <2>3 DEF Init, TypeOK, Terminal
<1>2. Exclusive /\ Living /\ Placed
  BY DEF Init, Exclusive, Living, Placed, Place, Held, Claimed, Procs
<1>3. Story /\ ReceiptAgrees
  BY DEF Init, Story, ReceiptAgrees, Terminal
<1> QED
  BY <1>1, <1>2, <1>3 DEF IInv

LEMMA StepIInv == IInv /\ [Next]_vars => IInv'
<1> SUFFICES ASSUME IInv, [Next]_vars PROVE IInv'
  OBVIOUS
<1> USE DEF IInv, TypeOK, Exclusive, Living, Placed, Place, Story, ReceiptAgrees, Held,
            Claimed, Terminal, processes, run
<1>1. ASSUME NEW p \in Procs, Accept(p) PROVE IInv'
  BY <1>1 DEF Accept, Goto
<1>2. ASSUME NEW p \in Procs, Replay(p) PROVE IInv'
  BY <1>2 DEF Replay, Goto
<1>3. ASSUME NEW p \in Procs, Dispatch(p) PROVE IInv'
  BY <1>3 DEF Dispatch, Goto
<1>4. ASSUME NEW p \in Procs, DispatchFails(p) PROVE IInv'
  BY <1>4 DEF DispatchFails, Goto, Fault
<1>5. ASSUME NEW p \in Procs, Reconcile(p) PROVE IInv'
  BY <1>5 DEF Reconcile, Goto
<1>6. ASSUME NEW p \in Procs, TryLock(p) PROVE IInv'
  <2>1. CASE lock = None
    BY <1>6, <2>1 DEF TryLock, Goto
  <2>2. CASE lock # None
    BY <1>6, <2>2 DEF TryLock, Goto
  <2> QED
    BY <2>1, <2>2
<1>7. ASSUME NEW p \in Procs, ReconcileAttempt(p) PROVE IInv'
  BY <1>7 DEF ReconcileAttempt, Goto, Release, RecoverAttempt, Recovered
<1>8. ASSUME NEW p \in Procs, Start(p) PROVE IInv'
  BY <1>8 DEF Start, Goto, SetStatus, RecoverAttempt, Recovered
<1>9. ASSUME NEW p \in Procs, StartFails(p) PROVE IInv'
  BY <1>9 DEF StartFails, Goto, Fault
<1>10. ASSUME NEW p \in Procs, Prepare(p) PROVE IInv'
  BY <1>10 DEF Prepare, Goto
<1>11. ASSUME NEW p \in Procs, Begin(p) PROVE IInv'
  BY <1>11 DEF Begin, Goto, SetStatus
<1>12. ASSUME NEW p \in Procs, CompileFails(p) PROVE IInv'
  BY <1>12 DEF CompileFails, Goto, SetStatus, Fault
<1>13. ASSUME NEW p \in Procs, Invoke(p) PROVE IInv'
  BY <1>13 DEF Invoke, Goto, SetStatus
<1>14. ASSUME NEW p \in Procs, Complete(p) PROVE IInv'
  BY <1>14 DEF Complete, End, Goto, SetStatus
<1>15. ASSUME NEW p \in Procs, StopCancelled(p) PROVE IInv'
  BY <1>15 DEF StopCancelled, End, Goto, SetStatus
<1>16. ASSUME NEW p \in Procs, Fail(p) PROVE IInv'
  BY <1>16 DEF Fail, End, Goto, SetStatus
<1>17. ASSUME NEW p \in Procs, StopWaiting(p) PROVE IInv'
  BY <1>17 DEF StopWaiting, End, Goto, SetStatus
<1>18. ASSUME NEW p \in Procs, Close(p) PROVE IInv'
  BY <1>18 DEF Close, Goto
<1>19. ASSUME NEW p \in Procs, CloseFails(p) PROVE IInv'
  BY <1>19 DEF CloseFails, Goto, SetStatus, Fault
<1>20. ASSUME NEW p \in Procs, Raise(p) PROVE IInv'
  BY <1>20 DEF Raise, Goto, Fault
<1>21. ASSUME NEW p \in Procs, Abort(p) PROVE IInv'
  BY <1>21 DEF Abort, Goto, SetStatus
<1>22. ASSUME NEW p \in Procs, AbortFails(p) PROVE IInv'
  BY <1>22 DEF AbortFails, Goto, Fault
<1>23. ASSUME NEW p \in Procs, Finish(p) PROVE IInv'
  BY <1>23 DEF Finish, Release, Goto
<1>24. ASSUME NEW p \in Procs, Recheck(p) PROVE IInv'
  BY <1>24 DEF Recheck, Release, RecoverAttempt, Goto, Recovered
<1>25. ASSUME NEW p \in Procs, Drop(p) PROVE IInv'
  BY <1>25 DEF Drop, Release, Fault, Goto
<1>26. ASSUME NEW p \in Procs, Boot(p) PROVE IInv'
  BY <1>26 DEF Boot
<1>27. ASSUME NEW p \in Procs, Die(p) PROVE IInv'
  BY <1>27 DEF Die, Goto
<1>28. ASSUME Cancel PROVE IInv'
  BY <1>28 DEF Cancel
<1>29. ASSUME Recover PROVE IInv'
  BY <1>29 DEF Recover
<1>30. ASSUME UNCHANGED vars PROVE IInv'
  BY <1>30 DEF vars
<1> QED
  BY <1>1, <1>2, <1>3, <1>4, <1>5, <1>6, <1>7, <1>8, <1>9, <1>10, <1>11, <1>12, <1>13, <1>14, <1>15, <1>16, <1>17, <1>18, <1>19, <1>20, <1>21, <1>22, <1>23, <1>24, <1>25, <1>26, <1>27, <1>28, <1>29, <1>30 DEF Next, Step, Work, GoWrong

LEMMA InvHolds == Spec => []IInv
  BY InitIInv, StepIInv, PTL DEF Spec

-----------------------------------------------------------------------------
(* Theorems.                                                               *)

\* The types of GraphDeliveries are kept by every step.
THEOREM TypeCorrect == Spec => []TypeOK
<1>1. IInv => TypeOK
  BY DEF IInv
<1> QED
  BY <1>1, InvHolds, PTL

\* A settled attempt and its run say the same, whoever settled either of them.
THEOREM ReceiptAgreesHolds == Spec => []ReceiptAgrees
<1>1. IInv => ReceiptAgrees
  BY DEF IInv
<1> QED
  BY <1>1, InvHolds, PTL

\* No recovery settles the run of a graph that a live worker executes.
THEOREM LiveRunStaysHolds == Spec => []LiveRunStays
<1>1. IInv => LiveRunStays
  BY DEF IInv, Placed, Place, LiveRunStays
<1> QED
  BY <1>1, InvHolds, PTL

-----------------------------------------------------------------------------
(* The delivery implements its receipt.                                    *)

LEMMA ReceiptOfInit == Init => Sender!Init
  BY DEF Init, Sender!Init, Receipt

\* The three ways in which a recovery changes the attempt: not at all, or to a
\* result, of a claimed attempt or of one that a refused worker failed.
LEMMA RecoveredReceipt ==
    ASSUME IInv, RecoverAttempt, attempt # "none", UNCHANGED begun
    PROVE  Sender!Refuse \/ Sender!Settle \/ UNCHANGED <<Receipt, begun>>
  BY DEF IInv, TypeOK, Story, RecoverAttempt, Recovered, Terminal, Receipt, Sender!Refuse,
         Sender!Settle, Sender!Results

LEMMA ReceiptOfStep == IInv /\ [Next]_vars => [Sender!Next]_<<Receipt, begun>>
<1> SUFFICES ASSUME IInv, [Next]_vars PROVE [Sender!Next]_<<Receipt, begun>>
  OBVIOUS
<1> USE DEF Sender!Next
<1>1. ASSUME NEW p \in Procs, Accept(p) PROVE Sender!Accept
  BY <1>1 DEF Accept, IInv, Sender!Accept, Receipt
<1>2. ASSUME NEW p \in Procs, ReconcileAttempt(p) \/ Recheck(p)
      PROVE  [Sender!Next]_<<Receipt, begun>>
  <2>1. pc[p] # "idle" /\ RecoverAttempt /\ UNCHANGED begun
    BY <1>2 DEF ReconcileAttempt, Recheck
  <2> QED
    BY <2>1, RecoveredReceipt DEF IInv, Living
<1>3. ASSUME NEW p \in Procs, Start(p) PROVE [Sender!Next]_<<Receipt, begun>>
  <2>1. attempt = "pending"
    BY <1>3 DEF Start, IInv, Placed, Place
  <2>2. CASE Recovered = "pending"
    <3>1. Sender!Execute
      BY <1>3, <2>1, <2>2 DEF Start, Sender!Execute, Receipt
    <3> QED
      BY <3>1
  <2>3. CASE Recovered # "pending"
    BY <1>3, <2>1, <2>3, RecoveredReceipt DEF Start
  <2> QED
    BY <2>2, <2>3
<1>4. ASSUME NEW p \in Procs, Invoke(p) PROVE [Sender!Next]_<<Receipt, begun>>
  <2>1. attempt = "executing" /\ begun = 0
    BY <1>4 DEF Invoke, IInv, Placed, Place, Claimed
  <2>2. CASE cancel
    BY <1>4, <2>2 DEF Invoke, Receipt
  <2>3. CASE ~cancel
    <3>1. Sender!Begin
      BY <1>4, <2>1, <2>3 DEF Invoke, Sender!Begin, Receipt
    <3> QED
      BY <3>1
  <2> QED
    BY <2>2, <2>3
<1>5. ASSUME NEW p \in Procs, Finish(p) PROVE [Sender!Next]_<<Receipt, begun>>
  <2>1. attempt = "executing"
    BY <1>5 DEF Finish, IInv, Placed, Place, Claimed
  <2>2. CASE status \in Terminal
    <3>1. Sender!Settle
      BY <1>5, <2>1, <2>2 DEF Finish, IInv, Story, Terminal, Receipt, Sender!Settle, Sender!Results
    <3> QED
      BY <3>1
  <2>3. CASE status \notin Terminal
    BY <1>5, <2>3 DEF Finish, Receipt
  <2> QED
    BY <2>2, <2>3
\* Nothing else writes the attempt or invokes the graph.
<1>6. ASSUME UNCHANGED <<attempt, begun>> PROVE UNCHANGED <<Receipt, begun>>
  BY <1>6 DEF Receipt
<1>7. ASSUME NEW p \in Procs,
             \/ Replay(p) \/ Reconcile(p) \/ Boot(p) \/ Dispatch(p) \/ TryLock(p) \/ Prepare(p)
             \/ Begin(p) \/ Complete(p) \/ StopCancelled(p) \/ Fail(p) \/ StopWaiting(p)
             \/ Close(p) \/ Abort(p) \/ GoWrong(p)
      PROVE  UNCHANGED <<attempt, begun>>
  BY <1>7 DEF Replay, Reconcile, Boot, Dispatch, TryLock, Prepare, Begin, Complete, StopCancelled,
              Fail, StopWaiting, End, Close, Abort, GoWrong, DispatchFails, StartFails,
              CompileFails, Raise, CloseFails, AbortFails, Drop, Die
<1>8. ASSUME Cancel \/ Recover \/ UNCHANGED vars PROVE UNCHANGED <<attempt, begun>>
  BY <1>8 DEF Cancel, Recover, vars
<1> QED
  BY <1>1, <1>2, <1>3, <1>4, <1>5, <1>6, <1>7, <1>8 DEF Next, Step, Work

\* One execution at most, never after an ambiguous start, and a first result that
\* stays: every step of the workers, the recoveries and the failures is a step of
\* the receipt that both parties read, or none.
THEOREM PromiseKeptHolds == Spec => PromiseKept
<1>1. Spec => Sender!Init
  BY ReceiptOfInit DEF Spec
<1>2. Spec => [][Sender!Next]_<<Receipt, begun>>
  BY InvHolds, ReceiptOfStep, PTL DEF Spec
<1> QED
  BY <1>1, <1>2, PTL DEF PromiseKept, Sender!Spec
=============================================================================
