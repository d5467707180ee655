----------------------- MODULE BranchTaskQueueProofs -----------------------
(***************************************************************************)
(* Proofs about BranchTaskQueue, for any number of tasks, workers, rows,   *)
(* faults and ticks.                                                       *)
(***************************************************************************)
EXTENDS BranchTaskQueue, FiniteSetTheorems, TLAPS, WellFoundedInduction

USE IdsAssumption, BoundsAssumption, WorkersAssumption, NoRowAssumption

-----------------------------------------------------------------------------
(* The rows of the queue file.                                             *)

\* A nonempty set of naturals has a least element.
LEMMA LeastExists ==
    ASSUME NEW S, S \subseteq Nat, S # {}
    PROVE  \E m \in S : \A k \in S : m <= k
<1> DEFINE R == OpToRel(<, Nat)
<1>1. \E x \in S : \A y \in S : ~ (<<y, x>> \in R)
  <2>1. IsWellFoundedOn(R, Nat)
    BY NatLessThanWellFounded
  <2> HIDE DEF R
  <2> QED BY <2>1, WFMin
<1>2. \A x, y \in Nat : <<y, x>> \in R <=> y < x
  BY DEF OpToRel
<1>3. PICK m \in S : \A y \in S : ~ (<<y, m>> \in R)
  BY <1>1
<1> HIDE DEF R
<1>4. \A k \in S : ~ (k < m)
  BY <1>2, <1>3
<1>5. \A k \in S : m <= k
  BY <1>4
<1> QED BY <1>5

\* The scan of the list for an id that is there ends at a row of that id.
LEMMA FirstIsRow ==
    ASSUME NEW t, Has(t)
    PROVE  First(t) \in Slots /\ rows[First(t)] # NoRow /\ rows[First(t)].id = t
<1>1. RowsOf(t) \subseteq Nat
  BY DEF RowsOf, Held, Slots
<1>2. \E m \in RowsOf(t) : \A k \in RowsOf(t) : m <= k
  BY <1>1, LeastExists DEF Has
<1>3. First(t) \in RowsOf(t)
  BY <1>2 DEF First
<1> QED BY <1>3 DEF RowsOf, Held

RowsType == rows \in [Slots -> Row \cup {NoRow}]
WorkerType ==
    /\ pc \in [Workers -> Pcs]
    /\ task \in [Workers -> Ids \cup {NoTask}]
    /\ result \in [Workers -> Terminal \cup {"none"}]
    /\ todo \in [Workers -> SUBSET PoolIds]
    /\ node \in [Workers -> 0..MaxNodeTicks]
RestType ==
    /\ tail \in 0..MaxRows
    /\ archive \in [Ids -> Terminal \cup {"none"}]
    /\ runs \in [Ids -> {"none", "unfinished", "completed"}]
    /\ starts \in [Ids -> 0..2]
    /\ cancel \in [task : Ids \cup {NoTask}, saw : {"none", "pending", "running"}]
    /\ faults \in 0..MaxFaults

LEMMA TypeParts == TypeOK <=> RowsType /\ WorkerType /\ RestType
BY DEF TypeOK, RowsType, WorkerType, RestType

\* Every rewriting of a row yields a row.
LEMMA RowRewrites ==
    ASSUME NEW r \in Row
    PROVE  /\ \A w \in Workers : Claimed(r, w) \in Row /\ Refreshed(r, w) \in Row
           /\ Reclaimed(r) \in Row
           /\ \A s \in Terminal : Marked(r, s) \in Row
           /\ [r EXCEPT !.cancel = TRUE] \in Row
           /\ [r EXCEPT !.old = TRUE] \in Row
           /\ \A n \in 0..LeaseTicks : [r EXCEPT !.lease = n] \in Row
<1>1. ASSUME NEW w \in Workers PROVE Claimed(r, w) \in Row
  <2>1. DaemonOf[w] \in Owners /\ WorkerIdOf[w] \in Executors
    BY DEF Owners, Executors
  <2>2. "running" \in Status /\ LeaseTicks \in 0..LeaseTicks
    BY DEF Status
  <2> QED BY <2>1, <2>2 DEF Row, Claimed
<1>2. Reclaimed(r) \in Row
  BY DEF Row, Reclaimed, Status, Owners
<1>3. ASSUME NEW w \in Workers PROVE Refreshed(r, w) \in Row
  <2>1. DaemonOf[w] \in Owners
    BY DEF Owners
  <2>2. LeaseTicks \in 0..LeaseTicks
    OBVIOUS
  <2> QED BY <2>1, <2>2 DEF Row, Refreshed
<1>4. \A s \in Terminal : Marked(r, s) \in Row
  BY DEF Row, Marked, Status
<1>5. [r EXCEPT !.cancel = TRUE] \in Row /\ [r EXCEPT !.old = TRUE] \in Row
  BY DEF Row
<1>6. \A n \in 0..LeaseTicks : [r EXCEPT !.lease = n] \in Row
  BY DEF Row
<1> QED BY <1>1, <1>2, <1>3, <1>4, <1>5, <1>6

LEMMA NewRowIsRow == ASSUME NEW t \in Ids PROVE NewRow(t) \in Row
BY DEF NewRow, Row, Status, NoLease, Owners, Executors

LEMMA PutType ==
    ASSUME RowsType, NEW i, NEW r \in Row, Put(i, r)
    PROVE  RowsType'
BY DEF RowsType, Put, Slots

LEMMA FirstType ==
    ASSUME RowsType, NEW t, Has(t)
    PROVE  rows[First(t)] \in Row
BY FirstIsRow DEF RowsType

LEMMA ReclaimType ==
    ASSUME RowsType, NEW S \in SUBSET Slots, \A i \in S : IsRunning(i), Reclaim(S)
    PROVE  RowsType'
<1>1. ASSUME NEW i \in S PROVE Reclaimed(rows[i]) \in Row
  BY <1>1, RowRewrites DEF RowsType, IsRunning
<1> QED BY <1>1 DEF RowsType, Reclaim, Slots

LEMMA MarkType ==
    ASSUME RowsType, NEW t, NEW s \in Terminal, MarkStatus(t, s)
    PROVE  RowsType'
<1>1. CASE MarkRaises(t, s)
  BY <1>1 DEF MarkStatus, RowsType, Slots
<1>2. CASE ~MarkRaises(t, s)
  <2>1. rows[First(t)] \in Row
    BY <1>2, FirstType DEF MarkRaises
  <2> QED BY <1>2, <2>1, RowRewrites, PutType DEF MarkStatus
<1> QED BY <1>1, <1>2

LEMMA ExitType == ASSUME WorkerType, NEW w \in Workers, Exit(w) PROVE WorkerType'
BY DEF WorkerType, Exit, Pcs

LEMMA GotoType ==
    ASSUME WorkerType, NEW w \in Workers, NEW l \in Pcs, Goto(w, l)
    PROVE  WorkerType'
BY DEF WorkerType, Goto

LEMMA DecideType ==
    ASSUME WorkerType, NEW w \in Workers, NEW l \in Pcs,
           NEW r \in Terminal \cup {"none"}, Decide(w, l, r)
    PROVE  WorkerType'
BY DEF WorkerType, Decide

\* The archive only ever takes results in.
LEMMA ArchiveType ==
    ASSUME RowsType, archive \in [Ids -> Terminal \cup {"none"}]
    PROVE  ArchiveWith(Collectable) \in [Ids -> Terminal \cup {"none"}]
<1> SUFFICES ASSUME NEW t \in Ids,
                    archive[t] = "none", {i \in Collectable : rows[i].id = t} # {}
             PROVE  LET new == {i \in Collectable : rows[i].id = t}
                    IN  rows[CHOOSE i \in new : \A j \in new : i <= j].status \in Terminal
  BY DEF ArchiveWith
<1> DEFINE new == {i \in Collectable : rows[i].id = t}
<1>1. new \subseteq Nat
  BY DEF Collectable, Held, Slots
<1>2. \E m \in new : \A k \in new : m <= k
  BY <1>1, LeastExists
<1>3. (CHOOSE i \in new : \A j \in new : i <= j) \in new
  BY <1>2
<1>4. \A i \in new : rows[i].status \in Terminal
  BY DEF Collectable
<1> HIDE DEF new
<1> QED BY <1>3, <1>4 DEF new

-----------------------------------------------------------------------------
(* Type correctness.                                                       *)

LEMMA InitType == Init => TypeOK
<1> SUFFICES ASSUME Init PROVE TypeOK
  OBVIOUS
<1>1. RowsType
  <2>1. \A t \in LegacyIds : [NewRow(t) EXCEPT !.status = "running"] \in Row
    BY DEF NewRow, Row, Status, NoLease, Ids, Owners, Executors
  <2> QED BY <2>1 DEF Init, RowsType
<1>2. WorkerType
  BY DEF Init, WorkerType, Pcs, Terminal
<1>3. RestType
  BY DEF Init, RestType, Terminal
<1> QED BY <1>1, <1>2, <1>3, TypeParts

\* What the requests of users and spawning runs do.
LEMMA ApiType == ASSUME TypeOK, Api PROVE TypeOK'
<1> USE TypeParts
<1>1. ASSUME NEW t \in Ids, SubmitRequest(t) \/ SpawnChild(t) PROVE TypeOK'
  <2>1. RowsType'
    BY <1>1, NewRowIsRow, PutType DEF SubmitRequest, SpawnChild, AppendRow
  <2>2. WorkerType' /\ RestType'
    BY <1>1 DEF SubmitRequest, SpawnChild, AppendRow, WorkerType, RestType,
                workerVars, runVars
  <2> QED BY <2>1, <2>2 DEF TypeOK, RowsType, WorkerType, RestType
<1>2. ASSUME NEW t \in Ids, CancelRead(t) PROVE TypeOK'
  <2>1. rows[First(t)].status \in {"pending", "running"}
    BY <1>2, FirstType DEF CancelRead, Row, Status
  <2> QED BY <1>2, <2>1 DEF CancelRead, TypeOK, workerVars, runVars, queueVars
<1>3. CASE CancelRunning
  <2>1. RowsType'
    <3>1. CASE Has(cancel.task) /\ rows[First(cancel.task)].status \notin Terminal
      <4>1. rows[First(cancel.task)] \in Row
        BY <3>1, FirstType
      <4> QED BY <1>3, <3>1, <4>1, RowRewrites, PutType DEF CancelRunning
    <3>2. CASE ~(Has(cancel.task) /\ rows[First(cancel.task)].status \notin Terminal)
      BY <1>3, <3>2 DEF CancelRunning, RowsType, Slots
    <3> QED BY <3>1, <3>2
  <2>2. WorkerType' /\ RestType'
    BY <1>3 DEF CancelRunning, WorkerType, RestType, workerVars, runVars
  <2> QED BY <2>1, <2>2 DEF TypeOK, RowsType, WorkerType, RestType
<1>4. CASE CancelPending
  <2>1. RowsType'
    BY <1>4, MarkType DEF CancelPending, Terminal
  <2>2. WorkerType' /\ RestType'
    BY <1>4 DEF CancelPending, WorkerType, RestType, workerVars, runVars
  <2> QED BY <2>1, <2>2 DEF TypeOK, RowsType, WorkerType, RestType
<1> QED BY <1>1, <1>2, <1>3, <1>4 DEF Api

\* What a process holds when it needs it: TypeOK alone is not inductive, since a
\* process that settles writes its result into a row.
WorkerReady ==
    \A w \in Workers :
        /\ pc[w] = "claim" \/ Executing(w) => task[w] \in Ids
        /\ pc[w] \in {"check", "settle"} => result[w] \in Terminal

\* What the dispatcher and the daemon processes do.
LEMMA WorkType ==
    ASSUME TypeOK, WorkerReady, NEW w \in Workers, Work(w)
    PROVE  TypeOK'
<1> USE TypeParts DEF Pcs
<1> USE DEF queueVars, runVars
<1>1. CASE Start(w)
  BY <1>1 DEF Start, Goto, TypeOK
<1>2. CASE ReclaimPredecessor(w)
  <2>1. RowsType'
    BY <1>2, ReclaimType DEF ReclaimPredecessor, Predecessor
  <2> QED BY <1>2, <2>1 DEF ReclaimPredecessor, Goto, TypeOK, RowsType
<1>3. CASE StartupSweep(w)
  <2>1. RowsType'
    BY <1>3, ReclaimType DEF StartupSweep, Expired
  <2> QED BY <1>3, <2>1 DEF StartupSweep, Goto, TypeOK, RowsType
<1>4. CASE GarbageCollect(w)
  <2>1. RowsType'
    BY <1>4 DEF GarbageCollect, RowsType
  <2>2. archive' \in [Ids -> Terminal \cup {"none"}]
    BY <1>4, ArchiveType DEF GarbageCollect, RestType
  <2> QED BY <1>4, <2>1, <2>2 DEF GarbageCollect, Goto, TypeOK, RowsType
<1>5. CASE ProducersRead(w)
  BY <1>5 DEF ProducersRead, Unqueued, TypeOK
<1>6. ASSUME NEW t \in PoolIds, ProducerAppends(w, t) PROVE TypeOK'
  <2>1. RowsType'
    BY <1>6, NewRowIsRow, PutType DEF ProducerAppends, AppendRow, Ids
  <2> QED BY <1>6, <2>1 DEF ProducerAppends, AppendRow, TypeOK, RowsType
<1>7. ASSUME NEW t \in PoolIds, ProducerSkips(w, t) PROVE TypeOK'
  BY <1>7 DEF ProducerSkips, TypeOK
<1>8. CASE PickSweep(w)
  <2>1. RowsType'
    BY <1>8, ReclaimType DEF PickSweep, Expired
  <2> QED BY <1>8, <2>1 DEF PickSweep, Goto, TypeOK, RowsType
<1>9. ASSUME NEW i \in Slots, Select(w, i) PROVE TypeOK'
  <2>1. rows[i].id \in Ids
    BY <1>9 DEF Select, Eligible, Held, TypeOK, Row
  <2> QED BY <1>9, <2>1 DEF Select, TypeOK
<1>10. CASE SelectNothing(w)
  BY <1>10 DEF SelectNothing, Exit, TypeOK
<1>11. CASE Claim(w)
  <2>1. rows[First(task[w])] \in Row
    BY <1>11, FirstType DEF Claim, Claimable
  <2>2. RowsType'
    BY <1>11, <2>1, RowRewrites, PutType DEF Claim
  <2> QED BY <1>11, <2>2 DEF Claim, TypeOK, RowsType
<1>12. CASE ClaimLost(w)
  BY <1>12 DEF ClaimLost, Exit, TypeOK
<1>13. CASE ReuseRun(w) \/ BranchInvalid(w)
  <2>1. WorkerType'
    BY <1>13, DecideType DEF ReuseRun, BranchInvalid, Terminal
  <2> QED BY <1>13, <2>1 DEF ReuseRun, BranchInvalid, TypeOK, WorkerType
<1>14. CASE NoRunFound(w)
  BY <1>14 DEF NoRunFound, Goto, TypeOK
<1>15. CASE LaunchBranch(w)
  <2>1. task[w] \in Ids
    BY <1>15 DEF LaunchBranch, WorkerReady, Executing
  <2>2. starts[task[w]] \in 0..2
    BY <2>1 DEF TypeOK
  <2>3. starts' \in [Ids -> 0..2]
    BY <1>15, <2>1, <2>2 DEF LaunchBranch, TypeOK
  <2> QED BY <1>15, <2>1, <2>3 DEF LaunchBranch, Goto, TypeOK
<1>16. ASSUME NEW r \in {"succeeded", "failed"}, FinishWork(w, r) PROVE TypeOK'
  <2>1. WorkerType'
    BY <1>16, DecideType DEF FinishWork, Terminal
  <2>2. runs' \in [Ids -> {"none", "unfinished", "completed"}]
    BY <1>16 DEF FinishWork, TypeOK
  <2> QED BY <1>16, <2>1, <2>2 DEF FinishWork, TypeOK, WorkerType
<1>17. CASE StreamStops(w)
  BY <1>17 DEF StreamStops, Decide, TypeOK, Terminal
<1>18. CASE StreamSeesCancel(w)
  BY <1>18 DEF StreamSeesCancel, Decide, TypeOK, Terminal
<1>19. CASE CheckCancel(w)
  BY <1>19 DEF CheckCancel, Decide, Goto, TypeOK, Terminal
<1>20. CASE Settle(w)
  <2>1. result[w] \in Terminal
    BY <1>20 DEF Settle, WorkerReady
  <2>2. RowsType'
    BY <1>20, <2>1, MarkType DEF Settle
  <2> QED BY <1>20, <2>2 DEF Settle, Exit, TypeOK, RowsType
<1> QED BY <1>1, <1>2, <1>3, <1>4, <1>5, <1>6, <1>7, <1>8, <1>9, <1>10, <1>11,
           <1>12, <1>13, <1>14, <1>15, <1>16, <1>17, <1>18, <1>19, <1>20 DEF Work

\* What goes wrong: crashes and failed accesses.
LEMMA FaultType == ASSUME TypeOK, NEW w \in Workers, Fault(w) PROVE TypeOK'
<1> USE TypeParts DEF Pcs, queueVars, runVars
<1>1. CASE CrashInGarbageCollect(w)
  <2>1. archive' \in [Ids -> Terminal \cup {"none"}]
    BY <1>1, ArchiveType DEF CrashInGarbageCollect, RestType
  <2> QED BY <1>1, <2>1 DEF CrashInGarbageCollect, Exit, TypeOK
<1>2. CASE StartupFails(w)
  BY <1>2 DEF StartupFails, Goto, TypeOK
<1>3. CASE CancelCheckFails(w)
  <2>1. WorkerType'
    BY <1>3, DecideType DEF CancelCheckFails, Terminal
  <2> QED BY <1>3, <2>1 DEF CancelCheckFails, TypeOK, WorkerType
<1>4. CASE Crash(w)
  BY <1>4 DEF Crash, Exit, TypeOK
<1> QED BY <1>1, <1>2, <1>3, <1>4 DEF Fault

LEMMA HeartbeatType == ASSUME TypeOK, NEW w \in Workers, Heartbeat(w) PROVE TypeOK'
<1> USE TypeParts
<1>1. RowsType'
  <2>1. CASE Refreshable(task[w], w)
    <3>1. rows[First(task[w])] \in Row
      BY <2>1, FirstType DEF Refreshable
    <3> QED BY <2>1, <3>1, RowRewrites, PutType DEF Heartbeat
  <2>2. CASE ~Refreshable(task[w], w)
    BY <2>2 DEF Heartbeat, RowsType, Slots
  <2> QED BY <2>1, <2>2
<1> QED BY <1>1 DEF Heartbeat, TypeOK, RowsType, runVars

\* The passing of time.
LEMMA TimeType ==
    ASSUME TypeOK, Tick \/ \E i \in Slots : Age(i)
    PROVE  TypeOK'
<1> USE TypeParts
<1>1. CASE Tick
  <2>1. RowsType'
    <3>1. ASSUME NEW i \in Slots, IsRunning(i), rows[i].lease > 0
          PROVE  [rows[i] EXCEPT !.lease = @ - 1] \in Row
      <4>1. rows[i] \in Row
        BY <3>1 DEF RowsType, IsRunning
      <4>2. rows[i].lease - 1 \in 0..LeaseTicks
        BY <3>1, <4>1 DEF Row, NoLease
      <4> QED BY <4>1, <4>2, RowRewrites
    <3> QED BY <1>1, <3>1 DEF Tick, RowsType
  <2>2. node' \in [Workers -> 0..MaxNodeTicks]
    BY <1>1 DEF Tick, TypeOK
  <2> QED BY <1>1, <2>1, <2>2 DEF Tick, TypeOK, RowsType, runVars
<1>2. ASSUME NEW i \in Slots, Age(i) PROVE TypeOK'
  <2>1. rows[i] \in Row
    BY <1>2 DEF Age, RowsType
  <2>2. RowsType'
    BY <1>2, <2>1, RowRewrites, PutType DEF Age
  <2> QED BY <1>2, <2>2 DEF Age, TypeOK, RowsType, runVars, workerVars
<1> QED BY <1>1, <1>2

LEMMA StepReady ==
    ASSUME TypeOK, WorkerReady, [Next]_vars
    PROVE  WorkerReady'
<1> USE DEF WorkerReady, Executing
<1>1. CASE Api
  BY <1>1 DEF Api, SubmitRequest, SpawnChild, CancelRead, CancelRunning, CancelPending,
              workerVars
<1>2. ASSUME NEW w \in Workers, Work(w) PROVE WorkerReady'
  <2> USE DEF TypeOK, Goto, Exit, Decide
  <2>1. CASE Start(w) \/ ReclaimPredecessor(w) \/ StartupSweep(w) \/ GarbageCollect(w)
    <3>1. PICK l \in {"boot", "sweep0", "gc", "produce"} : Goto(w, l)
      BY <2>1 DEF Start, ReclaimPredecessor, StartupSweep, GarbageCollect
    <3> QED BY <3>1
  <2>2. CASE ProducersRead(w) \/ PickSweep(w) \/ SelectNothing(w) \/ ClaimLost(w)
    <3>1. PICK l \in {"append", "sweep", "select", "down"} : pc' = [pc EXCEPT ![w] = l]
      BY <2>2 DEF ProducersRead, PickSweep, SelectNothing, ClaimLost
    <3>2. \A v \in Workers \ {w} : task'[v] = task[v] /\ result'[v] = result[v]
      BY <2>2 DEF ProducersRead, PickSweep, SelectNothing, ClaimLost
    <3> QED BY <3>1, <3>2
  <2>3. ASSUME NEW t \in PoolIds, ProducerAppends(w, t) \/ ProducerSkips(w, t)
        PROVE  WorkerReady'
    BY <2>3 DEF ProducerAppends, ProducerSkips
  <2>4. ASSUME NEW i \in Slots, Select(w, i) PROVE WorkerReady'
    <3>1. rows[i].id \in Ids
      BY <2>4 DEF Select, Eligible, Held, Row
    <3> QED BY <2>4, <3>1 DEF Select
  <2>5. CASE Claim(w) \/ NoRunFound(w) \/ LaunchBranch(w) \/ Settle(w)
    BY <2>5 DEF Claim, NoRunFound, LaunchBranch, Settle
  <2>6. CASE ReuseRun(w) \/ BranchInvalid(w)
    BY <2>6 DEF ReuseRun, BranchInvalid, Terminal
  <2>7. ASSUME NEW r \in {"succeeded", "failed"}, FinishWork(w, r) PROVE WorkerReady'
    BY <2>7 DEF FinishWork, Terminal
  <2>8. CASE StreamStops(w) \/ StreamSeesCancel(w) \/ CheckCancel(w)
    BY <2>8 DEF StreamStops, StreamSeesCancel, CheckCancel, Terminal
  <2> QED BY <1>2, <2>1, <2>2, <2>3, <2>4, <2>5, <2>6, <2>7, <2>8 DEF Work
<1>3. ASSUME NEW w \in Workers, Heartbeat(w) \/ Fault(w) PROVE WorkerReady'
  BY <1>3 DEF Heartbeat, Fault, CrashInGarbageCollect, StartupFails, CancelCheckFails,
              Crash, Goto, Exit, Decide, TypeOK, Terminal
<1>4. CASE Tick \/ \E i \in Slots : Age(i)
  BY <1>4 DEF Tick, Age, workerVars
<1>5. CASE UNCHANGED vars
  BY <1>5 DEF vars
<1> QED BY <1>1, <1>2, <1>3, <1>4, <1>5 DEF Next

IndTypeOK == TypeOK /\ WorkerReady

LEMMA StepType == IndTypeOK /\ [Next]_vars => IndTypeOK'
<1> SUFFICES ASSUME TypeOK, WorkerReady, [Next]_vars PROVE TypeOK' /\ WorkerReady'
  BY DEF IndTypeOK
<1>1. WorkerReady'
  BY StepReady
<1>2. CASE UNCHANGED vars
  <2>1. RowsType' /\ WorkerType' /\ RestType'
    BY <1>2, TypeParts DEF vars, RowsType, WorkerType, RestType
  <2> QED BY <1>1, <2>1 DEF TypeOK, RowsType, WorkerType, RestType
<1>3. ASSUME NEW w \in Workers, Work(w) \/ Heartbeat(w) \/ Fault(w) PROVE TypeOK'
  BY <1>3, WorkType, HeartbeatType, FaultType
<1> QED BY <1>1, <1>2, <1>3, ApiType, TimeType DEF Next

\* The state of the queue, of its archive, of every daemon process and of the
\* cancel request in flight always has its type: no step writes a status, a
\* lease or an owner that another operation could not read.
THEOREM TypeCorrect == Spec => []TypeOK
<1>1. Init => IndTypeOK
  BY InitType DEF IndTypeOK, Init, WorkerReady, Executing
<1>2. IndTypeOK => TypeOK
  BY DEF IndTypeOK
<1> QED BY <1>1, <1>2, StepType, PTL DEF Spec

-----------------------------------------------------------------------------
(* Rows and archive: the four ways in which a step may change them.  An id   *)
(* is queued at most once, unless it is a goal-pool post, which two           *)
(* processes may both append, and which comes back once it is archived.       *)

Unique ==
    \A i, j \in Held : rows[i].id = rows[j].id /\ rows[i].id \in Tasks => i = j
FreshTail == \A i \in Slots : i > tail => rows[i] = NoRow
ArchivedIsDone ==
    \A i \in Held : rows[i].id \in Tasks /\ archive[rows[i].id] # "none" =>
        rows[i].status = archive[rows[i].id]
QueueInv == TypeOK /\ WorkerReady /\ Unique /\ FreshTail /\ ArchivedIsDone

\* A task that has its result, in the queue or in the archive.
Done(t) == archive[t] # "none" \/ \E i \in Held : rows[i].id = t /\ rows[i].status \in Terminal

LEMMA FirstIsOnly ==
    ASSUME Unique, NEW i \in Held, rows[i].id \in Tasks
    PROVE  Has(rows[i].id) /\ First(rows[i].id) = i
<1>1. i \in RowsOf(rows[i].id)
  BY DEF RowsOf
<1>2. \A j \in RowsOf(rows[i].id) : j = i
  BY DEF RowsOf, Unique
<1>3. Has(rows[i].id)
  BY <1>1 DEF Has
<1>4. First(rows[i].id) \in Held /\ rows[First(rows[i].id)].id = rows[i].id
  BY <1>3, FirstIsRow DEF Held
<1> QED BY <1>3, <1>4 DEF Unique

\* How a step may change the two files: it rewrites rows ...
Resolves(i) ==
    rows[i] # NoRow /\ rows[i].status \notin Terminal /\ rows'[i].status \in Terminal
Rewrites ==
    /\ UNCHANGED <<tail, archive>>
    /\ \A i \in Slots :
        /\ rows'[i] = NoRow <=> rows[i] = NoRow
        /\ rows[i] # NoRow => /\ rows'[i].id = rows[i].id
                              /\ rows[i].status \in Terminal => rows'[i].status = rows[i].status
                              /\ rows[i].cancel => rows'[i].cancel
    /\ \A i, j \in Slots : Resolves(i) /\ Resolves(j) => i = j
\* ... or appends a task that is not there ...
Appends(t) ==
    /\ AppendRow(t) /\ t \in Tasks
    /\ ~Has(t) /\ archive[t] = "none" /\ UNCHANGED archive
    /\ t \in ChildIds => Lineage < MaxLineage
\* ... or, the producers only, a post whatever there is ...
AppendsPost == UNCHANGED archive /\ \E t \in PoolIds : AppendRow(t)
\* ... or archives what is done.
Collects ==
    /\ tail' = tail
    /\ archive' = ArchiveWith(Collectable)
    /\ \/ rows' = rows
       \/ rows' = [i \in Slots |-> IF i \in Collectable THEN NoRow ELSE rows[i]]

\* The archive takes over exactly the status of the only row.
LEMMA ArchiveTakes ==
    ASSUME QueueInv, NEW i \in Held, rows[i].id \in Tasks
    PROVE  /\ i \in Collectable => ArchiveWith(Collectable)[rows[i].id] = rows[i].status
           /\ i \notin Collectable =>
                ArchiveWith(Collectable)[rows[i].id] = archive[rows[i].id]
<1> DEFINE t == rows[i].id
           new == {j \in Collectable : rows[j].id = t}
<1>1. t \in Ids
  BY DEF QueueInv, TypeOK, Held, Row
<1>2. ArchiveWith(Collectable)[t] =
        IF archive[t] = "none" /\ new # {}
        THEN rows[CHOOSE k \in new : \A j \in new : k <= j].status ELSE archive[t]
  BY <1>1 DEF ArchiveWith
<1>3. \A j \in new : j = i
  BY DEF Collectable, QueueInv, Unique
<1>4. ASSUME i \in Collectable PROVE ArchiveWith(Collectable)[t] = rows[i].status
  <2>1. i \in new /\ i \in Nat
    BY <1>4 DEF Collectable, Held, Slots
  <2>2. \E k \in new : \A j \in new : k <= j
    BY <1>3, <2>1
  <2>3. (CHOOSE k \in new : \A j \in new : k <= j) = i
    BY <1>3, <2>2
  <2> QED BY <1>2, <2>1, <2>3 DEF QueueInv, ArchivedIsDone
<1>5. ASSUME i \notin Collectable PROVE ArchiveWith(Collectable)[t] = archive[t]
  BY <1>2, <1>3, <1>5
<1> QED BY <1>4, <1>5

LEMMA ArchiveKeeps ==
    ASSUME NEW t \in Ids, archive[t] # "none"
    PROVE  ArchiveWith(Collectable)[t] = archive[t]
BY DEF ArchiveWith

\* The four ways keep the ids unique and the two files in agreement.
LEMMA RewritesInv ==
    ASSUME QueueInv, Rewrites, TypeOK'
    PROVE  Unique' /\ FreshTail' /\ ArchivedIsDone'
<1>1. Unique' /\ FreshTail'
  BY DEF Rewrites, QueueInv, Unique, FreshTail, Held
<1>2. ASSUME NEW i \in Held', rows'[i].id \in Tasks, archive'[rows'[i].id] # "none"
      PROVE  rows'[i].status = archive'[rows'[i].id]
  <2>1. i \in Held /\ rows'[i].id = rows[i].id
    BY <1>2 DEF Held, Rewrites
  <2>2. rows[i].status = archive[rows[i].id] /\ archive[rows[i].id] # "none"
    BY <1>2, <2>1 DEF QueueInv, ArchivedIsDone, Rewrites
  <2>3. rows[i].status \in Terminal
    BY <2>1, <2>2 DEF QueueInv, TypeOK, Held, Row
  <2> QED BY <2>1, <2>2, <2>3 DEF Rewrites, Held
<1> QED BY <1>1, <1>2 DEF ArchivedIsDone

LEMMA AppendsInv ==
    ASSUME QueueInv, NEW t \in Ids, Appends(t), TypeOK'
    PROVE  Unique' /\ FreshTail' /\ ArchivedIsDone'
<1>1. tail + 1 \in Slots /\ rows[tail + 1] = NoRow
  BY DEF Appends, AppendRow, QueueInv, TypeOK, FreshTail, Slots
<1>2. rows'[tail + 1] = NewRow(t) /\ \A i \in Slots \ {tail + 1} : rows'[i] = rows[i]
  BY <1>1 DEF Appends, AppendRow, Put, QueueInv, TypeOK
<1>3. NewRow(t) \in Row /\ NewRow(t).id = t
  <2>1. NewRow(t) \in Row
    BY NewRowIsRow
  <2>2. NewRow(t).id = t
    BY DEF NewRow
  <2> QED BY <2>1, <2>2
<1>4. \A i \in Held : rows[i].id # t
  BY DEF Appends, Has, RowsOf
<1>5. Unique'
  BY <1>1, <1>2, <1>3, <1>4 DEF QueueInv, Unique, Held
<1>6. FreshTail'
  BY <1>2 DEF Appends, AppendRow, QueueInv, FreshTail, TypeOK, Slots
<1>7. ArchivedIsDone'
  BY <1>1, <1>2, <1>3 DEF Appends, QueueInv, ArchivedIsDone, Held
<1> QED BY <1>5, <1>6, <1>7

LEMMA AppendsPostInv ==
    ASSUME QueueInv, AppendsPost, TypeOK'
    PROVE  Unique' /\ FreshTail' /\ ArchivedIsDone'
<1>0. PICK t \in PoolIds : AppendRow(t) /\ UNCHANGED archive
  BY DEF AppendsPost
<1>1. tail + 1 \in Slots /\ rows[tail + 1] = NoRow
  BY <1>0 DEF AppendRow, QueueInv, TypeOK, FreshTail, Slots
<1>2. rows'[tail + 1] = NewRow(t) /\ \A i \in Slots \ {tail + 1} : rows'[i] = rows[i]
  BY <1>0, <1>1 DEF AppendRow, Put, QueueInv, TypeOK
<1>3. NewRow(t).id \notin Tasks
  BY DEF NewRow, Tasks
<1>4. Unique'
  BY <1>1, <1>2, <1>3 DEF QueueInv, Unique, Held
<1>5. FreshTail'
  BY <1>0, <1>2 DEF AppendRow, QueueInv, FreshTail, TypeOK, Slots
<1>6. ArchivedIsDone'
  BY <1>0, <1>1, <1>2, <1>3 DEF QueueInv, ArchivedIsDone, Held
<1> QED BY <1>4, <1>5, <1>6

LEMMA CollectsInv ==
    ASSUME QueueInv, Collects, TypeOK'
    PROVE  Unique' /\ FreshTail' /\ ArchivedIsDone'
<1>1. \A i \in Held' : i \in Held /\ rows'[i] = rows[i]
  BY DEF Collects, Held, QueueInv, TypeOK
<1>2. Unique'
  BY <1>1 DEF QueueInv, Unique
<1>3. FreshTail'
  BY DEF Collects, QueueInv, FreshTail, TypeOK
<1>4. ASSUME NEW i \in Held', rows'[i].id \in Tasks, archive'[rows'[i].id] # "none"
      PROVE  rows'[i].status = archive'[rows'[i].id]
  <2>1. i \in Held /\ rows'[i] = rows[i]
    BY <1>1, <1>4
  <2> QED BY <1>4, <2>1, ArchiveTakes DEF Collects, QueueInv, ArchivedIsDone
<1> QED BY <1>2, <1>3, <1>4 DEF ArchivedIsDone

-----------------------------------------------------------------------------
(* Every step has one of these shapes.                                     *)

LEMMA PutRewrites ==
    ASSUME TypeOK, NEW i \in Slots, rows[i] # NoRow, NEW r \in Row,
           r.id = rows[i].id, rows[i].status \in Terminal => r.status = rows[i].status,
           rows[i].cancel => r.cancel,
           Put(i, r), UNCHANGED <<tail, archive>>
    PROVE  Rewrites
<1>1. rows'[i] = r /\ \A j \in Slots \ {i} : rows'[j] = rows[j]
  BY DEF Put, TypeOK
<1>2. r # NoRow
  BY NoRowAssumption
<1>3. \A j \in Slots : Resolves(j) => j = i
  BY <1>1 DEF Resolves
<1> QED BY <1>1, <1>2, <1>3 DEF Rewrites

LEMMA SameRewrites == ASSUME UNCHANGED queueVars PROVE Rewrites
BY DEF Rewrites, Resolves, queueVars

LEMMA ReclaimRewrites ==
    ASSUME TypeOK, NEW S \in SUBSET Slots, \A i \in S : IsRunning(i), Reclaim(S),
           UNCHANGED <<tail, archive>>
    PROVE  Rewrites
<1> SUFFICES ASSUME NEW i \in Slots
             PROVE  /\ rows'[i] = NoRow <=> rows[i] = NoRow
                    /\ rows[i] # NoRow =>
                         /\ rows'[i].id = rows[i].id
                         /\ rows[i].status \in Terminal <=> rows'[i].status \in Terminal
                         /\ rows[i].status \in Terminal => rows'[i].status = rows[i].status
                         /\ rows[i].cancel => rows'[i].cancel
  BY DEF Rewrites, Resolves
<1>1. CASE i \in S
  <2>1. rows[i] \in Row /\ rows[i] # NoRow /\ rows[i].status = "running"
    BY <1>1 DEF IsRunning, TypeOK
  <2>2. rows'[i] = Reclaimed(rows[i])
    BY <1>1 DEF Reclaim
  <2>3. Reclaimed(rows[i]) # NoRow
    BY <2>1, RowRewrites, NoRowAssumption
  <2>4. /\ Reclaimed(rows[i]).id = rows[i].id /\ Reclaimed(rows[i]).status = "pending"
        /\ Reclaimed(rows[i]).cancel = rows[i].cancel
    BY <2>1 DEF Reclaimed, Row
  <2> QED BY <2>1, <2>2, <2>3, <2>4 DEF Terminal
<1>2. CASE i \notin S
  BY <1>2 DEF Reclaim
<1> QED BY <1>1, <1>2

LEMMA MarkRewrites ==
    ASSUME TypeOK, NEW t, NEW s \in Terminal, MarkStatus(t, s), UNCHANGED <<tail, archive>>
    PROVE  Rewrites
<1>1. CASE MarkRaises(t, s)
  BY <1>1 DEF MarkStatus, Rewrites, Resolves
<1>2. CASE ~MarkRaises(t, s)
  <2>1. Has(t)
    BY <1>2 DEF MarkRaises
  <2>2. First(t) \in Slots /\ rows[First(t)] # NoRow /\ rows[First(t)] \in Row
    BY <2>1, FirstIsRow DEF TypeOK
  <2> DEFINE r == Marked(rows[First(t)], s)
  <2>3. r \in Row
    BY <2>2, RowRewrites
  <2>4. r.id = rows[First(t)].id /\ r.cancel = rows[First(t)].cancel
    BY <2>2 DEF Marked, Row
  <2>5. rows[First(t)].status \in Terminal => r.status = rows[First(t)].status
    BY DEF Marked
  <2>6. Put(First(t), r)
    BY <1>2 DEF MarkStatus
  <2> HIDE DEF r
  <2> QED BY <2>2, <2>3, <2>4, <2>5, <2>6, PutRewrites
<1> QED BY <1>1, <1>2

LEMMA ActionShapes ==
    ASSUME IndTypeOK, [Next]_vars
    PROVE  \/ Rewrites \/ Collects \/ \E t \in Ids : Appends(t)
           \/ \E w \in Workers, t \in PoolIds : ProducerAppends(w, t)
<1> USE SameRewrites DEF IndTypeOK, queueVars
<1>1. ASSUME NEW t \in Ids, SubmitRequest(t) \/ SpawnChild(t) PROVE Appends(t)
  BY <1>1, IdsAssumption DEF SubmitRequest, SpawnChild, Appends, Tasks
<1>2. ASSUME NEW t \in Ids, CancelRead(t) PROVE Rewrites
  BY <1>2 DEF CancelRead
<1>3. CASE CancelRunning
  <2> DEFINE f == First(cancel.task)
  <2>1. CASE Has(cancel.task) /\ rows[f].status \notin Terminal
    <3>1. f \in Slots /\ rows[f] # NoRow /\ rows[f] \in Row
      BY <2>1, FirstIsRow DEF TypeOK
    <3>2. [rows[f] EXCEPT !.cancel = TRUE] \in Row
      BY <3>1, RowRewrites
    <3>3. /\ [rows[f] EXCEPT !.cancel = TRUE].id = rows[f].id
          /\ [rows[f] EXCEPT !.cancel = TRUE].cancel
      BY <3>1 DEF Row
    <3>4. Put(f, [rows[f] EXCEPT !.cancel = TRUE]) /\ UNCHANGED <<tail, archive>>
      BY <1>3, <2>1 DEF CancelRunning
    <3> HIDE DEF f
    <3> QED BY <2>1, <3>1, <3>2, <3>3, <3>4, PutRewrites
  <2>2. CASE ~(Has(cancel.task) /\ rows[f].status \notin Terminal)
    BY <1>3, <2>2 DEF CancelRunning
  <2> QED BY <2>1, <2>2
<1>4. CASE CancelPending
  BY <1>4, MarkRewrites DEF CancelPending, Terminal
<1>5. ASSUME NEW w \in Workers,
             ReclaimPredecessor(w) \/ StartupSweep(w) \/ PickSweep(w)
      PROVE  Rewrites
  BY <1>5, ReclaimRewrites
     DEF ReclaimPredecessor, StartupSweep, PickSweep, Predecessor, Expired
<1>6. ASSUME NEW w \in Workers, GarbageCollect(w) \/ CrashInGarbageCollect(w) PROVE Collects
  BY <1>6 DEF GarbageCollect, CrashInGarbageCollect, Collects
<1>7. ASSUME NEW w \in Workers, Claim(w) PROVE Rewrites
  <2> DEFINE f == First(task[w])
  <2>1. f \in Slots /\ rows[f] # NoRow /\ rows[f] \in Row /\ rows[f].status = "pending"
    BY <1>7, FirstIsRow DEF Claim, Claimable, TypeOK
  <2>2. Claimed(rows[f], w) \in Row
    BY <2>1, RowRewrites
  <2>3. Claimed(rows[f], w).id = rows[f].id /\ Claimed(rows[f], w).cancel = rows[f].cancel
    BY <2>1 DEF Claimed, Row
  <2>4. Put(f, Claimed(rows[f], w)) /\ UNCHANGED <<tail, archive>>
    BY <1>7 DEF Claim
  <2> HIDE DEF f
  <2> QED BY <2>1, <2>2, <2>3, <2>4, PutRewrites DEF Terminal
<1>8. ASSUME NEW w \in Workers, Settle(w) PROVE Rewrites
  BY <1>8, MarkRewrites DEF Settle, WorkerReady
<1>9. ASSUME NEW w \in Workers,
             \/ Start(w) \/ ProducersRead(w) \/ (\E i \in Slots : Select(w, i))
             \/ SelectNothing(w) \/ ClaimLost(w) \/ ReuseRun(w) \/ BranchInvalid(w) \/ NoRunFound(w)
             \/ LaunchBranch(w) \/ (\E r \in {"succeeded", "failed"} : FinishWork(w, r))
             \/ StreamStops(w) \/ StreamSeesCancel(w) \/ CheckCancel(w)
             \/ StartupFails(w) \/ CancelCheckFails(w) \/ Crash(w)
      PROVE  Rewrites
  BY <1>9 DEF Start, ProducersRead, Select, SelectNothing, ClaimLost, ReuseRun, BranchInvalid, NoRunFound,
              LaunchBranch, FinishWork, StreamStops, StreamSeesCancel, CheckCancel,
              StartupFails, CancelCheckFails, Crash
<1>10. ASSUME NEW w \in Workers, Heartbeat(w) PROVE Rewrites
  <2> DEFINE f == First(task[w])
  <2>1. CASE Refreshable(task[w], w)
    <3>1. f \in Slots /\ rows[f] # NoRow /\ rows[f] \in Row /\ rows[f].status = "running"
      BY <2>1, FirstIsRow DEF Refreshable, TypeOK
    <3>2. Refreshed(rows[f], w) \in Row
      BY <3>1, RowRewrites
    <3>3. /\ Refreshed(rows[f], w).id = rows[f].id
          /\ Refreshed(rows[f], w).cancel = rows[f].cancel
      BY <3>1 DEF Refreshed, Row
    <3>4. Put(f, Refreshed(rows[f], w)) /\ UNCHANGED <<tail, archive>>
      BY <1>10, <2>1 DEF Heartbeat
    <3> HIDE DEF f
    <3> QED BY <3>1, <3>2, <3>3, <3>4, PutRewrites DEF Terminal
  <2>2. CASE ~Refreshable(task[w], w)
    BY <1>10, <2>2 DEF Heartbeat
  <2> QED BY <2>1, <2>2
<1>11. CASE Tick
  <2>1. ASSUME NEW i \in Slots
        PROVE  /\ rows'[i] = NoRow <=> rows[i] = NoRow
               /\ rows[i] # NoRow => /\ rows'[i].id = rows[i].id
                                     /\ rows'[i].status = rows[i].status
                                     /\ rows'[i].cancel = rows[i].cancel
    <3>1. CASE ~(IsRunning(i) /\ rows[i].lease > 0)
      <4>1. rows'[i] = rows[i]
        BY <1>11, <3>1 DEF Tick
      <4> QED BY <4>1
    <3>2. CASE IsRunning(i) /\ rows[i].lease > 0
      <4>1. rows[i] \in Row /\ rows[i] # NoRow
        BY <3>2 DEF IsRunning, TypeOK
      <4>2. rows'[i] = [rows[i] EXCEPT !.lease = rows[i].lease - 1]
        BY <1>11, <3>2 DEF Tick
      <4>3. rows[i].lease - 1 \in 0..LeaseTicks
        BY <3>2, <4>1, BoundsAssumption DEF Row, NoLease
      <4>4. [rows[i] EXCEPT !.lease = rows[i].lease - 1] \in Row
        <5> DEFINE r == rows[i]
                   n == rows[i].lease - 1
        <5>1. r \in Row /\ n \in 0..LeaseTicks
          BY <4>1, <4>3
        <5> HIDE DEF r, n
        <5>2. [r EXCEPT !.lease = n] \in Row
          BY <5>1, RowRewrites
        <5> QED BY <5>2 DEF r, n
      <4>5. rows'[i] # NoRow
        BY <4>2, <4>4
      <4>6. /\ rows'[i].id = rows[i].id /\ rows'[i].status = rows[i].status
            /\ rows'[i].cancel = rows[i].cancel
        BY <4>1, <4>2 DEF Row
      <4> QED BY <4>1, <4>5, <4>6
    <3> QED BY <3>1, <3>2
  <2> QED BY <1>11, <2>1 DEF Tick, Rewrites, Resolves
<1>12. ASSUME NEW i \in Slots, Age(i) PROVE Rewrites
  <2>1. rows[i] \in Row /\ rows[i] # NoRow
    BY <1>12 DEF Age, TypeOK
  <2>2. [rows[i] EXCEPT !.old = TRUE] \in Row
    BY <2>1, RowRewrites
  <2>3. /\ [rows[i] EXCEPT !.old = TRUE].id = rows[i].id
        /\ [rows[i] EXCEPT !.old = TRUE].status = rows[i].status
        /\ [rows[i] EXCEPT !.old = TRUE].cancel = rows[i].cancel
    BY <2>1 DEF Row
  <2> QED BY <1>12, <2>1, <2>2, <2>3, PutRewrites DEF Age
<1>13. CASE UNCHANGED vars
  BY <1>13 DEF vars
<1>14. ASSUME NEW w \in Workers, NEW t \in PoolIds, ProducerSkips(w, t) PROVE Rewrites
  BY <1>14 DEF ProducerSkips
<1> QED BY <1>1, <1>2, <1>3, <1>4, <1>5, <1>6, <1>7, <1>8, <1>9, <1>10, <1>11, <1>12, <1>13, <1>14
        DEF Next, Api, Work, Fault

LEMMA AllShapes ==
    ASSUME IndTypeOK, [Next]_vars
    PROVE  Rewrites \/ Collects \/ AppendsPost \/ \E t \in Ids : Appends(t)
BY ActionShapes DEF ProducerAppends, AppendsPost

LEMMA StepQueue ==
    ASSUME QueueInv, [Next]_vars
    PROVE  QueueInv'
<1>1. TypeOK' /\ WorkerReady'
  BY StepType DEF QueueInv, IndTypeOK
<1>2. Rewrites \/ Collects \/ AppendsPost \/ \E t \in Ids : Appends(t)
  BY AllShapes DEF QueueInv, IndTypeOK
<1> QED BY <1>1, <1>2, RewritesInv, AppendsInv, AppendsPostInv, CollectsInv DEF QueueInv

LEMMA InitQueue == ASSUME Init PROVE QueueInv
<1>1. TypeOK
  BY InitType
<1>2. WorkerReady
  BY DEF Init, WorkerReady, Executing
<1>3. Unique /\ FreshTail
  BY DEF Init, Unique, FreshTail, Held, Slots, TypeOK, BoundsAssumption
<1>4. ArchivedIsDone
  BY <1>1 DEF Init, ArchivedIsDone, Held, TypeOK, Row
<1> QED BY <1>1, <1>2, <1>3, <1>4 DEF QueueInv

\* No task but a post is ever queued twice, however many processes run.
LEMMA QueueInvariant == Spec => []QueueInv
<1>1. Init => QueueInv
  BY InitQueue
<1>2. QueueInv /\ [Next]_vars => QueueInv'
  BY StepQueue
<1> QED BY <1>1, <1>2, PTL DEF Spec

-----------------------------------------------------------------------------
(* An append takes a slot nobody has written.                              *)

TailInv == IndTypeOK /\ FreshTail

\* An append, of a post or of a task, fills the slot after the last one.
LEMMA AppendFills ==
    ASSUME TailInv, NEW t \in Ids, AppendRow(t)
    PROVE  /\ tail + 1 \in Slots /\ rows[tail + 1] = NoRow /\ tail' = tail + 1
           /\ rows'[tail + 1] = NewRow(t) /\ NewRow(t).id = t
           /\ \A i \in Slots \ {tail + 1} : rows'[i] = rows[i]
<1>1. tail + 1 \in Slots /\ rows[tail + 1] = NoRow /\ tail' = tail + 1
  BY DEF AppendRow, TailInv, IndTypeOK, TypeOK, FreshTail, Slots
<1>2. rows'[tail + 1] = NewRow(t) /\ \A i \in Slots \ {tail + 1} : rows'[i] = rows[i]
  BY <1>1 DEF AppendRow, Put, TailInv, IndTypeOK, TypeOK
<1>3. NewRow(t).id = t
  BY DEF NewRow
<1> QED BY <1>1, <1>2, <1>3

LEMMA StepTail == TailInv /\ [Next]_vars => TailInv'
<1> SUFFICES ASSUME TailInv, [Next]_vars PROVE FreshTail'
  BY StepType DEF TailInv
<1>0. TypeOK
  BY DEF TailInv, IndTypeOK
<1>1. CASE Rewrites \/ Collects
  BY <1>0, <1>1 DEF TailInv, FreshTail, Rewrites, Collects
<1>2. ASSUME NEW t \in Ids, AppendRow(t) PROVE FreshTail'
  <2> SUFFICES ASSUME NEW i \in Slots, i > tail' PROVE rows'[i] = NoRow
    BY DEF FreshTail
  <2>1. tail \in Nat /\ tail' = tail + 1 /\ \A j \in Slots \ {tail + 1} : rows'[j] = rows[j]
    BY <1>0, <1>2, AppendFills DEF TypeOK
  <2>2. i \in Nat /\ i # tail + 1 /\ i > tail
    BY <2>1, BoundsAssumption DEF Slots
  <2> QED BY <2>1, <2>2 DEF TailInv, FreshTail
<1> QED BY <1>1, <1>2, AllShapes DEF TailInv, Appends, AppendsPost, Ids

LEMMA InitTail == Init => TailInv
<1> SUFFICES ASSUME Init PROVE TailInv
  OBVIOUS
<1>1. TypeOK
  BY InitType
<1>2. WorkerReady
  BY DEF Init, WorkerReady, Executing
<1>3. FreshTail
  BY DEF Init, FreshTail, Slots, BoundsAssumption
<1> QED BY <1>1, <1>2, <1>3 DEF TailInv, IndTypeOK

\* A cancel that was accepted stays with the task until it has its result: no
\* reclaim, claim, heartbeat or collection, nor a second cancel, writes it away.
THEOREM CancelKeptHolds == Spec => CancelKept
<1> DEFINE Kept == \A i \in Slots :
                        rows[i] # NoRow /\ rows[i].cancel /\ rows[i].status \notin Terminal =>
                            rows'[i] # NoRow /\ rows'[i].cancel
<1>1. TailInv /\ [Next]_vars => [Kept]_vars
  <2> SUFFICES ASSUME TailInv, [Next]_vars, NEW i \in Slots,
                      rows[i] # NoRow, rows[i].cancel, rows[i].status \notin Terminal
               PROVE  rows'[i] # NoRow /\ rows'[i].cancel
    OBVIOUS
  <2>1. CASE Rewrites
    BY <2>1 DEF Rewrites
  <2>2. CASE Collects
    BY <2>2 DEF Collects, Collectable
  <2>3. ASSUME NEW t \in Ids, AppendRow(t) PROVE rows'[i] # NoRow /\ rows'[i].cancel
    BY <2>3, AppendFills
  <2> QED BY <2>1, <2>2, <2>3, AllShapes DEF TailInv, Appends, AppendsPost, Ids
<1> QED BY <1>1, InitTail, StepTail, PTL DEF Spec, CancelKept

\* The tasks of the origin: queued, or collected.
Family == {t \in ChildIds : Has(t) \/ archive[t] # "none"}
FamilyInv == IsFiniteSet(Family) /\ Cardinality(Family) <= MaxLineage

LEMMA FamilyWithin ==
    ASSUME FamilyInv, Family' \subseteq Family
    PROVE  FamilyInv'
<1> DEFINE F == Family'
<1>1. IsFiniteSet(F) /\ Cardinality(F) <= Cardinality(Family)
  BY FS_Subset DEF FamilyInv
<1>2. Cardinality(F) \in Nat /\ Cardinality(Family) \in Nat
  BY <1>1, FS_CardinalityType DEF FamilyInv
<1> QED BY <1>1, <1>2, BoundsAssumption DEF FamilyInv

LEMMA AppendFamily ==
    ASSUME TailInv, NEW t \in Ids, AppendRow(t), UNCHANGED archive
    PROVE  Family' \subseteq Family \cup ({t} \cap ChildIds)
BY AppendFills DEF Family, Has, RowsOf, Held

LEMMA StepFamily == TailInv /\ FamilyInv /\ [Next]_vars => FamilyInv'
<1> SUFFICES ASSUME TailInv, FamilyInv, [Next]_vars PROVE FamilyInv'
  OBVIOUS
<1>1. CASE Rewrites
  <2>1. \A u \in ChildIds : Has(u)' => Has(u)
    BY <1>1 DEF Rewrites, Has, RowsOf, Held
  <2> QED BY <1>1, <2>1, FamilyWithin DEF Family, Rewrites
<1>2. CASE Collects
  <2>1. \A u \in ChildIds : Has(u)' => Has(u)
    BY <1>2 DEF Collects, Has, RowsOf, Held
  <2>2. ASSUME NEW u \in ChildIds, archive'[u] # "none", archive[u] = "none" PROVE Has(u)
    <3>1. PICK i \in Collectable : rows[i].id = u
      BY <1>2, <2>2 DEF Collects, ArchiveWith, Ids
    <3> QED BY <3>1 DEF Collectable, Has, RowsOf
  <2> QED BY <2>1, <2>2, FamilyWithin DEF Family
<1>3. CASE AppendsPost
  <2>1. PICK t \in PoolIds : AppendRow(t) /\ UNCHANGED archive
    BY <1>3 DEF AppendsPost
  <2>2. t \in Ids /\ t \notin ChildIds
    BY IdsAssumption DEF Ids
  <2> QED BY <2>1, <2>2, AppendFamily, FamilyWithin
<1>4. ASSUME NEW t \in Ids, Appends(t) PROVE FamilyInv'
  <2>1. Family' \subseteq Family \cup ({t} \cap ChildIds)
    BY <1>4, AppendFamily DEF Appends
  <2>2. CASE t \notin ChildIds
    BY <2>1, <2>2, FamilyWithin
  <2>3. CASE t \in ChildIds
    <3>1. Cardinality(Family) < MaxLineage
      BY <1>4, <2>3 DEF Appends, Lineage, Family
    <3> DEFINE F == Family'
               G == Family \cup {t}
    <3>2. IsFiniteSet(G) /\ Cardinality(G) <= Cardinality(Family) + 1
      <4>1. IsFiniteSet(Family) /\ Cardinality(Family) \in Nat
        BY FS_CardinalityType DEF FamilyInv
      <4>2. /\ IsFiniteSet(G)
            /\ Cardinality(G) = Cardinality(Family) \/ Cardinality(G) = Cardinality(Family) + 1
        <5> HIDE DEF Family
        <5> QED BY <4>1, FS_AddElement
      <4> QED BY <4>1, <4>2
    <3>3. F \subseteq G
      BY <2>1
    <3> HIDE DEF G
    <3>4. IsFiniteSet(F) /\ Cardinality(F) <= Cardinality(G)
      BY <3>2, <3>3, FS_Subset
    <3>5. Cardinality(F) \in Nat /\ Cardinality(G) \in Nat /\ Cardinality(Family) \in Nat
      BY <3>2, <3>4, FS_CardinalityType DEF FamilyInv
    <3>6. Cardinality(F) <= MaxLineage
      BY <3>1, <3>2, <3>4, <3>5, BoundsAssumption
    <3> QED BY <3>4, <3>6 DEF FamilyInv
  <2> QED BY <2>2, <2>3
<1> QED BY <1>1, <1>2, <1>3, <1>4, AllShapes DEF TailInv

\* The spawn cap holds for every task an origin ever had: a collection takes no one
\* out of the count, in neither of its two writes, and only the capped append,
\* which counts under the lock it appends under, adds one.
THEOREM LineageHolds == Spec => []LineageWithinCap
<1>1. Init => FamilyInv
  <2> SUFFICES ASSUME Init PROVE FamilyInv
    OBVIOUS
  <2>1. ASSUME NEW t \in ChildIds PROVE ~Has(t) /\ archive[t] = "none"
    <3>1. \A i \in Held : rows[i].id \in LegacyIds
      <4> SUFFICES ASSUME NEW i \in Held PROVE rows[i].id \in LegacyIds
        OBVIOUS
      <4>1. PICK u \in LegacyIds : rows[i] = [NewRow(u) EXCEPT !.status = "running"]
        BY DEF Init, Held
      <4>2. [NewRow(u) EXCEPT !.status = "running"].id = u
        BY DEF NewRow
      <4> QED BY <4>1, <4>2
    <3> QED BY <3>1, IdsAssumption DEF Init, Has, RowsOf, Ids
  <2>2. Family = {}
    BY <2>1 DEF Family
  <2> QED BY <2>2, FS_EmptySet, BoundsAssumption DEF FamilyInv
<1>2. FamilyInv => LineageWithinCap
  BY DEF FamilyInv, Family, LineageWithinCap
<1> QED BY <1>1, <1>2, InitTail, StepTail, StepFamily, PTL DEF Spec

-----------------------------------------------------------------------------
(* Posts, with one process: what its producers are about to append is not   *)
(* there, since nobody else appends posts.                                  *)

NoPool == PoolIds = {}
OneProcess == \A v, w \in Workers : v = w
TodoIsNew == \A w \in Workers : \A t \in todo[w] : ~Has(t)
PostInv == NoDuplicateIds /\ TodoIsNew

\* Only the read of the queue gives a process posts to append.
LEMMA TodoShrinks ==
    ASSUME TypeOK, [Next]_vars, NEW w \in Workers, ~ProducersRead(w)
    PROVE  todo'[w] \subseteq todo[w]
<1> USE DEF TypeOK
<1>1. CASE Api
  BY <1>1 DEF Api, SubmitRequest, SpawnChild, CancelRead, CancelRunning, CancelPending,
              workerVars
<1>2. ASSUME NEW v \in Workers, Work(v) \/ Heartbeat(v) \/ Fault(v), v # w \/ ~ProducersRead(v)
      PROVE  todo'[w] \subseteq todo[w]
  <2>1. CASE Exit(v)
    BY <2>1 DEF Exit
  <2>2. CASE UNCHANGED todo
    BY <2>2
  <2>3. CASE ProducersRead(v)
    BY <1>2, <2>3 DEF ProducersRead
  <2>4. ASSUME NEW t \in PoolIds, ProducerAppends(v, t) \/ ProducerSkips(v, t)
        PROVE  todo'[w] \subseteq todo[w]
    BY <2>4 DEF ProducerAppends, ProducerSkips
  <2>5. CASE Heartbeat(v) \/ Fault(v)
    BY <2>1, <2>2, <2>5 DEF Heartbeat, Fault, CrashInGarbageCollect, StartupFails, CancelCheckFails,
                            Crash, Goto, Decide
  <2>6. CASE Start(v) \/ ReclaimPredecessor(v) \/ StartupSweep(v) \/ GarbageCollect(v) \/ PickSweep(v)
             \/ (\E i \in Slots : Select(v, i)) \/ SelectNothing(v) \/ Claim(v) \/ ClaimLost(v)
    BY <2>1, <2>2, <2>6 DEF Start, ReclaimPredecessor, StartupSweep, GarbageCollect, PickSweep,
                            Select, SelectNothing, Claim, ClaimLost, Goto
  <2>7. CASE BranchInvalid(v) \/ ReuseRun(v) \/ NoRunFound(v) \/ LaunchBranch(v)
             \/ (\E r \in {"succeeded", "failed"} : FinishWork(v, r))
             \/ StreamStops(v) \/ StreamSeesCancel(v) \/ CheckCancel(v) \/ Settle(v)
    BY <2>1, <2>2, <2>7 DEF BranchInvalid, ReuseRun, NoRunFound, LaunchBranch, FinishWork,
                            StreamStops, StreamSeesCancel, CheckCancel, Settle, Goto, Decide
  <2> QED BY <1>2, <2>3, <2>4, <2>5, <2>6, <2>7 DEF Work
<1>3. CASE Tick \/ (\E i \in Slots : Age(i)) \/ UNCHANGED vars
  BY <1>3 DEF Tick, Age, workerVars, vars
<1> QED BY <1>1, <1>2, <1>3 DEF Next

LEMMA StepPost ==
    ASSUME QueueInv, OneProcess, PostInv, [Next]_vars
    PROVE  PostInv'
<1>0. TypeOK /\ IndTypeOK /\ TailInv /\ TypeOK'
  BY StepType DEF QueueInv, IndTypeOK, TailInv
<1>1. ASSUME NEW w \in Workers, NEW t \in PoolIds, ProducerAppends(w, t) PROVE PostInv'
  <2>1. t \in todo[w] /\ ~Has(t) /\ AppendRow(t) /\ t \in Ids
    BY <1>1 DEF ProducerAppends, PostInv, TodoIsNew, Ids
  <2>2. /\ tail + 1 \in Slots /\ rows[tail + 1] = NoRow
        /\ rows'[tail + 1] = NewRow(t) /\ NewRow(t).id = t
        /\ \A i \in Slots \ {tail + 1} : rows'[i] = rows[i]
    BY <1>0, <2>1, AppendFills
  <2>3. NoDuplicateIds'
    BY <2>1, <2>2 DEF PostInv, NoDuplicateIds, Held, Has, RowsOf
  <2>4. \A v \in Workers : v = w
    BY DEF OneProcess
  <2>5. todo'[w] = todo[w] \ {t}
    BY <1>0, <1>1 DEF ProducerAppends, TypeOK
  <2>6. \A u \in todo'[w] : ~Has(u)'
    BY <2>2, <2>5 DEF PostInv, TodoIsNew, Has, RowsOf, Held
  <2> QED BY <2>3, <2>4, <2>6 DEF PostInv, TodoIsNew
<1>2. ASSUME NEW w \in Workers, ProducersRead(w) PROVE PostInv'
  <2>1. rows' = rows /\ todo'[w] = Unqueued /\ \A v \in Workers : v = w
    BY <1>0, <1>2 DEF ProducersRead, queueVars, TypeOK, OneProcess
  <2>2. \A u : Has(u)' <=> Has(u)
    BY <2>1 DEF Has, RowsOf, Held
  <2> QED BY <2>1, <2>2 DEF PostInv, NoDuplicateIds, TodoIsNew, Unqueued, Held
<1>3. CASE \A w \in Workers : ~ProducersRead(w) /\ \A t \in PoolIds : ~ProducerAppends(w, t)
  <2>1. \A w \in Workers : todo'[w] \subseteq todo[w] /\ todo'[w] \subseteq PoolIds
    BY <1>0, <1>3, TodoShrinks DEF TypeOK
  <2>2. NoDuplicateIds' /\ \A u \in PoolIds : Has(u)' => Has(u)
    <3>1. CASE Rewrites
      BY <3>1 DEF Rewrites, PostInv, NoDuplicateIds, Has, RowsOf, Held
    <3>2. CASE Collects
      BY <3>2 DEF Collects, PostInv, NoDuplicateIds, Has, RowsOf, Held
    <3>3. ASSUME NEW t \in Ids, Appends(t)
          PROVE  NoDuplicateIds' /\ \A u \in PoolIds : Has(u)' => Has(u)
      <4>1. ~Has(t) /\ t \notin PoolIds /\ AppendRow(t)
        BY <3>3 DEF Appends, Tasks
      <4>2. /\ tail + 1 \in Slots /\ rows[tail + 1] = NoRow
            /\ rows'[tail + 1] = NewRow(t) /\ NewRow(t).id = t
            /\ \A i \in Slots \ {tail + 1} : rows'[i] = rows[i]
        BY <1>0, <4>1, AppendFills
      <4>3. NoDuplicateIds'
        BY <4>1, <4>2 DEF PostInv, NoDuplicateIds, Held, Has, RowsOf
      <4>4. \A u \in PoolIds : Has(u)' => Has(u)
        BY <4>1, <4>2 DEF Has, RowsOf, Held
      <4> QED BY <4>3, <4>4
    <3> QED BY <1>0, <1>3, <3>1, <3>2, <3>3, ActionShapes
  <2> QED BY <2>1, <2>2 DEF PostInv, TodoIsNew
<1> QED BY <1>1, <1>2, <1>3

\* A task, a post included, is in the queue at most once while one process runs: it
\* appends what was not there when it read the queue, and nobody else adds a post,
\* wherever it is stopped and started again (dispatcher.py, the producers' two locks).
THEOREM NoDuplicateIdsHolds == NoPool \/ OneProcess => (Spec => []NoDuplicateIds)
<1>1. ASSUME NoPool PROVE QueueInv => NoDuplicateIds
  BY <1>1 DEF NoPool, QueueInv, Unique, NoDuplicateIds, Tasks, TypeOK, Held, Row
<1>2. Init => PostInv
  BY DEF Init, PostInv, NoDuplicateIds, TodoIsNew, Held, Slots, BoundsAssumption
<1>3. ASSUME OneProcess PROVE QueueInv /\ PostInv /\ [Next]_vars => PostInv'
  BY <1>3, StepPost
<1>4. PostInv => NoDuplicateIds
  BY DEF PostInv
<1>5. CASE NoPool
  BY <1>1, <1>5, QueueInvariant, PTL
<1>6. CASE OneProcess
  BY <1>2, <1>3, <1>4, <1>6, QueueInvariant, PTL DEF Spec
<1> QED BY <1>5, <1>6
=============================================================================
