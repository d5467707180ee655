----------------------- MODULE BranchTaskQueueClaims -----------------------
(***************************************************************************)
(* Why two daemon processes never execute the same task, and why a process *)
(* that settles never finds its task back in the queue.                    *)
(* At the end, why the queue file and its archive keep the promise of      *)
(* TaskLedger.  Goal-pool posts are excepted throughout, whatever their    *)
(* producers append between the tasks.                                     *)
(*                                                                         *)
(* The argument needs two facts about a deployment that the code states    *)
(* in its comments and cannot enforce: worker ids that name one process    *)
(* each, and a lease that outlasts the longest node.                       *)
(***************************************************************************)
EXTENDS BranchTaskQueueProofs

UniqueWorkerIds ==
    \A v, w \in Workers :
        WorkerIdOf[v] = WorkerIdOf[w] /\ WorkerIdOf[v] \notin {Blank, SharedId} => v = w
NodesFitLease == MaxNodeTicks < LeaseTicks
Deployment == UniqueWorkerIds /\ NodesFitLease

-----------------------------------------------------------------------------
(* A row that backs the claim of a process.                                *)

\* r is the claim of v on t, n ticks after v last refreshed it.
Backing(r, v, t, n) ==
    /\ r.id = t /\ r.status = "running" /\ r.by = v
    /\ r.owner = DaemonOf[v] /\ r.exec = WorkerIdOf[v]
    /\ r.lease + n = LeaseTicks

\* A process executes a task that has its result (an API cancel gave it one),
\* or whose row is still its own claim.
ClaimBacked ==
    \A v \in Workers : Executing(v) /\ task[v] \in Tasks =>
        Done(task[v]) \/ \E i \in Held : Backing(rows[i], v, task[v], node[v])
ClaimInv == QueueInv /\ OneExecutor /\ ClaimBacked

\* A task that has its result keeps one.
LEMMA DoneStays ==
    ASSUME QueueInv, QueueInv', [Next]_vars, NEW t \in Tasks, Done(t)
    PROVE  Done(t)'
<1>1. CASE Rewrites
  BY <1>1 DEF Rewrites, Done, Held
<1>2. CASE Collects
  <2>1. CASE archive[t] # "none"
    BY <1>2, <2>1, ArchiveKeeps DEF Collects, Done, Tasks
  <2>2. ASSUME NEW i \in Held, rows[i].id = t, rows[i].status \in Terminal PROVE Done(t)'
    <3>1. CASE i \in Held'
      <4>1. rows'[i] = rows[i]
        BY <1>2, <3>1 DEF Collects, Held
      <4> QED BY <2>2, <3>1, <4>1 DEF Done
    <3>2. CASE i \notin Held'
      <4>1. i \in Collectable
        BY <1>2, <2>2, <3>2 DEF Collects, Held
      <4>2. archive'[t] = rows[i].status
        BY <1>2, <2>2, <4>1, ArchiveTakes DEF Collects
      <4> QED BY <2>2, <4>2 DEF Done, Terminal
    <3> QED BY <3>1, <3>2
  <2> QED BY <2>1, <2>2 DEF Done
<1>3. ASSUME NEW u \in Ids, AppendRow(u), UNCHANGED archive PROVE Done(t)'
  <2>1. tail + 1 \in Slots /\ rows[tail + 1] = NoRow
    BY <1>3 DEF AppendRow, QueueInv, TypeOK, FreshTail, Slots
  <2>2. \A i \in Slots \ {tail + 1} : rows'[i] = rows[i]
    BY <1>3, <2>1 DEF AppendRow, Put, QueueInv, TypeOK
  <2> QED BY <1>3, <2>1, <2>2 DEF Done, Held
<1>4. IndTypeOK
  BY DEF QueueInv, IndTypeOK
<1> QED BY <1>1, <1>2, <1>3, <1>4, AllShapes DEF Appends, AppendsPost, Ids

\* Only a claim makes a process execute a task.
LEMMA WorkersGoOn ==
    ASSUME TypeOK, WorkerReady, [Next]_vars, NEW v \in Workers, Executing(v)'
    PROVE  \/ Claim(v)
           \/ /\ Executing(v)
              /\ task'[v] = task[v]
              /\ node'[v] = node[v] \/ Heartbeat(v) \/ Tick
<1> DEFINE Same == Executing(v) /\ task'[v] = task[v] /\ node'[v] = node[v]
<1> USE DEF Executing, TypeOK
<1>1. CASE Api
  BY <1>1 DEF Api, SubmitRequest, SpawnChild, CancelRead, CancelRunning, CancelPending,
              workerVars
<1>2. ASSUME NEW w \in Workers, Work(w) PROVE Claim(v) \/ Same
  <2>1. CASE Start(w) \/ ReclaimPredecessor(w) \/ StartupSweep(w) \/ GarbageCollect(w)
             \/ PickSweep(w) \/ NoRunFound(w) \/ LaunchBranch(w)
    BY <2>1 DEF Start, ReclaimPredecessor, StartupSweep, GarbageCollect, PickSweep,
                NoRunFound, LaunchBranch, Goto
  <2>2. CASE ProducersRead(w) \/ (\E t \in PoolIds : ProducerAppends(w, t) \/ ProducerSkips(w, t))
    BY <2>2 DEF ProducersRead, ProducerAppends, ProducerSkips
  <2>3. CASE \E i \in Slots : Select(w, i)
    BY <2>3 DEF Select
  <2>4. CASE SelectNothing(w) \/ ClaimLost(w) \/ Settle(w)
    BY <2>4 DEF SelectNothing, ClaimLost, Settle, Exit
  <2>5. CASE Claim(w)
    BY <2>5 DEF Claim
  <2>6. CASE ReuseRun(w) \/ BranchInvalid(w)
    BY <2>6 DEF ReuseRun, BranchInvalid, Decide
  <2>7. ASSUME NEW r \in {"succeeded", "failed"}, FinishWork(w, r) PROVE Same
    BY <2>7 DEF FinishWork, Decide
  <2>8. CASE StreamStops(w) \/ StreamSeesCancel(w) \/ CheckCancel(w)
    BY <2>8 DEF StreamStops, StreamSeesCancel, CheckCancel, Decide, Goto
  <2> QED BY <1>2, <2>1, <2>2, <2>3, <2>4, <2>5, <2>6, <2>7, <2>8 DEF Work
<1>3. ASSUME NEW w \in Workers, Fault(w) PROVE Same
  BY <1>3 DEF Fault, CrashInGarbageCollect, StartupFails, CancelCheckFails, Crash, Exit,
              Goto, Decide
<1>4. ASSUME NEW w \in Workers, Heartbeat(w) PROVE Same \/ (Executing(v) /\ task'[v] = task[v] /\ Heartbeat(v))
  BY <1>4 DEF Heartbeat
<1>5. CASE Tick
  BY <1>5 DEF Tick
<1>6. CASE \E i \in Slots : Age(i)
  BY <1>6 DEF Age, workerVars
<1>7. CASE UNCHANGED vars
  BY <1>7 DEF vars
<1> QED BY <1>1, <1>2, <1>3, <1>4, <1>5, <1>6, <1>7 DEF Next

-----------------------------------------------------------------------------
(* No step of another process, of the API or of time takes a live claim.   *)

\* Row i is still the claim of v after the step, or has a result.
StillBacked(v, i) ==
    /\ rows'[i] # NoRow /\ rows'[i].id = task[v]
    /\ \/ rows'[i].status \in Terminal
       \/ \E n \in Nat : Backing(rows'[i], v, task[v], n) /\ (Executing(v)' => n = node'[v])

LEMMA BackingKeeps ==
    ASSUME ClaimInv, Deployment, [Next]_vars, NEW v \in Workers, Executing(v), task[v] \in Tasks,
           NEW i \in Held, Backing(rows[i], v, task[v], node[v])
    PROVE  StillBacked(v, i)
<1> DEFINE t == task[v]
           r == rows[i]
<1> USE DEF ClaimInv, QueueInv
<1>1. i \in Slots /\ r # NoRow /\ r \in Row /\ r.id = t /\ r.status = "running"
  BY DEF Held, TypeOK, Backing
<1>2. Has(t) /\ First(t) = i
  BY <1>1, FirstIsOnly
<1>3. node[v] \in Nat /\ node[v] <= MaxNodeTicks /\ LeaseTicks \in Nat
  BY BoundsAssumption DEF TypeOK
<1>4. r.lease \in Int /\ r.lease > 0
  <2>1. r.lease \in {NoLease} \cup 0..LeaseTicks
    BY <1>1 DEF Row
  <2>2. r.lease + node[v] = LeaseTicks
    BY DEF Backing
  <2>3. MaxNodeTicks \in Nat /\ MaxNodeTicks < LeaseTicks
    BY BoundsAssumption DEF Deployment, NodesFitLease
  <2> HIDE DEF r
  <2> QED BY <1>3, <2>1, <2>2, <2>3 DEF NoLease
<1>5. ASSUME NEW w \in Workers, Executing(w), w # v PROVE ~Has(task[w]) \/ First(task[w]) # i
  <2>1. task[w] # t
    BY <1>5 DEF OneExecutor
  <2> QED BY <1>1, <2>1, FirstIsRow
<1>6. CASE Tick
  <2>1. rows'[i] = [r EXCEPT !.lease = r.lease - 1]
    BY <1>1, <1>4, <1>6 DEF Tick, IsRunning
  <2>2. node'[v] = node[v] + 1
    BY <1>6 DEF Tick
  <2>3. r.lease - 1 \in 0..LeaseTicks
    <3>1. r.lease \in {NoLease} \cup 0..LeaseTicks
      BY <1>1 DEF Row
    <3> HIDE DEF r
    <3> QED BY <1>3, <1>4, <3>1 DEF NoLease
  <2>4. rows'[i] # NoRow
    BY <1>1, <2>1, <2>3, RowRewrites, NoRowAssumption
  <2>5. Backing(rows'[i], v, t, node'[v])
    BY <1>1, <1>3, <1>4, <2>1, <2>2 DEF Backing, Row
  <2>6. rows'[i].id = t
    BY <2>5 DEF Backing
  <2> QED BY <1>3, <2>2, <2>4, <2>5, <2>6 DEF StillBacked
<1>7. CASE Heartbeat(v)
  <2>1. Refreshable(t, v)
    BY <1>1, <1>2 DEF Refreshable, Backing
  <2>2. Put(i, Refreshed(r, v)) /\ node'[v] = 0
    BY <1>2, <1>7, <2>1 DEF Heartbeat, TypeOK
  <2>3. rows'[i] = Refreshed(r, v)
    BY <1>1, <2>2 DEF Put, TypeOK
  <2>4. rows'[i] # NoRow
    BY <1>1, <2>3, RowRewrites, NoRowAssumption
  <2>5. Backing(rows'[i], v, t, 0)
    BY <1>1, <1>3, <2>3 DEF Backing, Refreshed, Row
  <2>6. rows'[i].id = t
    BY <2>5 DEF Backing
  <2> QED BY <2>2, <2>4, <2>5, <2>6 DEF StillBacked
<1>8. CASE ~Tick /\ ~Heartbeat(v)
  <2>1. Executing(v)' => node'[v] = node[v]
    BY <1>8, WorkersGoOn DEF Claim, Executing
  <2>2. SUFFICES rows'[i] # NoRow /\ rows'[i].id = t
                 /\ (rows'[i].status \in Terminal \/ Backing(rows'[i], v, t, node[v]))
    BY <1>3, <2>1 DEF StillBacked
  <2>3. CASE rows'[i] = rows[i]
    BY <1>1, <2>3
  <2>4. ASSUME NEW w \in Workers, ReclaimPredecessor(w) PROVE rows'[i] = rows[i]
    <3>1. i \notin Predecessor(w)
      BY <2>4 DEF Predecessor, Backing, Deployment, UniqueWorkerIds, ReclaimPredecessor,
                  Executing
    <3> QED BY <1>1, <2>4, <3>1 DEF ReclaimPredecessor, Reclaim
  <2>5. ASSUME NEW w \in Workers, StartupSweep(w) \/ PickSweep(w) PROVE rows'[i] = rows[i]
    <3>1. i \notin Expired(TRUE) /\ i \notin Expired(FALSE)
      BY <1>4 DEF Expired, NoLease
    <3> QED BY <1>1, <2>5, <3>1 DEF StartupSweep, PickSweep, Reclaim
  <2>6. ASSUME NEW w \in Workers, GarbageCollect(w) PROVE rows'[i] = rows[i]
    BY <1>1, <2>6 DEF GarbageCollect, Collectable, Terminal
  <2>7. ASSUME NEW w \in Workers, Claim(w) PROVE rows'[i] = rows[i]
    <3>1. First(task[w]) # i
      BY <1>1, <2>7 DEF Claim, Claimable
    <3> QED BY <1>1, <2>7, <3>1 DEF Claim, Put, TypeOK
  <2>8. ASSUME NEW w \in Workers, Heartbeat(w) PROVE rows'[i] = rows[i]
    <3>1. w # v /\ Executing(w)
      BY <1>8, <2>8 DEF Heartbeat
    <3> QED BY <1>1, <1>5, <2>8, <3>1 DEF Heartbeat, Put, Refreshable, TypeOK
  <2>9. ASSUME NEW u, NEW s \in Terminal, MarkStatus(u, s), u # t PROVE rows'[i] = rows[i]
    <3>1. Has(u) => First(u) # i
      BY <1>1, <2>9, FirstIsRow
    <3> QED BY <1>1, <2>9, <3>1 DEF MarkStatus, MarkRaises, Put, TypeOK
  <2>10. ASSUME NEW s \in Terminal, MarkStatus(t, s)
         PROVE  rows'[i] # NoRow /\ rows'[i].id = t /\ rows'[i].status \in Terminal
    <3>1. ~MarkRaises(t, s)
      BY <1>1, <1>2 DEF MarkRaises, Allowed
    <3>2. rows'[i] = Marked(r, s)
      BY <1>1, <1>2, <2>10, <3>1 DEF MarkStatus, Put, TypeOK
    <3>3. Marked(r, s) = [r EXCEPT !.status = s]
      BY <1>1 DEF Marked, Terminal
    <3>4. rows'[i] # NoRow
      BY <1>1, <3>2, RowRewrites, NoRowAssumption
    <3> QED BY <1>1, <3>2, <3>3, <3>4 DEF Row
  <2>11. CASE CancelPending
    BY <2>3, <2>9, <2>10, <2>11 DEF CancelPending, Terminal
  <2>12. ASSUME NEW w \in Workers, Settle(w)
         PROVE  rows'[i] = rows[i] \/ (rows'[i] # NoRow /\ rows'[i].id = t /\ rows'[i].status \in Terminal)
    <3>1. MarkStatus(task[w], result[w]) /\ result[w] \in Terminal
      BY <2>12 DEF Settle, WorkerReady
    <3> QED BY <2>9, <2>10, <3>1
  <2>13. CASE CancelRunning
    <3> DEFINE f == First(cancel.task)
    <3>1. CASE f # i
      BY <1>1, <2>3, <2>13, <3>1 DEF CancelRunning, Put, TypeOK
    <3>2. CASE f = i /\ rows'[i] = [r EXCEPT !.cancel = TRUE]
      <4>1. rows'[i] # NoRow
        BY <1>1, <3>2, RowRewrites, NoRowAssumption
      <4>2. Backing(rows'[i], v, t, node[v])
        BY <1>1, <3>2 DEF Backing, Row
      <4>3. rows'[i].id = t
        BY <4>2 DEF Backing
      <4> QED BY <4>1, <4>2, <4>3
    <3>3. CASE f = i /\ ~(Has(cancel.task) /\ rows[f].status \notin Terminal)
      BY <2>3, <2>13, <3>3 DEF CancelRunning
    <3>4. ASSUME f = i, Has(cancel.task), rows[f].status \notin Terminal
          PROVE  rows'[i] = [r EXCEPT !.cancel = TRUE]
      <4>1. Put(f, [rows[f] EXCEPT !.cancel = TRUE])
        BY <2>13, <3>4 DEF CancelRunning
      <4> HIDE DEF f
      <4> QED BY <1>1, <3>4, <4>1 DEF Put, TypeOK
    <3> QED BY <3>1, <3>2, <3>3, <3>4
  <2>14. ASSUME NEW u \in Ids, AppendRow(u) PROVE rows'[i] = rows[i]
    <3>1. tail + 1 # i
      BY <1>1, <2>14 DEF AppendRow, FreshTail, TypeOK, Slots
    <3> QED BY <1>1, <2>14, <3>1 DEF AppendRow, Put, TypeOK
  <2>15. ASSUME NEW j \in Slots, Age(j)
         PROVE  rows'[i] = rows[i] \/ (rows'[i] # NoRow /\ Backing(rows'[i], v, t, node[v]))
    <3>1. CASE j # i
      BY <1>1, <2>15, <3>1 DEF Age, Put, TypeOK
    <3>2. CASE j = i
      <4>1. rows'[i] = [r EXCEPT !.old = TRUE]
        BY <1>1, <2>15, <3>2 DEF Age, Put, TypeOK
      <4>2. rows'[i] # NoRow
        BY <1>1, <4>1, RowRewrites, NoRowAssumption
      <4>3. Backing(rows'[i], v, t, node[v])
        BY <1>1, <4>1 DEF Backing, Row
      <4> QED BY <4>2, <4>3
    <3> QED BY <3>1, <3>2
  <2>16. ASSUME UNCHANGED rows PROVE rows'[i] = rows[i]
    BY <2>16
  <2>17. ASSUME NEW w \in Workers,
             \/ Start(w) \/ ProducersRead(w) \/ (\E j \in Slots : Select(w, j))
             \/ SelectNothing(w) \/ ClaimLost(w) \/ ReuseRun(w) \/ BranchInvalid(w) \/ NoRunFound(w)
             \/ LaunchBranch(w) \/ (\E s \in {"succeeded", "failed"} : FinishWork(w, s))
             \/ StreamStops(w) \/ StreamSeesCancel(w) \/ CheckCancel(w) \/ Fault(w)
             \/ (\E u \in PoolIds : ProducerSkips(w, u))
         PROVE UNCHANGED rows
    BY <2>17 DEF ProducerSkips, Start, ProducersRead, Select, SelectNothing, ClaimLost, ReuseRun, BranchInvalid, NoRunFound,
              LaunchBranch, FinishWork, StreamStops, StreamSeesCancel, CheckCancel,
              Fault, CrashInGarbageCollect, StartupFails, CancelCheckFails, Crash, queueVars
  <2>18. ASSUME NEW u \in Ids, CancelRead(u) PROVE UNCHANGED rows
    BY <2>18 DEF CancelRead, queueVars
  <2>19. CASE Api
    BY <2>3, <2>11, <2>13, <2>14, <2>16, <2>18, <2>19 DEF Api, SubmitRequest, SpawnChild
  <2>20. ASSUME NEW w \in Workers, Work(w) \/ Heartbeat(w) \/ Fault(w)
         PROVE  rows'[i] = rows[i] \/ (rows'[i] # NoRow /\ rows'[i].id = t /\ rows'[i].status \in Terminal)
    BY <2>4, <2>5, <2>6, <2>7, <2>8, <2>12, <2>14, <2>16, <2>17, <2>20
    DEF Work, ProducerAppends, Ids
  <2>21. CASE \E j \in Slots : Age(j)
    BY <2>3, <2>15, <2>21 DEF Backing
  <2>22. CASE UNCHANGED vars
    BY <2>3, <2>22 DEF vars
  <2> QED BY <1>8, <2>3, <2>19, <2>20, <2>21, <2>22 DEF Next
<1> QED BY <1>6, <1>7, <1>8

-----------------------------------------------------------------------------
(* The theorems.                                                           *)

\* What a process executes is not in the queue for another to take.
LEMMA ExecutedNotPending ==
    ASSUME ClaimInv, NEW v \in Workers, Executing(v), task[v] \in Tasks, Has(task[v])
    PROVE  rows[First(task[v])].status # "pending"
<1> DEFINE f == First(task[v])
<1>1. f \in Held /\ rows[f].id = task[v]
  BY FirstIsRow DEF Held
<1>2. \A i \in Held : rows[i].id = task[v] => i = f
  BY <1>1 DEF ClaimInv, QueueInv, Unique
<1>3. CASE archive[task[v]] # "none"
  <2>1. rows[f].status = archive[task[v]]
    BY <1>1, <1>3 DEF ClaimInv, QueueInv, ArchivedIsDone
  <2>2. archive[task[v]] \in Terminal
    BY <1>3 DEF ClaimInv, QueueInv, TypeOK, Tasks
  <2> QED BY <2>1, <2>2 DEF Terminal
<1>4. CASE \E i \in Held : rows[i].id = task[v] /\ rows[i].status \in Terminal
  BY <1>2, <1>4 DEF Terminal
<1>5. CASE \E i \in Held : Backing(rows[i], v, task[v], node[v])
  BY <1>2, <1>5 DEF Backing
<1> QED BY <1>3, <1>4, <1>5 DEF ClaimInv, ClaimBacked, Done

LEMMA StepClaims ==
    ASSUME ClaimInv, Deployment, [Next]_vars
    PROVE  ClaimInv'
<1> USE DEF ClaimInv
<1>1. QueueInv'
  BY StepQueue
<1>2. ASSUME NEW v \in Workers, Executing(v)', task'[v] \in Tasks
      PROVE  (Done(task[v]) \/ \E i \in Held : Backing(rows[i], v, task[v], node[v]))'
  <2>1. CASE Claim(v)
    <3> DEFINE f == First(task[v])
    <3>1. f \in Slots /\ rows[f] \in Row /\ rows[f].id = task[v]
      BY <2>1, FirstIsRow DEF Claim, Claimable, QueueInv, TypeOK
    <3>2. rows'[f] = Claimed(rows[f], v) /\ node'[v] = 0 /\ task'[v] = task[v]
      BY <2>1, <3>1 DEF Claim, Put, QueueInv, TypeOK
    <3>3. rows'[f] # NoRow
      BY <3>1, <3>2, RowRewrites, NoRowAssumption
    <3>4. Backing(rows'[f], v, task[v], 0)
      BY <3>1, <3>2, BoundsAssumption DEF Backing, Claimed, Row
    <3> HIDE DEF f
    <3> QED BY <3>1, <3>2, <3>3, <3>4 DEF Held, Backing
  <2>2. CASE Executing(v) /\ task'[v] = task[v]
    <3>1. task[v] \in Tasks
      BY <1>2, <2>2
    <3>2. CASE Done(task[v])
      <4>1. PICK t \in Tasks : t = task[v]
        BY <3>1
      <4>2. Done(t)'
        BY <1>1, <3>2, <4>1, DoneStays
      <4> QED BY <2>2, <4>1, <4>2 DEF Done
    <3>3. ASSUME NEW i \in Held, Backing(rows[i], v, task[v], node[v])
          PROVE  (Done(task[v]) \/ \E j \in Held : Backing(rows[j], v, task[v], node[v]))'
      <4>1. StillBacked(v, i)
        BY <2>2, <3>1, <3>3, BackingKeeps
      <4>2. i \in Held'
        BY <4>1 DEF StillBacked, Held
      <4> QED BY <1>2, <2>2, <4>1, <4>2 DEF StillBacked, Done, Backing
    <3> QED BY <2>2, <3>1, <3>2, <3>3 DEF ClaimBacked
  <2> QED BY <1>2, <2>1, <2>2, WorkersGoOn DEF QueueInv
<1>3. ASSUME NEW v \in Workers, NEW w \in Workers, v # w, Claim(v), Executing(w)',
             task'[v] = task'[w], task'[v] \in Tasks
      PROVE  FALSE
  <2>1. Executing(w) /\ task[w] = task[v] /\ task[v] \in Tasks /\ Claimable(task[v])
    BY <1>3 DEF Claim, Executing, QueueInv, TypeOK
  <2> QED BY <2>1, ExecutedNotPending DEF Claimable
<1>4. OneExecutor'
  <2> SUFFICES ASSUME NEW v \in Workers, NEW w \in Workers, Executing(v)', Executing(w)',
                      task'[v] = task'[w], task'[v] \in Tasks
               PROVE  v = w
    BY DEF OneExecutor
  <2>1. Claim(v) \/ (Executing(v) /\ task'[v] = task[v])
    BY WorkersGoOn DEF QueueInv
  <2>2. Claim(w) \/ (Executing(w) /\ task'[w] = task[w])
    BY WorkersGoOn DEF QueueInv
  <2> QED BY <1>3, <2>1, <2>2 DEF OneExecutor
<1> QED BY <1>1, <1>2, <1>4 DEF ClaimBacked

LEMMA ClaimsInvariant == Deployment => (Spec => []ClaimInv)
<1> SUFFICES ASSUME Deployment PROVE Spec => []ClaimInv
  OBVIOUS
<1>1. Init => ClaimInv
  BY InitQueue DEF Init, ClaimInv, ClaimBacked, OneExecutor, Executing
<1>2. ClaimInv /\ [Next]_vars => ClaimInv'
  BY StepClaims
<1> QED BY <1>1, <1>2, PTL DEF Spec

\* Two live processes never execute the same task, for any number of processes,
\* tasks, crashes, restarts, reclaims and cancels of the deployment described.
THEOREM OneExecutorHolds == Deployment => (Spec => []OneExecutor)
<1> SUFFICES ASSUME Deployment PROVE Spec => []OneExecutor
  OBVIOUS
<1>1. ClaimInv => OneExecutor
  BY DEF ClaimInv
<1> QED BY <1>1, ClaimsInvariant, PTL

\* A process that writes its result never finds its row pending again, so the
\* finalize never raises the "Invalid transition" that ends the daemon.
THEOREM SettleHolds == Deployment => (Spec => []SettleFindsNoPendingRow)
<1> SUFFICES ASSUME Deployment PROVE Spec => []SettleFindsNoPendingRow
  OBVIOUS
<1>1. ClaimInv => SettleFindsNoPendingRow
  BY ExecutedNotPending DEF SettleFindsNoPendingRow, Executing
<1> QED BY <1>1, ClaimsInvariant, PTL

\* No startup reclaim and no lease sweep takes a claim from a process that still
\* executes it.
THEOREM LiveClaimsStay == Deployment => (Spec => NoLiveClaimReclaimed)
<1> SUFFICES ASSUME Deployment PROVE Spec => NoLiveClaimReclaimed
  OBVIOUS
<1>1. ASSUME ClaimInv, [Next]_vars, NEW i \in Slots, IsRunning(i), rows[i].id \in Tasks, rows'[i] # NoRow,
             rows'[i].status = "pending", NEW w \in Workers, rows[i].by = w, Executing(w),
             task[w] = rows[i].id
      PROVE  FALSE
  <2>1. i \in Held /\ rows[i].id \in Ids
    BY <1>1 DEF IsRunning, Held, ClaimInv, QueueInv, TypeOK, Row
  <2>2. ~Done(task[w])
    <3>1. archive[rows[i].id] = "none"
      BY <1>1, <2>1 DEF ClaimInv, QueueInv, ArchivedIsDone, TypeOK, IsRunning, Terminal
    <3> QED BY <1>1, <2>1, <3>1
            DEF Done, ClaimInv, QueueInv, Unique, IsRunning, Terminal
  <2>3. PICK j \in Held : Backing(rows[j], w, task[w], node[w])
    BY <1>1, <2>2 DEF ClaimInv, ClaimBacked
  <2>4. j = i
    BY <1>1, <2>1, <2>3 DEF Backing, ClaimInv, QueueInv, Unique
  <2>5. StillBacked(w, i)
    BY <1>1, <2>3, <2>4, BackingKeeps
  <2> QED BY <1>1, <2>5 DEF StillBacked, Backing, Terminal
<1>2. ClaimInv /\ [Next]_vars =>
        [\A i \in Slots :
            /\ IsRunning(i) /\ rows[i].id \in Tasks
            /\ rows'[i] # NoRow /\ rows'[i].status = "pending"
            => ~\E w \in Workers : rows[i].by = w /\ Executing(w) /\ task[w] = rows[i].id]_vars
  BY <1>1
<1> QED BY <1>2, ClaimsInvariant, PTL DEF Spec, NoLiveClaimReclaimed

\* A branch that was started has its run row, and a process that is about to
\* start one found none and is the only one that could have written it since.
RunInv ==
    /\ \A t \in Tasks : starts[t] <= 1 /\ (runs[t] = "none" => starts[t] = 0)
    /\ \A w \in Workers : pc[w] = "launch" /\ task[w] \in Tasks => runs[task[w]] = "none"

LEMMA StepRuns ==
    ASSUME ClaimInv, RunInv, Deployment, [Next]_vars
    PROVE  RunInv'
<1> USE DEF ClaimInv, QueueInv, TypeOK, RunInv
<1>1. ASSUME NEW w \in Workers, NoRunFound(w) PROVE RunInv'
  <2>1. UNCHANGED <<runs, starts, task>> /\ runs[task[w]] = "none"
    BY <1>1 DEF NoRunFound, NoRunYet, Goto, runVars
  <2>2. \A v \in Workers : pc'[v] = "launch" => pc[v] = "launch" \/ v = w
    BY <1>1 DEF NoRunFound, Goto
  <2> QED BY <2>1, <2>2
<1>2. ASSUME NEW w \in Workers, LaunchBranch(w) PROVE RunInv'
  <2>1. /\ task[w] \in Ids
        /\ task[w] \in Tasks => runs[task[w]] = "none" /\ starts[task[w]] = 0
    BY <1>2 DEF LaunchBranch, WorkerReady, Executing
  <2>2. /\ runs' = [runs EXCEPT ![task[w]] = "unfinished"]
        /\ pc' = [pc EXCEPT ![w] = "run"] /\ task' = task
        /\ task[w] \in Tasks => starts'[task[w]] = 1
        /\ \A t \in Ids : t # task[w] => starts'[t] = starts[t]
    BY <1>2, <2>1 DEF LaunchBranch, Goto
  <2>3. \A v \in Workers : v # w /\ pc[v] = "launch" /\ task[v] \in Tasks => task[v] # task[w]
    BY <1>2 DEF OneExecutor, Executing, LaunchBranch
  <2>4. ASSUME NEW t \in Tasks PROVE starts'[t] <= 1 /\ (runs'[t] = "none" => starts'[t] = 0)
    BY <2>1, <2>2 DEF Tasks
  <2>5. ASSUME NEW v \in Workers, pc'[v] = "launch", task[v] \in Tasks
        PROVE  runs'[task[v]] = "none"
    BY <2>1, <2>2, <2>3, <2>5 DEF Tasks
  <2> QED BY <2>2, <2>4, <2>5
<1>3. ASSUME NEW w \in Workers, NEW r \in {"succeeded", "failed"}, FinishWork(w, r)
      PROVE  RunInv'
  <2>1. task[w] \in Ids /\ pc[w] = "run"
    BY <1>3 DEF FinishWork, WorkerReady, Executing
  <2>2. starts' = starts /\ task' = task
        /\ \A v \in Workers : pc'[v] = "launch" => v # w /\ pc[v] = "launch"
    BY <1>3 DEF FinishWork, Decide
  <2>3. \A v \in Workers : v # w /\ pc[v] = "launch" /\ task[v] \in Tasks => task[v] # task[w]
    BY <2>1 DEF OneExecutor, Executing
  <2>4. /\ \A t \in Ids : runs'[t] = "none" => runs[t] = "none"
        /\ \A t \in Ids \ {task[w]} : runs'[t] = runs[t]
    BY <1>3, <2>1 DEF FinishWork
  <2>5. \A v \in Workers : pc'[v] = "launch" => task[v] \in Ids
    BY <2>2 DEF WorkerReady, Executing
  <2>6. \A t \in Tasks : starts'[t] <= 1 /\ (runs'[t] = "none" => starts'[t] = 0)
    BY <2>2, <2>4 DEF Tasks
  <2> QED BY <2>2, <2>3, <2>4, <2>5, <2>6
<1>4. ASSUME UNCHANGED <<runs, starts>>,
             \A v \in Workers : pc'[v] = "launch" => pc[v] = "launch" /\ task'[v] = task[v]
      PROVE  RunInv'
  BY <1>4
<1>5. ASSUME NEW w \in Workers,
             \/ Start(w) \/ ReclaimPredecessor(w) \/ StartupSweep(w) \/ GarbageCollect(w)
             \/ PickSweep(w) \/ StreamStops(w) \/ StreamSeesCancel(w) \/ ReuseRun(w) \/ BranchInvalid(w)
             \/ CheckCancel(w) \/ Fault(w)
      PROVE  RunInv'
  <2>1. UNCHANGED <<runs, starts>>
    BY <1>5 DEF Start, ReclaimPredecessor, StartupSweep, GarbageCollect, PickSweep,
              StreamStops, StreamSeesCancel, ReuseRun, BranchInvalid, CheckCancel, Fault, runVars,
              CrashInGarbageCollect, StartupFails, CancelCheckFails, Crash
  <2>2. \/ Exit(w)
        \/ \E l \in Pcs \ {"launch"} : Goto(w, l)
        \/ \E l \in Pcs \ {"launch"}, r \in Terminal : Decide(w, l, r)
    BY <1>5 DEF Start, ReclaimPredecessor, StartupSweep, GarbageCollect, PickSweep,
              StreamStops, StreamSeesCancel, ReuseRun, BranchInvalid, CheckCancel, Fault,
              CrashInGarbageCollect, StartupFails, CancelCheckFails, Crash, Pcs, Terminal
  <2>3. ASSUME NEW v \in Workers, pc'[v] = "launch"
        PROVE  pc[v] = "launch" /\ task'[v] = task[v]
    BY <2>2, <2>3 DEF Exit, Goto, Decide
  <2> QED BY <1>4, <2>1, <2>3
<1>6. ASSUME NEW w \in Workers,
             \/ ProducersRead(w) \/ (\E t \in PoolIds : ProducerAppends(w, t) \/ ProducerSkips(w, t))
             \/ (\E i \in Slots : Select(w, i)) \/ SelectNothing(w) \/ Claim(w)
             \/ ClaimLost(w) \/ Settle(w) \/ Heartbeat(w)
      PROVE  RunInv'
  <2>1. UNCHANGED <<runs, starts>>
    BY <1>6 DEF ProducersRead, ProducerAppends, ProducerSkips, Select, SelectNothing, Claim,
                ClaimLost, Settle, Heartbeat, runVars
  <2>2. ASSUME NEW v \in Workers, pc'[v] = "launch"
        PROVE  pc[v] = "launch" /\ task'[v] = task[v]
    BY <1>6, <2>2 DEF ProducersRead, ProducerAppends, ProducerSkips, Select, SelectNothing,
                Claim, ClaimLost, Settle, Heartbeat, Exit
  <2> QED BY <1>4, <2>1, <2>2
<1>7. CASE Api \/ Tick \/ (\E i \in Slots : Age(i)) \/ UNCHANGED vars
  BY <1>4, <1>7 DEF Api, SubmitRequest, SpawnChild, CancelRead, CancelRunning, CancelPending,
              Tick, Age, vars, runVars, workerVars
<1> QED BY <1>1, <1>2, <1>3, <1>5, <1>6, <1>7 DEF Next, Work

\* However often a directly executed task is reclaimed and claimed again, its
\* branch is started at most once.
THEOREM DirectRunsOnceHolds == Deployment => (Spec => []DirectRunsOnce)
<1> SUFFICES ASSUME Deployment PROVE Spec => []DirectRunsOnce
  OBVIOUS
<1>1. Init => RunInv
  BY DEF Init, RunInv, Tasks
<1>2. ClaimInv /\ RunInv /\ [Next]_vars => RunInv'
  BY StepRuns
<1>3. RunInv => DirectRunsOnce
  BY DEF RunInv, DirectRunsOnce
<1> QED BY <1>1, <1>2, <1>3, ClaimsInvariant, PTL DEF Spec

-----------------------------------------------------------------------------
(* The queue implements TaskLedger.                                        *)

Shown(s) == IF s \in Terminal THEN s ELSE "open"

\* A task shows its row, and without a row its archived result.
LedgerReads ==
    /\ \A i \in Held : rows[i].id \in Tasks => LedgerOf(rows[i].id) = Shown(rows[i].status)
    /\ \A t \in Tasks : (\A i \in Held : rows[i].id # t) =>
            LedgerOf(t) = IF archive[t] # "none" THEN archive[t] ELSE "absent"

LEMMA LedgerIsRead == QueueInv => LedgerReads
<1> SUFFICES ASSUME QueueInv PROVE LedgerReads
  OBVIOUS
<1>1. ASSUME NEW i \in Held, rows[i].id \in Tasks PROVE LedgerOf(rows[i].id) = Shown(rows[i].status)
  <2>1. Has(rows[i].id) /\ First(rows[i].id) = i
    BY <1>1, FirstIsOnly DEF QueueInv
  <2> QED BY <2>1 DEF LedgerOf, Shown
<1>2. ASSUME NEW t \in Tasks, \A i \in Held : rows[i].id # t
      PROVE  LedgerOf(t) = IF archive[t] # "none" THEN archive[t] ELSE "absent"
  <2>1. ~Has(t)
    BY <1>2 DEF Has, RowsOf
  <2> QED BY <2>1 DEF LedgerOf
<1> QED BY <1>1, <1>2 DEF LedgerReads

LEMMA LedgerInit == ASSUME Init PROVE Ledger!Init
<1>1. LedgerReads
  BY InitQueue, LedgerIsRead
<1>2. ASSUME NEW t \in Tasks PROVE LedgerOf(t) \in {"absent", "open"}
  <2>1. CASE \E i \in Held : rows[i].id = t
    <3>1. PICK i \in Held : rows[i].id = t
      BY <2>1
    <3>2. \E u \in LegacyIds : rows[i] = [NewRow(u) EXCEPT !.status = "running"]
      BY DEF Init, Held
    <3>3. rows[i].status = "running"
      BY <3>2 DEF NewRow
    <3> QED BY <1>1, <3>1, <3>3 DEF LedgerReads, Shown, Terminal
  <2>2. CASE ~ \E i \in Held : rows[i].id = t
    BY <1>1, <2>2 DEF LedgerReads, Init, Tasks
  <2> QED BY <2>1, <2>2
<1> QED BY <1>2 DEF Ledger!Init

\* A rewrite shows at most one new result.
LEMMA RewritesLedger ==
    ASSUME QueueInv, QueueInv', LedgerReads, LedgerReads', Rewrites
    PROVE  [Ledger!Next]_([t \in Tasks |-> LedgerOf(t)])
<1>1. ASSUME NEW t \in Tasks, NEW i \in Held, rows[i].id = t
      PROVE  LedgerOf(t)' = Shown(rows'[i].status) /\ LedgerOf(t) = Shown(rows[i].status)
  <2>1. i \in Held' /\ rows'[i].id = t
    BY <1>1 DEF Rewrites, Held
  <2> QED BY <1>1, <2>1 DEF LedgerReads
<1>2. ASSUME NEW t \in Tasks, \A i \in Held : rows[i].id # t
      PROVE  LedgerOf(t)' = LedgerOf(t)
  BY <1>2 DEF Rewrites, Held, LedgerReads
<1>3. ASSUME NEW t \in Tasks, NEW i \in Held, rows[i].id = t, ~Resolves(i)
      PROVE  LedgerOf(t)' = LedgerOf(t)
  BY <1>1, <1>3 DEF Rewrites, Resolves, Held, Shown
<1>4. CASE \A i \in Slots : Resolves(i) => rows[i].id \notin Tasks
  <2>1. \A t \in Tasks : LedgerOf(t)' = LedgerOf(t)
    BY <1>2, <1>3, <1>4 DEF Held
  <2> QED BY <2>1
<1>5. ASSUME NEW i \in Slots, Resolves(i), rows[i].id \in Tasks PROVE Ledger!Next
  <2>1. /\ i \in Held /\ rows'[i].status \in Terminal
        /\ rows[i].status \notin Terminal /\ rows[i].id \in Tasks
    BY <1>5 DEF Resolves, Held
  <2>2. PICK t \in Tasks : rows[i].id = t
    BY <2>1
  <2>3. PICK s \in Terminal : rows'[i].status = s
    BY <2>1
  <2>4. LedgerOf(t) = "open" /\ LedgerOf(t)' = s
    BY <1>1, <2>1, <2>2, <2>3 DEF Shown
  <2>5. ASSUME NEW u \in Tasks, u # t PROVE LedgerOf(u)' = LedgerOf(u)
    <3>1. \A j \in Held : rows[j].id = u => ~Resolves(j)
      BY <1>5, <2>2, <2>5 DEF Rewrites, Held
    <3> QED BY <1>2, <1>3, <3>1
  <2>6. Ledger!Resolve(t, s)
    BY <2>2, <2>3, <2>4, <2>5 DEF Ledger!Resolve
  <2> QED BY <2>2, <2>3, <2>6 DEF Ledger!Next, Ledger!Results, Terminal
<1> QED BY <1>4, <1>5

\* An append shows one more open task.
LEMMA AppendsLedger ==
    ASSUME QueueInv, QueueInv', LedgerReads, LedgerReads', NEW t \in Tasks, Appends(t)
    PROVE  Ledger!Next
<1>1. tail + 1 \in Slots /\ rows[tail + 1] = NoRow
  BY DEF Appends, AppendRow, QueueInv, TypeOK, FreshTail, Slots
<1>2. rows'[tail + 1] = NewRow(t) /\ \A i \in Slots \ {tail + 1} : rows'[i] = rows[i]
  BY <1>1 DEF Appends, AppendRow, Put, QueueInv, TypeOK
<1>3. NewRow(t) # NoRow
  BY NewRowIsRow, NoRowAssumption DEF Tasks
<1>4. NewRow(t).id = t /\ NewRow(t).status = "pending"
  BY DEF NewRow
<1>5. Held' = Held \cup {tail + 1}
  BY <1>1, <1>2, <1>3 DEF Held
<1>6. \A i \in Held : rows[i].id # t
  BY DEF Appends, Has, RowsOf
<1>7. LedgerOf(t) = "absent" /\ LedgerOf(t)' = "open"
  BY <1>2, <1>4, <1>5, <1>6 DEF LedgerReads, Appends, Shown, Terminal
<1>8. ASSUME NEW u \in Tasks, u # t PROVE LedgerOf(u)' = LedgerOf(u)
  <2>1. CASE \E i \in Held : rows[i].id = u
    BY <1>1, <1>2, <1>5, <2>1 DEF LedgerReads, Held
  <2>2. CASE \A i \in Held : rows[i].id # u
    <3>1. \A i \in Held' : rows'[i].id # u
      BY <1>1, <1>2, <1>4, <1>5, <1>8, <2>2 DEF Held
    <3> QED BY <2>2, <3>1 DEF LedgerReads, Appends
  <2> QED BY <2>1, <2>2
<1>9. Ledger!Accept(t)
  BY <1>7, <1>8 DEF Ledger!Accept
<1> QED BY <1>9 DEF Ledger!Next

\* An append of a post shows nothing: no task has its id.
LEMMA PostLedger ==
    ASSUME QueueInv, QueueInv', LedgerReads, LedgerReads', AppendsPost
    PROVE  \A t \in Tasks : LedgerOf(t)' = LedgerOf(t)
<1> SUFFICES ASSUME NEW t \in Tasks PROVE LedgerOf(t)' = LedgerOf(t)
  OBVIOUS
<1>0. PICK p \in PoolIds : AppendRow(p) /\ UNCHANGED archive
  BY DEF AppendsPost
<1>1. tail + 1 \in Slots /\ rows[tail + 1] = NoRow
  BY <1>0 DEF AppendRow, QueueInv, TypeOK, FreshTail, Slots
<1>2. rows'[tail + 1] = NewRow(p) /\ \A i \in Slots \ {tail + 1} : rows'[i] = rows[i]
  BY <1>0, <1>1 DEF AppendRow, Put, QueueInv, TypeOK
<1>3. NewRow(p).id # t
  BY DEF NewRow, Tasks
<1>4. CASE \E i \in Held : rows[i].id = t
  BY <1>1, <1>2, <1>4 DEF LedgerReads, Held
<1>5. CASE \A i \in Held : rows[i].id # t
  <2>1. \A i \in Held' : rows'[i].id # t
    BY <1>1, <1>2, <1>3, <1>5 DEF Held
  <2> QED BY <1>0, <1>5, <2>1 DEF LedgerReads
<1> QED BY <1>4, <1>5

\* A collection, complete or cut off between the two files, shows nothing new.
LEMMA CollectsLedger ==
    ASSUME QueueInv, QueueInv', LedgerReads, LedgerReads', Collects
    PROVE  \A t \in Tasks : LedgerOf(t)' = LedgerOf(t)
<1> SUFFICES ASSUME NEW t \in Tasks PROVE LedgerOf(t)' = LedgerOf(t)
  OBVIOUS
<1>1. \A i \in Held' : i \in Held /\ rows'[i] = rows[i]
  BY DEF Collects, Held, QueueInv, TypeOK
<1>2. CASE \E i \in Held' : rows'[i].id = t
  BY <1>1, <1>2 DEF LedgerReads
<1>3. ASSUME NEW i \in Held, rows[i].id = t, i \notin Held' PROVE LedgerOf(t)' = LedgerOf(t)
  <2>1. i \in Collectable
    BY <1>3 DEF Collects, Held
  <2>2. archive'[t] = rows[i].status /\ rows[i].status \in Terminal
    BY <1>3, <2>1, ArchiveTakes DEF Collects, Collectable
  <2>3. \A j \in Held' : rows'[j].id # t
    BY <1>1, <1>3 DEF QueueInv, Unique
  <2> QED BY <1>3, <2>2, <2>3 DEF LedgerReads, Shown, Terminal
<1>4. CASE \A i \in Held : rows[i].id # t
  <2>1. \A i \in Held' : rows'[i].id # t
    BY <1>1, <1>4
  <2>2. {i \in Collectable : rows[i].id = t} = {}
    BY <1>4 DEF Collectable
  <2>3. archive'[t] = archive[t]
    BY <2>2 DEF Collects, ArchiveWith, Tasks
  <2> QED BY <1>4, <2>1, <2>3 DEF LedgerReads
<1> QED BY <1>1, <1>2, <1>3, <1>4

\* The queue implements the ledger: an accepted task is never lost, not between
\* the two files of a collection either, and keeps its first result, for any
\* number of processes, crashes, reclaims and cancels, and whatever posts the
\* goal-pool producers append between the tasks.
THEOREM QueueKeepsLedger == Spec => KeepsLedger
<1>1. Init => QueueInv /\ Ledger!Init
  BY InitQueue, LedgerInit
<1>2. QueueInv /\ [Next]_vars => QueueInv'
  BY StepQueue
<1>3. QueueInv /\ QueueInv' /\ LedgerReads /\ LedgerReads' /\ [Next]_vars
        => [Ledger!Next]_([t \in Tasks |-> LedgerOf(t)])
  <2> SUFFICES ASSUME QueueInv, QueueInv', LedgerReads, LedgerReads', [Next]_vars
               PROVE  [Ledger!Next]_([t \in Tasks |-> LedgerOf(t)])
    OBVIOUS
  <2>1. CASE Rewrites
    BY <2>1, RewritesLedger
  <2>2. CASE Collects
    <3>1. \A t \in Tasks : LedgerOf(t)' = LedgerOf(t)
      BY <2>2, CollectsLedger
    <3> QED BY <3>1
  <2>3. CASE \E t \in Ids : Appends(t)
    BY <2>3, AppendsLedger DEF Appends
  <2>4. CASE AppendsPost
    <3>1. \A t \in Tasks : LedgerOf(t)' = LedgerOf(t)
      BY <2>4, PostLedger
    <3> QED BY <3>1
  <2>5. IndTypeOK
    BY DEF QueueInv, IndTypeOK
  <2> QED BY <2>1, <2>2, <2>3, <2>4, <2>5, AllShapes
<1> QED BY <1>1, <1>2, <1>3, LedgerIsRead, PTL DEF Spec, KeepsLedger, Ledger!Spec
=============================================================================
