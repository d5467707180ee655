------------------------ MODULE WorkspacePoolSafety ------------------------
(***************************************************************************)
(* The invariant of WorkspacePool and what follows from it: a run starts   *)
(* once, a settled run stays settled, a mounted run keeps its lock and its *)
(* tree, an available lease is gone from the disk; and the workspace keeps *)
(* the promises of WorkspaceLedger.                                        *)
(***************************************************************************)
EXTENDS WorkspacePoolProofs

USE WorkspaceAssumption

-----------------------------------------------------------------------------
(* Who may start, settle or release a run.                                 *)

\* Nothing refers to a run before its row exists.
Blank(r) ==
    status[r] = "none" =>
        /\ worker[r] = "none" /\ admitting[r] = "none" /\ submits[r] = 0
        /\ r \notin claimed /\ r \notin settling /\ r \notin resumed /\ r \notin releasing
        /\ ~HasTicket(r) /\ nominator.run # r /\ sweeping # r

\* The one thread that holds the claim and has not yet used it.
Marked(r) ==
    /\ admitting[r] = "mark" \/ (nominator.pc = "mark" /\ nominator.run = r) =>
        /\ r \in claimed /\ submits[r] = 0
        /\ worker[r] = "none" /\ status[r] = "queued"
    /\ admitting[r] = "mark" => ~(nominator.pc = "mark" /\ nominator.run = r)

\* Only waiters are admitted in turn; a nominated one has its ticket until it starts.
Waiter(r) ==
    /\ admitting[r] # "none" => r \notin Direct /\ r \in owned
    /\ HasTicket(r) => r \notin Direct
    /\ nominator.pc # "idle" /\ nominator.run = r =>
        r \notin Direct /\ (status[r] = "queued" => HasTicket(r))
    /\ r \in settling => r \in cancels /\ r \notin claimed /\ r \notin Direct

\* A worker's run is queued until it starts, and then its own process's.
AtWork(r) ==
    /\ worker[r] = "submitted" /\ r \notin resumed =>
        status[r] = "queued" /\ (r \in Direct \/ r \in claimed) /\ (r \in owned \/ HasTicket(r))
    /\ worker[r] = "submitted" /\ r \in resumed => status[r] = "resumed" /\ r \in owned
    /\ worker[r] = "executing" => status[r] = "running" /\ r \in owned
    /\ r \in resumed => status[r] \notin {"none", "queued"}

Counted(r) ==
    /\ submits[r] <= 1
    /\ submits[r] = 1 => r \in Direct \/ r \in claimed \/ status[r] # "queued"

\* Only the release of a run that has ended is on its way.
Ended(r) == r \in releasing \/ sweeping = r => status[r] \in Terminal \/ r \in resumed

Start(r) == Blank(r) /\ Marked(r) /\ Waiter(r) /\ AtWork(r) /\ Counted(r) /\ Ended(r)
Starts == \A r \in Runs : Start(r)

LEMMA InitStarts == Init => Starts
BY DEF Init, Starts, Start, Blank, Marked, Waiter, AtWork, Counted, Ended, HasTicket

LEMMA StepStarts == TypeInv /\ Starts /\ [Next]_vars => Starts'
<1> SUFFICES ASSUME TypeInv, Starts, [Next]_vars, NEW s \in Runs PROVE Start(s)'
  BY DEF Starts
<1> USE DEF rows, queue, store, threads, sweeps, bounds, history
<1>1. ASSUME NEW r \in Runs, Prepare(r) PROVE Start(s)'
  <2>1. HasTicket(s)' <=> HasTicket(s)
    BY <1>1 DEF Prepare, HasTicket
  <2> QED
    BY <1>1, <2>1 DEF Prepare, Submit, Starts, Start, Blank, Marked, Waiter, AtWork, Counted, Ended,
                      TypeInv, RunType, ThreadType, Terminal, Live
<1>2. ASSUME NEW r \in Runs, EnqueueWaiter(r) PROVE Start(s)'
  <2>1. /\ HasTicket(s) => HasTicket(s)'
        /\ HasTicket(s)' => HasTicket(s) \/ s = r
    BY <1>2 DEF EnqueueWaiter, HasTicket, TypeInv, QueueType
  <2> QED
    BY <1>2, <2>1 DEF EnqueueWaiter, Starts, Start, Blank, Marked, Waiter, AtWork, Counted, Ended,
                      TypeInv, RunType, ThreadType, Terminal, Live
<1>3. ASSUME NEW r \in Runs, ReadTurn(r) PROVE Start(s)'
  <2>1. HasTicket(s)' <=> HasTicket(s)
    BY <1>3 DEF ReadTurn, HasTicket
  <2> QED
    BY <1>3, <2>1 DEF ReadTurn, MyTurn, Starts, Start, Blank, Marked, Waiter, AtWork, Counted,
                      Ended, TypeInv, RunType, ThreadType, Terminal, Live
<1>4. ASSUME NEW r \in Runs, ClaimTurn(r) PROVE Start(s)'
  <2>1. HasTicket(s)' <=> HasTicket(s)
    BY <1>4 DEF ClaimTurn, HasTicket
  <2> QED
    BY <1>4, <2>1 DEF ClaimTurn, CanClaim, Starts, Start, Blank, Marked, Waiter, AtWork, Counted,
                      Ended, TypeInv, RunType, ThreadType, Terminal, Live
<1>5. ASSUME NEW r \in Runs, TakeTurn(r) PROVE Start(s)'
  <2>1. HasTicket(s)' <=> HasTicket(s)
    BY <1>5 DEF TakeTurn, HasTicket
  <2> QED
    BY <1>5, <2>1 DEF TakeTurn, Mark, Submit, Starts, Start, Blank, Marked, Waiter, AtWork, Counted,
                      Ended, TypeInv, RunType, ThreadType, Terminal, Live
<1>6. ASSUME NEW r \in Runs, RequestCancel(r) PROVE Start(s)'
  <2>1. HasTicket(s)' <=> HasTicket(s)
    BY <1>6 DEF RequestCancel, HasTicket
  <2> QED
    BY <1>6, <2>1 DEF RequestCancel, Starts, Start, Blank, Marked, Waiter, AtWork, Counted, Ended,
                      TypeInv, RunType, ThreadType, Terminal, Live
<1>7. ASSUME NEW r \in Runs, SettleDecide(r) PROVE Start(s)'
  <2>1. HasTicket(s)' <=> HasTicket(s)
    BY <1>7 DEF SettleDecide, HasTicket
  <2> QED
    BY <1>7, <2>1 DEF SettleDecide, Starts, Start, Blank, Marked, Waiter, AtWork, Counted, Ended,
                      TypeInv, RunType, ThreadType, Terminal, Live
<1>8. ASSUME NEW r \in Runs, SettleWrite(r) PROVE Start(s)'
  <2>1. HasTicket(s)' <=> HasTicket(s)
    BY <1>8 DEF SettleWrite, HasTicket
  <2> QED
    BY <1>8, <2>1 DEF SettleWrite, CommitTerminal, Starts, Start, Blank, Marked, Waiter, AtWork,
                      Counted, Ended, TypeInv, RunType, ThreadType, Terminal, Live
<1>9. ASSUME NEW r \in Runs, WorkerStart(r) PROVE Start(s)'
  <2>1. HasTicket(s)' <=> HasTicket(s)
    BY <1>9 DEF WorkerStart, HasTicket
  <2> QED
    BY <1>9, <2>1 DEF WorkerStart, Starts, Start, Blank, Marked, Waiter, AtWork, Counted, Ended,
                      TypeInv, RunType, ThreadType, Terminal, Live
<1>10. ASSUME NEW r \in Runs, WorkerEnd(r) PROVE Start(s)'
  <2>1. HasTicket(s)' <=> HasTicket(s)
    BY <1>10 DEF WorkerEnd, HasTicket
  <2> QED
    BY <1>10, <2>1 DEF WorkerEnd, CommitTerminal, Starts, Start, Blank, Marked, Waiter, AtWork,
                       Counted, Ended, TypeInv, RunType, ThreadType, Terminal, Live
<1>11. ASSUME NEW r \in Runs, NEW l \in Leases, Admit(r, l) PROVE Start(s)'
  <2>1. /\ HasTicket(s)' => HasTicket(s)
        /\ s # r /\ HasTicket(s) => HasTicket(s)'
    BY <1>11, RemovedTicket DEF Admit, EnqueueTerminal, TypeInv, QueueType
  <2> QED
    BY <1>11, <2>1 DEF Admit, Starts, Start, Blank, Marked, Waiter, AtWork, Counted, Ended, TypeInv,
                       RunType, ThreadType, Terminal, Live
<1>12. ASSUME NEW r \in Runs, Release(r) PROVE Start(s)'
  <2>1. /\ HasTicket(s)' => HasTicket(s)
        /\ s # r /\ HasTicket(s) => HasTicket(s)'
    BY <1>12, RemovedTicket DEF Release, EnqueueTerminal, TypeInv, QueueType
  <2> QED
    BY <1>12, <2>1 DEF Release, Starts, Start, Blank, Marked, Waiter, AtWork, Counted, Ended,
                       TypeInv, RunType, ThreadType, Terminal, Live
<1>13. ASSUME NEW r \in Runs, ReleaseFails(r) PROVE Start(s)'
  <2>1. HasTicket(s)' <=> HasTicket(s)
    BY <1>13 DEF ReleaseFails, HasTicket
  <2> QED
    BY <1>13, <2>1 DEF ReleaseFails, Starts, Start, Blank, Marked, Waiter, AtWork, Counted, Ended,
                       TypeInv, RunType, ThreadType, Terminal, Live
<1>14. ASSUME NEW r \in Runs, Resume(r) PROVE Start(s)'
  <2>1. HasTicket(s)' <=> HasTicket(s)
    BY <1>14 DEF Resume, HasTicket
  <2> QED
    BY <1>14, <2>1 DEF Resume, Starts, Start, Blank, Marked, Waiter, AtWork, Counted, Ended,
                       TypeInv, RunType, ThreadType, Terminal, Live
<1>15. ASSUME NEW r \in Runs, Recover(r) PROVE Start(s)'
  <2>1. HasTicket(s)' <=> HasTicket(s)
    BY <1>15 DEF Recover, HasTicket
  <2> QED
    BY <1>15, <2>1 DEF Recover, CommitTerminal, Starts, Start, Blank, Marked, Waiter, AtWork,
                       Counted, Ended, TypeInv, RunType, ThreadType, Terminal, Live
<1>16. ASSUME NominateRead PROVE Start(s)'
  <2>1. HasTicket(s)' <=> HasTicket(s)
    BY <1>16 DEF NominateRead, HasTicket
  <2> QED
    BY <1>16, <2>1 DEF NominateRead, Waiting, HasTicket, QueueType, Starts, Start, Blank, Marked,
                       Waiter, AtWork, Counted, Ended, TypeInv, RunType, ThreadType, Terminal, Live
<1>17. ASSUME NominateDecide PROVE Start(s)'
  <2>1. /\ HasTicket(s)' => HasTicket(s)
        /\ s # nominator.run \/ status[s] \notin Terminal => (HasTicket(s) => HasTicket(s)')
    <3>1. nominator.run \in Runs
      BY <1>17 DEF NominateDecide, TypeInv, Known
    <3>2. CASE UNCHANGED tickets
      BY <3>2 DEF HasTicket
    <3>3. CASE RemoveTicket(nominator.run) /\ status[nominator.run] \in Terminal
      BY <3>1, <3>3, RemovedTicket DEF TypeInv, QueueType
    <3> QED BY <1>17, <3>2, <3>3 DEF NominateDecide
  <2>2. nominator.run \in Runs /\ nominator.pc = "head"
    BY <1>17 DEF NominateDecide, TypeInv, Known
  <2>3. UNCHANGED <<rows, owned, worker, admitting, releasing, sweeping, submits, resumed>>
    BY <1>17 DEF NominateDecide
  <2> DEFINE r == nominator.run
             stop == nominator' = [nominator EXCEPT !.pc = "idle", !.run = NoRun, !.free = FALSE]
  <2>4. CASE stop /\ UNCHANGED <<settling, claimed>>
    BY <2>1, <2>2, <2>3, <2>4 DEF Starts, Start, Blank, Marked, Waiter, AtWork, Counted, Ended,
                                  TypeInv, RunType, ThreadType, Terminal, Live
  <2>5. CASE stop /\ UNCHANGED <<tickets, claimed>>
             /\ r \in cancels /\ r \notin claimed /\ settling' = settling \cup {r}
    <3>1. HasTicket(s)' <=> HasTicket(s)
      BY <2>5 DEF HasTicket
    <3> QED BY <2>2, <2>3, <2>5, <3>1 DEF Starts, Start, Blank, Marked, Waiter, AtWork, Counted,
    Ended, TypeInv, RunType, ThreadType, Terminal, Live
  <2>6. CASE /\ CanClaim(r) /\ claimed' = claimed \cup {r}
             /\ nominator' = [nominator EXCEPT !.pc = "mark"] /\ UNCHANGED <<tickets, settling>>
    <3>1. HasTicket(s)' <=> HasTicket(s)
      BY <2>6 DEF HasTicket
    <3>2. CASE s = r
      BY <2>2, <2>3, <2>6, <3>1, <3>2 DEF
          CanClaim, Starts, Start, Blank, Marked, Waiter, AtWork, Counted, Ended, TypeInv, RunType,
          ThreadType, Terminal, Live
    <3>3. CASE s # r
      BY <2>2, <2>3, <2>6, <3>1, <3>3 DEF
          Starts, Start, Blank, Marked, Waiter, AtWork, Counted, Ended, TypeInv, RunType,
          ThreadType, Terminal, Live
    <3> QED BY <3>2, <3>3
  <2> QED
    BY <1>17, <2>4, <2>5, <2>6 DEF NominateDecide
<1>18. ASSUME NominateDispatch PROVE Start(s)'
  <2>1. HasTicket(s)' <=> HasTicket(s)
    BY <1>18 DEF NominateDispatch, HasTicket
  <2> QED
    BY <1>18, <2>1 DEF NominateDispatch, Mark, Submit, CommitTerminal, Starts, Start, Blank, Marked,
                       Waiter, AtWork, Counted, Ended, TypeInv, RunType, ThreadType, Terminal, Live
<1>19. ASSUME SweepRead PROVE Start(s)'
  <2>1. HasTicket(s)' <=> HasTicket(s)
    BY <1>19 DEF SweepRead, HasTicket
  <2> QED
    BY <1>19, <2>1 DEF SweepRead, OrphanedLock, Starts, Start, Blank, Marked, Waiter, AtWork,
                       Counted, Ended, TypeInv, RunType, ThreadType, Terminal, Live
<1>20. ASSUME SweepWrite PROVE Start(s)'
  <2>1. /\ HasTicket(s)' => HasTicket(s)
        /\ s # sweeping /\ HasTicket(s) => HasTicket(s)'
    BY <1>20, RemovedTicket DEF SweepWrite, EnqueueTerminal, TypeInv, QueueType, ThreadType
  <2> QED
    BY <1>20, <2>1 DEF SweepWrite, Starts, Start, Blank, Marked, Waiter, AtWork, Counted, Ended,
                       TypeInv, RunType, ThreadType, Terminal, Live
<1>21. ASSUME Crash PROVE Start(s)'
  <2>1. HasTicket(s)' <=> HasTicket(s)
    BY <1>21 DEF Crash, HasTicket
  <2> QED
    BY <1>21, <2>1 DEF Crash, Idle, Starts, Start, Blank, Marked, Waiter, AtWork, Counted, Ended,
                       TypeInv, RunType, ThreadType, Terminal, Live
<1>22. ASSUME NEW l \in Leases, Populate(l) PROVE Start(s)'
  <2>1. HasTicket(s)' <=> HasTicket(s)
    BY <1>22 DEF Populate, HasTicket
  <2> QED
    BY <1>22, <2>1 DEF Populate, Starts, Start, Blank, Marked, Waiter, AtWork, Counted, Ended
<1>23. ASSUME NEW l \in Leases, GiveBack(l) PROVE Start(s)'
  <2>1. HasTicket(s)' <=> HasTicket(s)
    BY <1>23 DEF GiveBack, HasTicket
  <2> QED
    BY <1>23, <2>1 DEF GiveBack, Starts, Start, Blank, Marked, Waiter, AtWork, Counted, Ended
<1>24. ASSUME NEW p \in Procs, Claim(p) PROVE Start(s)'
  <2>1. HasTicket(s)' <=> HasTicket(s)
    BY <1>24 DEF Claim, HasTicket
  <2> QED
    BY <1>24, <2>1 DEF Claim, Starts, Start, Blank, Marked, Waiter, AtWork, Counted, Ended
<1>25. ASSUME NEW p \in Procs, LookSrc(p) PROVE Start(s)'
  <2>1. HasTicket(s)' <=> HasTicket(s)
    BY <1>25 DEF LookSrc, HasTicket
  <2> QED
    BY <1>25, <2>1 DEF LookSrc, Starts, Start, Blank, Marked, Waiter, AtWork, Counted, Ended
<1>26. ASSUME NEW p \in Procs, LookQuarantine(p) PROVE Start(s)'
  <2>1. HasTicket(s)' <=> HasTicket(s)
    BY <1>26 DEF LookQuarantine, HasTicket
  <2> QED
    BY <1>26, <2>1 DEF LookQuarantine, Starts, Start, Blank, Marked, Waiter, AtWork, Counted, Ended
<1>27. ASSUME NEW p \in Procs, ClearQuarantine(p) PROVE Start(s)'
  <2>1. HasTicket(s)' <=> HasTicket(s)
    BY <1>27 DEF ClearQuarantine, HasTicket
  <2> QED
    BY <1>27, <2>1 DEF ClearQuarantine, Starts, Start, Blank, Marked, Waiter, AtWork, Counted, Ended
<1>28. ASSUME NEW p \in Procs, Rename(p) PROVE Start(s)'
  <2>1. HasTicket(s)' <=> HasTicket(s)
    BY <1>28 DEF Rename, HasTicket
  <2> QED
    BY <1>28, <2>1 DEF Rename, Starts, Start, Blank, Marked, Waiter, AtWork, Counted, Ended
<1>29. ASSUME NEW p \in Procs, Delete(p) PROVE Start(s)'
  <2>1. HasTicket(s)' <=> HasTicket(s)
    BY <1>29 DEF Delete, HasTicket
  <2> QED
    BY <1>29, <2>1 DEF Delete, Starts, Start, Blank, Marked, Waiter, AtWork, Counted, Ended
<1>30. ASSUME NEW p \in Procs, Finish(p) PROVE Start(s)'
  <2>1. HasTicket(s)' <=> HasTicket(s)
    BY <1>30 DEF Finish, HasTicket
  <2> QED
    BY <1>30, <2>1 DEF Finish, Starts, Start, Blank, Marked, Waiter, AtWork, Counted, Ended
<1>31. ASSUME NEW p \in Procs, StartupSweep(p) PROVE Start(s)'
  <2>1. HasTicket(s)' <=> HasTicket(s)
    BY <1>31 DEF StartupSweep, HasTicket
  <2> QED
    BY <1>31, <2>1 DEF StartupSweep, Starts, Start, Blank, Marked, Waiter, AtWork, Counted, Ended
<1>32. ASSUME NEW p \in Procs, StartupDone(p) PROVE Start(s)'
  <2>1. HasTicket(s)' <=> HasTicket(s)
    BY <1>32 DEF StartupDone, HasTicket
  <2> QED
    BY <1>32, <2>1 DEF StartupDone, Starts, Start, Blank, Marked, Waiter, AtWork, Counted, Ended
<1>33. ASSUME NEW r \in Runs, Reconcile(r) \/ KeepWaiter(r) PROVE Start(s)'
  <2>1. HasTicket(s)' <=> HasTicket(s)
    BY <1>33 DEF Reconcile, KeepWaiter, HasTicket
  <2> QED
    BY <1>33, <2>1 DEF Reconcile, KeepWaiter, Starts, Start, Blank, Marked, Waiter, AtWork, Counted,
                       Ended
<1>34. CASE UNCHANGED vars
  BY <1>34 DEF vars, Starts, Start, Blank, Marked, Waiter, AtWork, Counted, Ended, HasTicket
<1> QED
  BY <1>1, <1>2, <1>3, <1>4, <1>5, <1>6, <1>7, <1>8, <1>9, <1>10, <1>11, <1>12, <1>13, <1>14, <1>15, <1>16, <1>17, <1>18, <1>19, <1>20, <1>21, <1>22, <1>23, <1>24, <1>25, <1>26, <1>27, <1>28, <1>29, <1>30, <1>31, <1>32, <1>33, <1>34 DEF
      Next, RunStep, ProcStep

-----------------------------------------------------------------------------
(* What has ended stays so.                                                *)

Over(r) == status[r] \in Terminal \/ r \in resumed

\* The one way out of a terminal status is the owner's resume.
LEMMA StepSettled ==
    ASSUME TypeInv, Starts, [Next]_vars, NEW r \in Runs
    PROVE  /\ status[r] \in Terminal =>
                status'[r] = status[r] \/ (status[r] = "interrupted" /\ status'[r] = "resumed")
           /\ Over(r) => Over(r)'
           /\ resumed \subseteq resumed'
<1> DEFINE Goal == /\ status[r] \in Terminal =>
                        \/ status'[r] = status[r]
                        \/ status[r] = "interrupted" /\ status'[r] = "resumed"
                   /\ Over(r) => Over(r)'
                   /\ resumed \subseteq resumed'
<1> USE DEF rows, queue, store, threads, sweeps, bounds, history
<1>1. ASSUME NEW q \in Runs, Prepare(q) PROVE Goal
  BY <1>1 DEF Prepare, Submit, TypeInv, RunType, Starts, Start, Marked, AtWork, Over, Terminal
<1>2. ASSUME NEW q \in Runs, SettleWrite(q) PROVE Goal
  BY <1>2 DEF SettleWrite, CommitTerminal, TypeInv, RunType, Starts, Start, Marked, AtWork, Over,
              Terminal
<1>3. ASSUME NEW q \in Runs, WorkerStart(q) PROVE Goal
  BY <1>3 DEF WorkerStart, TypeInv, RunType, Starts, Start, Marked, AtWork, Over, Terminal
<1>4. ASSUME NEW q \in Runs, WorkerEnd(q) PROVE Goal
  BY <1>4 DEF WorkerEnd, CommitTerminal, TypeInv, RunType, Starts, Start, Marked, AtWork, Over, Terminal
<1>5. ASSUME NEW q \in Runs, Resume(q) PROVE Goal
  BY <1>5 DEF Resume, TypeInv, RunType, Starts, Start, Marked, AtWork, Over, Terminal
<1>6. ASSUME NEW q \in Runs, Recover(q) PROVE Goal
  BY <1>6 DEF Recover, CommitTerminal, Live, TypeInv, RunType, Starts, Start, Marked, AtWork, Over,
              Terminal
<1>7. CASE NominateDispatch
  BY <1>7 DEF NominateDispatch, Mark, Submit, CommitTerminal, Known, TypeInv, RunType, Starts,
              Start, Marked, AtWork, Over, Terminal
<1>8. CASE UNCHANGED <<status, resumed>>
  BY <1>8 DEF Over
<1> QED
  BY <1>1, <1>2, <1>3, <1>4, <1>5, <1>6, <1>7, <1>8
  DEF Next, RunStep, ProcStep, vars, EnqueueWaiter, ReadTurn, ClaimTurn, TakeTurn, RequestCancel,
      SettleDecide, Admit, Release, ReleaseFails, Reconcile, KeepWaiter, NominateRead,
      NominateDecide, SweepRead, SweepWrite, Crash, Populate, GiveBack, Claim, LookSrc,
      LookQuarantine, ClearQuarantine, Rename, Delete, Finish, StartupSweep, StartupDone

-----------------------------------------------------------------------------
(* The outbox and the lock.                                                *)

\* A processor works on an entry of the outbox, and in the pool on a lease.
Working ==
    \A p \in Procs : proc[p].pc # "idle" =>
        /\ proc[p].entry \in DOMAIN outbox
        /\ proc[p].pc # "finish" => outbox[proc[p].entry].lease \in Leases

\* Only a run that has ended, or was resumed, is owed the release of its lock.
Owed == \A i \in DOMAIN outbox : outbox[i].release => Over(outbox[i].run)

\* A mounted lease is its executing run's, which holds the lock.
Mounts ==
    \A l \in Leases : mount[l] # "no" =>
        /\ worker[lease[l].run] = "executing"
        /\ lease[l].run \notin resumed => lock = lease[l].run

LEMMA EntryColumns ==
    ASSUME TypeInv, NEW i \in DOMAIN outbox
    PROVE  outbox[i].run \in Runs /\ outbox[i].lease \in Leases \cup {NoLease}
<1>1. outbox[i] \in Entry
  BY DEF TypeInv, OutboxType
<1> QED BY <1>1 DEF Entry

\* What a step does to the entries that are there.
Grows ==
    \A i \in DOMAIN outbox :
        /\ i \in DOMAIN outbox'
        /\ outbox'[i].run = outbox[i].run /\ outbox'[i].lease = outbox[i].lease
        /\ outbox'[i].release = outbox[i].release

LEMMA EnqueueGrows ==
    ASSUME TypeInv, Starts, NEW r \in Runs, Over(r), EnqueueTerminal(r)
    PROVE  /\ Grows
           /\ \A i \in DOMAIN outbox' \ DOMAIN outbox :
                outbox'[i].run = r /\ outbox'[i].lease \in ActiveOf(r) \cup {NoLease}
BY ReleaseEntries DEF Grows, TypeInv, OutboxType, ThreadType

LEMMA AppendGrows ==
    ASSUME TypeInv, NEW e \in Entry, outbox' = Append(outbox, e)
    PROVE  /\ Grows
           /\ \A i \in DOMAIN outbox' \ DOMAIN outbox : outbox'[i] = e
BY DEF Grows, TypeInv, OutboxType

LEMMA UpdateGrows ==
    ASSUME TypeInv, NEW i, NEW n,
           \/ outbox' = [outbox EXCEPT ![i].token = n]
           \/ outbox' = [outbox EXCEPT ![i].done = TRUE]
           \/ outbox' = outbox
    PROVE  Grows /\ DOMAIN outbox' = DOMAIN outbox
<1>1. \A j \in DOMAIN outbox : outbox[j] \in Entry
  BY DEF TypeInv, OutboxType
<1>2. DOMAIN outbox' = DOMAIN outbox
  OBVIOUS
<1>3. ASSUME NEW j \in DOMAIN outbox
      PROVE  /\ outbox'[j].run = outbox[j].run /\ outbox'[j].lease = outbox[j].lease
             /\ outbox'[j].release = outbox[j].release
  BY <1>1 DEF Entry
<1> QED BY <1>2, <1>3 DEF Grows

\* An entry that a step adds is a lease given back, or an ended run's release.
LEMMA StepGrows ==
    ASSUME TypeInv, Starts, [Next]_vars
    PROVE  /\ Grows
           /\ \A i \in DOMAIN outbox' \ DOMAIN outbox :
                \/ /\ Over(outbox'[i].run) /\ outbox'[i].run \in Runs
                   /\ outbox'[i].lease \in ActiveOf(outbox'[i].run) \cup {NoLease}
                \/ /\ outbox'[i].lease \in Leases /\ ~outbox'[i].release
                   /\ mount[outbox'[i].lease] # "no" /\ GiveBack(outbox'[i].lease)
<1> DEFINE Goal ==
           /\ Grows
           /\ \A i \in DOMAIN outbox' \ DOMAIN outbox :
                \/ /\ Over(outbox'[i].run) /\ outbox'[i].run \in Runs
                   /\ outbox'[i].lease \in ActiveOf(outbox'[i].run) \cup {NoLease}
                \/ /\ outbox'[i].lease \in Leases /\ ~outbox'[i].release
                   /\ mount[outbox'[i].lease] # "no" /\ GiveBack(outbox'[i].lease)
<1>1. ASSUME NEW r \in Runs, Over(r), EnqueueTerminal(r) PROVE Goal
  BY <1>1, EnqueueGrows
<1>2. ASSUME NEW r \in Runs, Release(r) PROVE Goal
  BY <1>1, <1>2 DEF Release, Starts, Start, Ended, Over
<1>3. CASE SweepWrite
  BY <1>1, <1>3 DEF SweepWrite, Starts, Start, Ended, Over, TypeInv, ThreadType
<1>4. ASSUME NEW l \in Leases, GiveBack(l) PROVE Goal
  <2> DEFINE e == NewEntry(lease[l].run, l, FALSE)
  <2>1. e \in Entry /\ e.lease = l /\ e.release = FALSE
    BY <1>4 DEF GiveBack, NewEntry, Entry, TypeInv, ThreadType, Known
  <2>2. outbox' = Append(outbox, e) /\ mount[l] # "no"
    BY <1>4 DEF GiveBack
  <2> HIDE DEF e
  <2> QED BY <1>4, <2>1, <2>2, AppendGrows
<1>5. ASSUME NEW p \in Procs, Claim(p) PROVE Goal
  <2>1. PICK i \in Unfinished : outbox' = [outbox EXCEPT ![i].token = outbox[i].token + 1]
    BY <1>5, Zenon DEF Claim
  <2> QED BY <2>1, UpdateGrows
<1>6. ASSUME NEW p \in Procs, Finish(p) PROVE Goal
  <2>1. \/ outbox' = outbox
        \/ outbox' = [outbox EXCEPT ![proc[p].entry].done = TRUE]
    BY <1>6, Zenon DEF Finish, store
  <2> QED BY <2>1, UpdateGrows
<1>7. CASE UNCHANGED outbox
  BY <1>7, UpdateGrows
<1> QED
  BY <1>2, <1>3, <1>4, <1>5, <1>6, <1>7
  DEF Next, RunStep, ProcStep, vars, store,
      Prepare, EnqueueWaiter, ReadTurn, ClaimTurn, TakeTurn, RequestCancel, SettleDecide,
      SettleWrite, WorkerStart, Admit, WorkerEnd, ReleaseFails, Resume, Recover, Reconcile,
      KeepWaiter, NominateRead, NominateDecide, NominateDispatch, SweepRead, Crash, Populate,
      LookSrc, LookQuarantine, ClearQuarantine, Rename, Delete, StartupSweep, StartupDone

LEMMA InitHolds == Init => Working /\ Owed /\ Mounts
BY DEF Init, Working, Owed, Mounts, Idle

LEMMA StepOwed ==
    ASSUME TypeInv, Starts, Owed, [Next]_vars
    PROVE  Owed'
<1> SUFFICES ASSUME NEW i \in DOMAIN outbox', outbox'[i].release
             PROVE  status'[outbox'[i].run] \in Terminal \/ outbox'[i].run \in resumed'
  BY DEF Owed, Over
<1>1. \A j \in DOMAIN outbox : outbox[j].run \in Runs
  BY EntryColumns
<1>2. \A r \in Runs : Over(r) => Over(r)'
  BY StepSettled
<1>3. CASE i \in DOMAIN outbox
  BY <1>1, <1>2, <1>3, StepGrows DEF Grows, Owed, Over
<1>4. CASE i \notin DOMAIN outbox
  BY <1>2, <1>4, StepGrows DEF Over
<1> QED BY <1>3, <1>4

LEMMA StepWorking ==
    ASSUME TypeInv, Starts, Working, [Next]_vars
    PROVE  Working'
<1>1. Grows
  BY StepGrows
<1>2. ASSUME NEW p \in Procs,
             \A q \in Procs \ {p} : proc'[q] = proc[q],
             proc'[p].pc # "idle" =>
                /\ proc'[p].entry \in DOMAIN outbox'
                /\ proc'[p].pc # "finish" => outbox'[proc'[p].entry].lease \in Leases
      PROVE  Working'
  BY <1>1, <1>2 DEF Working, Grows
<1>3. CASE UNCHANGED proc
  BY <1>1, <1>3 DEF Working, Grows
<1>4. CASE Crash
  BY <1>4 DEF Crash, Working, Idle
<1>5. ASSUME NEW p \in Procs, Claim(p) PROVE Working'
  <2>1. PICK i \in Unfinished :
          proc' = [proc EXCEPT ![p] =
             [Idle EXCEPT !.pc = IF outbox[i].lease = NoLease THEN "finish" ELSE "look",
                          !.entry = i, !.token = outbox[i].token + 1]]
    BY <1>5, Zenon DEF Claim
  <2>2. /\ i \in DOMAIN outbox' /\ outbox'[i].lease = outbox[i].lease
        /\ outbox[i].lease \in Leases \cup {NoLease}
    BY <1>1, <2>1, EntryColumns DEF Grows, Unfinished
  <2> QED BY <1>2, <2>1, <2>2 DEF TypeInv, OutboxType, Idle
<1>6. ASSUME NEW p \in Procs, Finish(p) PROVE Working'
  BY <1>2, <1>6 DEF Finish, Idle, TypeInv, OutboxType
<1>7. ASSUME NEW p \in Procs,
             LookSrc(p) \/ LookQuarantine(p) \/ ClearQuarantine(p) \/ Rename(p) \/ Delete(p)
      PROVE  Working'
  <2>1. /\ UNCHANGED outbox /\ proc[p].pc \notin {"idle", "finish"}
        /\ \A q \in Procs \ {p} : proc'[q] = proc[q]
        /\ proc'[p].entry = proc[p].entry
    BY <1>7 DEF LookSrc, LookQuarantine, ClearQuarantine, Rename, Delete, Remove, RenameFailed,
                store, TypeInv, OutboxType, Processor
  <2> QED BY <1>2, <2>1 DEF Working
<1> QED
  BY <1>3, <1>4, <1>5, <1>6, <1>7
  DEF Next, RunStep, ProcStep, vars,
      Prepare, EnqueueWaiter, ReadTurn, ClaimTurn, TakeTurn, RequestCancel, SettleDecide,
      SettleWrite, WorkerStart, Admit, WorkerEnd, Release, ReleaseFails, Resume, Recover,
      Reconcile, KeepWaiter, NominateRead, NominateDecide, NominateDispatch, SweepRead,
      SweepWrite, Populate, GiveBack, StartupSweep, StartupDone

\* A look that fails is remembered, of the lease that its processor works on.
LEMMA StepOverlooked ==
    ASSUME Working, [Next]_vars
    PROVE  overlooked \subseteq overlooked' /\ overlooked' \subseteq overlooked \cup Leases
<1>1. ASSUME NEW p \in Procs, LookSrc(p) \/ LookQuarantine(p)
      PROVE  \/ overlooked' = overlooked
             \/ overlooked' = overlooked \cup {At(p)} /\ At(p) \in Leases
  <2>1. At(p) \in Leases
    BY <1>1 DEF LookSrc, LookQuarantine, Working, At
  <2> QED BY <1>1, <2>1 DEF LookSrc, LookQuarantine, Sees
<1>2. CASE UNCHANGED overlooked
  BY <1>2
<1> QED
  BY <1>1, <1>2
  DEF Next, RunStep, ProcStep, vars, history,
      Prepare, EnqueueWaiter, ReadTurn, ClaimTurn, TakeTurn, RequestCancel, SettleDecide,
      SettleWrite, WorkerStart, Admit, WorkerEnd, Release, ReleaseFails, Resume, Recover,
      Reconcile, KeepWaiter, NominateRead, NominateDecide, NominateDispatch, SweepRead, SweepWrite,
      Populate, GiveBack, Crash, Claim, ClearQuarantine, Rename, Delete, Finish, StartupSweep,
      StartupDone

LEMMA StepMounts ==
    ASSUME TypeInv, Starts, Working, Owed, Mounts, [Next]_vars
    PROVE  Mounts'
<1> SUFFICES ASSUME NEW k \in Leases
             PROVE  mount'[k] # "no" =>
                        /\ worker'[lease'[k].run] = "executing"
                        /\ lease'[k].run \notin resumed' => lock' = lease'[k].run
  BY DEF Mounts
<1> DEFINE Goal == mount'[k] # "no" =>
                        /\ worker'[lease'[k].run] = "executing"
                        /\ lease'[k].run \notin resumed' => lock' = lease'[k].run
<1>1. CASE UNCHANGED <<mount, lease, worker, lock, resumed>>
  BY <1>1 DEF Mounts
<1>2. ASSUME NEW r \in Runs, Prepare(r) PROVE Goal
  BY <1>2 DEF Prepare, Submit, Mounts, Starts, Start, Blank, TypeInv, RunType, Known, store
<1>3. ASSUME NEW r \in Runs, TakeTurn(r) PROVE Goal
  BY <1>3 DEF TakeTurn, Submit, Mounts, Starts, Start, Marked, TypeInv, RunType, Known, store
<1>4. CASE NominateDispatch
  <2>1. nominator.run \in Runs /\ worker[nominator.run] = "none"
    BY <1>4 DEF NominateDispatch, Starts, Start, Marked, TypeInv, Known
  <2>2. UNCHANGED <<mount, lease, lock, resumed>>
    BY <1>4 DEF NominateDispatch, store
  <2>3. \A r \in Runs \ {nominator.run} : worker'[r] = worker[r]
    BY <1>4, <2>1 DEF NominateDispatch, Submit, TypeInv, RunType
  <2> QED BY <2>1, <2>2, <2>3 DEF Mounts, TypeInv, Known
<1>5. ASSUME NEW r \in Runs, WorkerStart(r) PROVE Goal
  BY <1>5 DEF WorkerStart, Mounts, TypeInv, RunType, Known, store, history
<1>6. ASSUME NEW r \in Runs, NEW l \in Leases, Admit(r, l) PROVE Goal
  <2>1. CASE k = l
    BY <1>6, <2>1 DEF Admit, TypeInv, LeaseType
  <2>2. CASE k # l
    BY <1>6, <2>2 DEF Admit, MayLock, Mounts, TypeInv, LeaseType, Known, history
  <2> QED BY <2>1, <2>2
<1>7. ASSUME NEW r \in Runs, WorkerEnd(r) PROVE Goal
  BY <1>7 DEF WorkerEnd, Mounts, TypeInv, RunType, LeaseType, Known, store, history
<1>8. ASSUME NEW r \in Runs, Resume(r) PROVE Goal
  BY <1>8 DEF Resume, Mounts, Starts, Start, AtWork, TypeInv, RunType, Known, store
<1>9. CASE Crash
  BY <1>9 DEF Crash
<1>10. ASSUME NEW l \in Leases, Populate(l) \/ GiveBack(l) PROVE Goal
  BY <1>10 DEF Populate, GiveBack, Mounts, TypeInv, LeaseType, store, history
<1>11. ASSUME NEW p \in Procs, Finish(p) PROVE Goal
  <2> DEFINE e == outbox[proc[p].entry]
  <2>1. UNCHANGED <<mount, worker, resumed>>
    BY <1>11 DEF Finish, history
  <2>2. lease'[k].run = lease[k].run
    BY <1>11 DEF Finish, store, TypeInv, LeaseType
  <2>3. CASE lock' = lock
    BY <2>1, <2>2, <2>3 DEF Mounts
  <2>4. CASE lock' # lock
    <3>1. e.release /\ lock = e.run
      BY <1>11, <2>4 DEF Finish, Freed
    <3>2. proc[p].entry \in DOMAIN outbox
      BY <1>11 DEF Finish, Working
    <3>3. Over(lock)
      BY <3>1, <3>2 DEF Owed
    <3>4. mount[k] # "no" /\ lease[k].run \notin resumed => status[lease[k].run] = "running"
      BY DEF Mounts, Starts, Start, AtWork, TypeInv, Known
    <3> QED BY <2>1, <2>2, <3>3, <3>4 DEF Over, Mounts, Terminal
  <2> QED BY <2>3, <2>4
<1> QED
  BY <1>1, <1>2, <1>3, <1>4, <1>5, <1>6, <1>7, <1>8, <1>9, <1>10, <1>11
  DEF Next, RunStep, ProcStep, vars, store, history,
      EnqueueWaiter, ReadTurn, ClaimTurn, RequestCancel, SettleDecide, SettleWrite, Release,
      ReleaseFails, Recover, Reconcile, KeepWaiter, NominateRead, NominateDecide, SweepRead,
      SweepWrite, Claim, LookSrc, LookQuarantine, ClearQuarantine, Rename, Delete, StartupSweep,
      StartupDone

-----------------------------------------------------------------------------
(* The leases and their trees.                                             *)

\* A lease that only processors touch.
Free(l) == mount[l] = "no" \/ lease[l].run \in resumed

\* An entry's lease was admitted once and is in nobody's hands any more.
Wiped ==
    \A i \in DOMAIN outbox : outbox[i].lease \in Leases =>
        lease[outbox[i].lease].state # "none" /\ Free(outbox[i].lease)

Tree(l) ==
    /\ lease[l].state = "none" => disk[l] = {} /\ mount[l] = "no"
    /\ lease[l].run \notin resumed =>
        /\ mount[l] = "filling" => disk[l] = {}
        /\ mount[l] = "in" => disk[l] = {"src"}
        /\ lease[l].state = "AVAILABLE" =>
             (l \notin overlooked => disk[l] = {}) /\ mount[l] = "no"
Trees == \A l \in Leases : Tree(l)

\* What a processor knows of the tree, whoever else has been at it since; after
\* a look that failed there it knows only what it has done itself.
Hand(p) ==
    proc[p].pc # "idle" /\ At(p) \in Leases =>
        (lease[At(p)].run \notin resumed =>
            /\ proc[p].pc = "delete" => "src" \notin disk[At(p)]
            /\ At(p) \notin overlooked =>
                /\ proc[p].pc = "clear" /\ ~proc[p].src => "src" \notin disk[At(p)]
                /\ proc[p].pc = "finish" /\ ~proc[p].lost => disk[At(p)] = {})
Hands == \A p \in Procs : Hand(p)

LEMMA InitWipes == Init => Wiped /\ Trees /\ Hands
BY DEF Init, Wiped, Trees, Tree, Hands, Hand, Idle

\* A free lease stays its run's and stays free.
LEMMA FreeStays ==
    ASSUME TypeInv, Starts, [Next]_vars, NEW l \in Leases, lease[l].state # "none"
    PROVE  /\ lease'[l].run = lease[l].run /\ lease'[l].state # "none"
           /\ Free(l) => Free(l)'
<1> DEFINE Goal == /\ lease'[l].run = lease[l].run /\ lease'[l].state # "none"
                   /\ Free(l) => Free(l)'
<1>0. resumed \subseteq resumed'
  <2>1. CASE Runs = {}
    BY <2>1 DEF TypeInv, RunType
  <2>2. CASE Runs # {}
    BY <2>2, StepSettled
  <2> QED BY <2>1, <2>2
<1>1. CASE UNCHANGED <<lease, mount>>
  BY <1>0, <1>1 DEF Free
<1>2. ASSUME NEW r \in Runs, NEW k \in Leases, Admit(r, k) PROVE Goal
  BY <1>0, <1>2 DEF Admit, Free, TypeInv, LeaseType
<1>3. ASSUME NEW k \in Leases, Populate(k) \/ GiveBack(k) PROVE Goal
  BY <1>0, <1>3 DEF Populate, GiveBack, Free, store, TypeInv, LeaseType
<1>4. ASSUME NEW r \in Runs, WorkerEnd(r) PROVE Goal
  BY <1>0, <1>4 DEF WorkerEnd, Free, store, TypeInv, LeaseType
<1>5. CASE Crash
  BY <1>0, <1>5 DEF Crash, Free, store
<1>6. ASSUME NEW p \in Procs, Finish(p) PROVE Goal
  BY <1>0, <1>6 DEF Finish, Free, store, TypeInv, LeaseType
<1> QED
  BY <1>1, <1>2, <1>3, <1>4, <1>5, <1>6
  DEF Next, RunStep, ProcStep, vars, store,
      Prepare, EnqueueWaiter, ReadTurn, ClaimTurn, TakeTurn, RequestCancel, SettleDecide,
      SettleWrite, WorkerStart, Release, ReleaseFails, Resume, Recover, Reconcile, KeepWaiter,
      NominateRead, NominateDecide, NominateDispatch, SweepRead, SweepWrite, Claim, LookSrc,
      LookQuarantine, ClearQuarantine, Rename, Delete, StartupSweep, StartupDone

\* Of a lease that is not mounted, no step brings a name back.
LEMMA NamesGo ==
    ASSUME TypeInv, Working, [Next]_vars, NEW l \in Leases, mount[l] = "no"
    PROVE  /\ "src" \notin disk[l] => "src" \notin disk'[l]
           /\ disk[l] = {} => disk'[l] = {}
<1> DEFINE Goal == /\ "src" \notin disk[l] => "src" \notin disk'[l]
                   /\ disk[l] = {} => disk'[l] = {}
<1>1. CASE UNCHANGED disk
  BY <1>1
<1>2. ASSUME NEW k \in Leases, Populate(k) \/ GiveBack(k) PROVE Goal
  BY <1>2 DEF Populate, GiveBack, TypeInv, LeaseType
<1>3. ASSUME NEW p \in Procs, ClearQuarantine(p) \/ Delete(p) PROVE Goal
  BY <1>3 DEF ClearQuarantine, Delete, Remove, At, Working, TypeInv, LeaseType
<1>4. ASSUME NEW p \in Procs, Rename(p) PROVE Goal
  BY <1>4 DEF Rename, At, Working, TypeInv, LeaseType
<1> QED
  BY <1>1, <1>2, <1>3, <1>4
  DEF Next, RunStep, ProcStep, vars,
      Prepare, EnqueueWaiter, ReadTurn, ClaimTurn, TakeTurn, RequestCancel, SettleDecide,
      SettleWrite, WorkerStart, Admit, WorkerEnd, Release, ReleaseFails, Resume, Recover,
      Reconcile, KeepWaiter, NominateRead, NominateDecide, NominateDispatch, SweepRead,
      SweepWrite, Crash, Claim, LookSrc, LookQuarantine, Finish, StartupSweep, StartupDone

LEMMA StepWiped ==
    ASSUME TypeInv, Starts, Mounts, Trees, Wiped, [Next]_vars
    PROVE  Wiped'
<1> SUFFICES ASSUME NEW i \in DOMAIN outbox', outbox'[i].lease \in Leases
             PROVE  /\ lease'[outbox'[i].lease].state # "none"
                    /\ mount'[outbox'[i].lease] = "no" \/ lease'[outbox'[i].lease].run \in resumed'
  BY DEF Wiped, Free
<1> DEFINE l == outbox'[i].lease
<1>1. ASSUME lease[l].state # "none", Free(l)
      PROVE  lease'[l].state # "none" /\ (mount'[l] = "no" \/ lease'[l].run \in resumed')
  BY <1>1, FreeStays DEF Free
<1>2. CASE i \in DOMAIN outbox
  <2>1. l = outbox[i].lease
    BY <1>2, StepGrows DEF Grows
  <2> QED BY <1>1, <1>2, <2>1 DEF Wiped
<1>3. CASE i \notin DOMAIN outbox /\ GiveBack(l) /\ mount[l] # "no"
  <2>1. lease[l].state # "none"
    BY <1>3 DEF Trees, Tree
  <2>2. UNCHANGED lease /\ mount'[l] = "no"
    BY <1>3 DEF GiveBack, TypeInv, LeaseType
  <2> QED BY <2>1, <2>2
<1>4. CASE Over(outbox'[i].run) /\ outbox'[i].run \in Runs /\ l \in ActiveOf(outbox'[i].run)
  <2>1. lease[l].state # "none" /\ lease[l].run = outbox'[i].run
    BY <1>4 DEF ActiveOf
  <2>2. Free(l)
    BY <1>4, <2>1 DEF Free, Over, Terminal, Mounts, Starts, Start, AtWork
  <2> QED BY <1>1, <2>1, <2>2
<1> QED BY <1>2, <1>3, <1>4, StepGrows

\* A processor at work has a lease that is free.
LEMMA AtFree ==
    ASSUME Working, Wiped, NEW p \in Procs, proc[p].pc \notin {"idle", "finish"}
    PROVE  At(p) \in Leases /\ lease[At(p)].state # "none" /\ Free(At(p))
BY DEF Working, Wiped, At

LEMMA StepTrees ==
    ASSUME TypeInv, Starts, Working, Mounts, Wiped, Trees, Hands, [Next]_vars
    PROVE  Trees'
<1> SUFFICES ASSUME NEW l \in Leases PROVE Tree(l)'
  BY DEF Trees
<1> USE DEF Tree
<1>0. resumed \subseteq resumed' /\ overlooked \subseteq overlooked' /\ Tree(l)
  <2>1. CASE Runs = {}
    BY <2>1, StepOverlooked DEF TypeInv, RunType, Trees
  <2>2. CASE Runs # {}
    BY <2>2, StepSettled, StepOverlooked DEF Trees
  <2> QED BY <2>1, <2>2
<1>1. CASE UNCHANGED <<lease, mount, disk>>
  BY <1>0, <1>1
<1>2. ASSUME NEW r \in Runs, NEW k \in Leases, Admit(r, k) PROVE Tree(l)'
  BY <1>0, <1>2 DEF Admit, TypeInv, LeaseType
<1>3. ASSUME NEW k \in Leases, Populate(k) PROVE Tree(l)'
  BY <1>0, <1>3 DEF Populate, store, TypeInv, LeaseType
<1>4. ASSUME NEW k \in Leases, GiveBack(k) PROVE Tree(l)'
  BY <1>0, <1>4 DEF GiveBack, TypeInv, LeaseType
<1>5. ASSUME NEW r \in Runs, WorkerEnd(r) PROVE Tree(l)'
  BY <1>0, <1>5 DEF WorkerEnd, store, TypeInv, LeaseType
<1>6. CASE Crash
  BY <1>0, <1>6 DEF Crash, store
<1>7. ASSUME NEW p \in Procs, Finish(p) PROVE Tree(l)'
  <2> DEFINE e == outbox[proc[p].entry]
  <2>1. UNCHANGED <<disk, mount>>
    BY <1>7 DEF Finish
  <2>2. CASE lease' = lease
    BY <1>0, <2>1, <2>2
  <2>3. CASE lease' # lease
    <3>1. /\ proc[p].pc = "finish" /\ e.lease # NoLease
          /\ lease' = [lease EXCEPT ![e.lease].state =
                            IF proc[p].lost THEN "LOST" ELSE "AVAILABLE"]
      BY <1>7, <2>3 DEF Finish, store
    <3>2. proc[p].entry \in DOMAIN outbox /\ e.lease \in Leases
      BY <3>1, EntryColumns DEF Working
    <3>3. lease[e.lease].state # "none" /\ Free(e.lease)
      BY <3>2 DEF Wiped
    <3>4. lease[e.lease].run \notin resumed /\ ~proc[p].lost /\ e.lease \notin overlooked
            => disk[e.lease] = {}
      BY <3>1, <3>2 DEF Hands, Hand, At
    <3> HIDE DEF e
    <3> QED BY <1>0, <2>1, <3>1, <3>2, <3>3, <3>4 DEF Free, TypeInv, LeaseType
  <2> QED BY <2>2, <2>3
<1>8. ASSUME NEW p \in Procs, ClearQuarantine(p) \/ Rename(p) \/ Delete(p) PROVE Tree(l)'
  <2>1. At(p) \in Leases /\ lease[At(p)].state # "none" /\ Free(At(p))
    BY <1>8, AtFree DEF ClearQuarantine, Rename, Delete
  <2>2. /\ UNCHANGED <<lease, mount>>
        /\ \A k \in Leases \ {At(p)} : disk'[k] = disk[k]
    BY <1>8, <2>1 DEF ClearQuarantine, Rename, Delete, Remove, store, TypeInv, LeaseType
  <2>3. mount[l] = "no" => (disk[l] = {} => disk'[l] = {})
    BY NamesGo
  <2> HIDE DEF At
  <2> QED BY <1>0, <2>1, <2>2, <2>3 DEF Free, TypeInv, LeaseType
<1> QED
  BY <1>1, <1>2, <1>3, <1>4, <1>5, <1>6, <1>7, <1>8
  DEF Next, RunStep, ProcStep, vars, store,
      Prepare, EnqueueWaiter, ReadTurn, ClaimTurn, TakeTurn, RequestCancel, SettleDecide,
      SettleWrite, WorkerStart, Release, ReleaseFails, Resume, Recover, Reconcile, KeepWaiter,
      NominateRead, NominateDecide, NominateDispatch, SweepRead, SweepWrite, Claim, LookSrc,
      LookQuarantine, StartupSweep, StartupDone

LEMMA StepHands ==
    ASSUME TypeInv, Starts, Working, Mounts, Wiped, Trees, Hands, [Next]_vars
    PROVE  Hands'
<1> SUFFICES ASSUME NEW p \in Procs PROVE Hand(p)'
  BY DEF Hands
<1>1. Grows /\ resumed \subseteq resumed' /\ overlooked \subseteq overlooked'
  <2>1. CASE Runs = {}
    BY <2>1, StepGrows, StepOverlooked DEF TypeInv, RunType
  <2>2. CASE Runs # {}
    BY <2>2, StepSettled, StepGrows, StepOverlooked
  <2> QED BY <2>1, <2>2
\* The step leaves this processor alone.
<1>2. CASE proc'[p] = proc[p]
  <2> SUFFICES ASSUME proc[p].pc # "idle", At(p)' \in Leases, lease'[At(p)'].run \notin resumed'
               PROVE  /\ proc[p].pc = "delete" => "src" \notin disk'[At(p)']
                      /\ At(p)' \notin overlooked' =>
                          /\ proc[p].pc = "clear" /\ ~proc[p].src => "src" \notin disk'[At(p)']
                          /\ proc[p].pc = "finish" /\ ~proc[p].lost => disk'[At(p)'] = {}
    BY <1>2 DEF Hand
  <2>1. proc[p].entry \in DOMAIN outbox /\ At(p)' = At(p)
    BY <1>1, <1>2 DEF Working, Grows, At
  <2>2. lease[At(p)].state # "none" /\ Free(At(p))
    BY <2>1 DEF Wiped, At
  <2>3. lease'[At(p)].run = lease[At(p)].run
    BY <2>1, <2>2, FreeStays
  <2>4. mount[At(p)] = "no" /\ lease[At(p)].run \notin resumed
    BY <1>1, <2>1, <2>2, <2>3 DEF Free
  <2>5. Hand(p)
    BY DEF Hands
  <2> QED BY <1>1, <2>1, <2>4, <2>5, NamesGo DEF Hand
<1>3. CASE Crash
  BY <1>3 DEF Crash, Hand, Idle
<1>4. CASE Claim(p)
  <2>1. PICK i \in Unfinished :
          /\ outbox' = [outbox EXCEPT ![i].token = outbox[i].token + 1]
          /\ proc' = [proc EXCEPT ![p] =
             [Idle EXCEPT !.pc = IF outbox[i].lease = NoLease THEN "finish" ELSE "look",
                          !.entry = i, !.token = outbox[i].token + 1]]
    BY <1>4, Zenon DEF Claim
  <2>2. i \in DOMAIN outbox /\ outbox'[i].lease = outbox[i].lease
    BY <1>1, <2>1 DEF Grows, Unfinished
  <2>3. proc'[p].entry = i
        /\ proc'[p].pc = (IF outbox[i].lease = NoLease THEN "finish" ELSE "look")
    BY <2>1 DEF Idle, TypeInv, OutboxType
  <2> QED BY <2>2, <2>3 DEF Hand, At
<1>5. CASE Finish(p)
  BY <1>5 DEF Finish, Hand, Idle, TypeInv, OutboxType
\* The steps of the wipe itself.
<1>6. ASSUME LookSrc(p) \/ LookQuarantine(p) \/ ClearQuarantine(p) \/ Rename(p) \/ Delete(p)
      PROVE  Hand(p)'
  <2>1. At(p) \in Leases /\ Hand(p) /\ proc[p] \in Processor /\ disk[At(p)] \subseteq {"src", "quarantine"}
    BY <1>6, AtFree DEF LookSrc, LookQuarantine, ClearQuarantine, Rename, Delete, Hands, TypeInv,
                        OutboxType, LeaseType
  <2>2. /\ UNCHANGED <<outbox, lease, resumed>> /\ proc[p].pc # "idle"
        /\ overlooked \subseteq overlooked'
    BY <1>1, <1>6 DEF LookSrc, LookQuarantine, ClearQuarantine, Rename, Delete, store, history
  <2>3. CASE LookSrc(p)
    <3>1. PICK seen \in BOOLEAN :
            /\ Sees(p, "src", seen)
            /\ proc' = [proc EXCEPT ![p] = [proc[p] EXCEPT !.src = seen, !.pc = "clear"]]
      BY <2>3, Zenon DEF LookSrc
    <3>2. /\ proc'[p].pc = "clear" /\ proc'[p].src = seen /\ proc'[p].entry = proc[p].entry
      BY <2>1, <3>1 DEF TypeInv, OutboxType, Processor
    <3>3. At(p)' = At(p) /\ UNCHANGED disk
      BY <2>2, <2>3, <3>2 DEF At, LookSrc
    <3>4. ~seen => "src" \notin disk[At(p)] \/ At(p) \in overlooked'
      BY <3>1 DEF Sees
    <3> QED BY <3>2, <3>3, <3>4 DEF Hand
  <2>4. CASE LookQuarantine(p)
    <3>1. /\ Sees(p, "quarantine", FALSE) /\ proc[p].pc = "clear" /\ UNCHANGED disk
          /\ proc' = [proc EXCEPT ![p] = [proc[p] EXCEPT !.pc = AfterClear(p), !.src = FALSE]]
      BY <2>4, Zenon DEF LookQuarantine
    <3>2. proc'[p].pc = AfterClear(p) /\ proc'[p].entry = proc[p].entry
      BY <2>1, <3>1 DEF TypeInv, OutboxType, Processor
    <3>3. At(p)' = At(p)
      BY <2>2, <3>2 DEF At
    <3>4. "quarantine" \notin disk[At(p)] \/ At(p) \in overlooked'
      BY <3>1 DEF Sees
    <3>5. CASE proc[p].src
      BY <3>2, <3>3, <3>5 DEF AfterClear, Hand
    <3>6. CASE ~proc[p].src
      <4>1. proc'[p].pc = "finish"
        BY <3>2, <3>6 DEF AfterClear
      <4>2. lease[At(p)].run \notin resumed /\ At(p) \notin overlooked' => disk[At(p)] = {}
        BY <2>1, <2>2, <3>1, <3>4, <3>6 DEF Hand
      <4> QED BY <2>2, <3>1, <3>3, <4>1, <4>2 DEF Hand
    <3> QED BY <3>5, <3>6
  <2> DEFINE l == At(p)
  <2>8. At(p)' = l
    <3>1. proc'[p].entry = proc[p].entry
      BY <1>6 DEF LookSrc, LookQuarantine, ClearQuarantine, Rename, Delete, Remove,
                  RenameFailed, store, TypeInv, OutboxType, Processor
    <3> QED BY <2>2, <3>1 DEF At
  <2>9. ASSUME \/ proc'[p].pc = "rename"
               \/ proc'[p].pc = "finish" /\ proc'[p].lost
               \/ proc'[p].pc = "delete" /\ "src" \notin disk'[l]
               \/ /\ proc'[p].pc = "finish"
                  /\ lease[l].run \notin resumed /\ l \notin overlooked' => disk'[l] = {}
        PROVE  Hand(p)'
    BY <2>8, <2>9, <2>2 DEF Hand
  <2> HIDE DEF l
  <2>5. CASE ClearQuarantine(p)
    <3>1. \/ /\ disk' = [disk EXCEPT ![l] = disk[l] \ {"quarantine"}]
             /\ proc' = [proc EXCEPT ![p] = [proc[p] EXCEPT !.pc = AfterClear(p), !.src = FALSE]]
          \/ proc' = [proc EXCEPT ![p] =
                        [proc[p] EXCEPT !.pc = "finish", !.src = FALSE, !.lost = TRUE]]
      BY <2>5, Zenon DEF ClearQuarantine, Remove, l
    <3>2. proc[p].pc = "clear"
      BY <2>5 DEF ClearQuarantine
    <3>3. lease[l].run \notin resumed /\ ~proc[p].src /\ l \notin overlooked' => "src" \notin disk[l]
      BY <2>1, <2>2, <3>2 DEF Hand, l
    <3>4. l \in Leases /\ disk[l] \subseteq {"src", "quarantine"} /\ proc[p] \in Processor
      BY <2>1 DEF l
    <3>5. CASE /\ disk' = [disk EXCEPT ![l] = disk[l] \ {"quarantine"}]
               /\ proc' = [proc EXCEPT ![p] = [proc[p] EXCEPT !.pc = AfterClear(p), !.src = FALSE]]
      <4>1. disk'[l] = disk[l] \ {"quarantine"} /\ proc'[p].pc = AfterClear(p)
        BY <3>4, <3>5 DEF TypeInv, OutboxType, LeaseType, Processor
      <4> QED BY <2>9, <3>3, <3>4, <4>1 DEF AfterClear
    <3>6. CASE proc' = [proc EXCEPT ![p] =
                        [proc[p] EXCEPT !.pc = "finish", !.src = FALSE, !.lost = TRUE]]
      BY <2>9, <3>4, <3>6 DEF TypeInv, OutboxType, Processor
    <3> QED BY <3>1, <3>5, <3>6
  <2>6. CASE Rename(p)
    <3>1. \/ /\ disk' = [disk EXCEPT ![l] = {"quarantine"}]
             /\ proc' = [proc EXCEPT ![p] = [proc[p] EXCEPT !.pc = "delete"]]
          \/ proc' = [proc EXCEPT ![p] = [proc[p] EXCEPT !.pc = "finish", !.lost = TRUE]]
      BY <2>6, Zenon DEF Rename, RenameFailed, l
    <3>2. l \in Leases /\ proc[p] \in Processor
      BY <2>1 DEF l
    <3>3. CASE /\ disk' = [disk EXCEPT ![l] = {"quarantine"}]
               /\ proc' = [proc EXCEPT ![p] = [proc[p] EXCEPT !.pc = "delete"]]
      <4>1. disk'[l] = {"quarantine"} /\ proc'[p].pc = "delete"
        BY <3>2, <3>3 DEF TypeInv, OutboxType, LeaseType, Processor
      <4> QED BY <2>9, <4>1
    <3>4. CASE proc' = [proc EXCEPT ![p] = [proc[p] EXCEPT !.pc = "finish", !.lost = TRUE]]
      BY <2>9, <3>2, <3>4 DEF TypeInv, OutboxType, Processor
    <3> QED BY <3>1, <3>3, <3>4
  <2>7. CASE Delete(p)
    <3>1. \/ /\ disk' = [disk EXCEPT ![l] = disk[l] \ {"quarantine"}]
             /\ proc' = [proc EXCEPT ![p] = [proc[p] EXCEPT !.pc = "finish", !.src = FALSE]]
          \/ proc' = [proc EXCEPT ![p] =
                        [proc[p] EXCEPT !.pc = "finish", !.src = FALSE, !.lost = TRUE]]
      BY <2>7, Zenon DEF Delete, Remove, l
    <3>2. l \in Leases /\ disk[l] \subseteq {"src", "quarantine"} /\ proc[p] \in Processor
      BY <2>1 DEF l
    <3>3. lease[l].run \notin resumed => "src" \notin disk[l]
      BY <2>1, <2>7 DEF Delete, Hand, l
    <3>4. CASE /\ disk' = [disk EXCEPT ![l] = disk[l] \ {"quarantine"}]
               /\ proc' = [proc EXCEPT ![p] = [proc[p] EXCEPT !.pc = "finish", !.src = FALSE]]
      <4>1. disk'[l] = disk[l] \ {"quarantine"} /\ proc'[p].pc = "finish"
        BY <3>2, <3>4 DEF TypeInv, OutboxType, LeaseType, Processor
      <4> QED BY <2>9, <3>2, <3>3, <4>1
    <3>5. CASE proc' = [proc EXCEPT ![p] =
                        [proc[p] EXCEPT !.pc = "finish", !.src = FALSE, !.lost = TRUE]]
      BY <2>9, <3>2, <3>5 DEF TypeInv, OutboxType, Processor
    <3> QED BY <3>1, <3>4, <3>5
  <2> QED BY <1>6, <2>3, <2>4, <2>5, <2>6, <2>7
<1>7. ASSUME NEW q \in Procs \ {p}, ProcStep(q) PROVE proc'[p] = proc[p]
  BY <1>7 DEF ProcStep, Claim, LookSrc, LookQuarantine, ClearQuarantine, Rename, Delete, Finish,
              Remove, StartupSweep, StartupDone, TypeInv, OutboxType
<1>8. CASE UNCHANGED proc
  BY <1>2, <1>8
<1> QED
  BY <1>2, <1>3, <1>4, <1>5, <1>6, <1>7, <1>8
  DEF Next, RunStep, ProcStep, vars,
      Prepare, EnqueueWaiter, ReadTurn, ClaimTurn, TakeTurn, RequestCancel, SettleDecide,
      SettleWrite, WorkerStart, Admit, WorkerEnd, Release, ReleaseFails, Resume, Recover,
      Reconcile, KeepWaiter, NominateRead, NominateDecide, NominateDispatch, SweepRead,
      SweepWrite, Populate, GiveBack, StartupSweep, StartupDone

-----------------------------------------------------------------------------
(* The theorems.                                                           *)

IInv == /\ TypeInv /\ Starts /\ Working /\ Owed /\ Mounts /\ Wiped /\ Trees /\ Hands
        /\ overlooked \subseteq Leases

LEMMA InitIInv == Init => IInv
<1>1. Init => overlooked = {}
  BY DEF Init
<1> QED BY <1>1, InitType, InitStarts, InitHolds, InitWipes DEF IInv

LEMMA StepIInv == IInv /\ [Next]_vars => IInv'
BY StepType, StepStarts, StepWorking, StepOwed, StepMounts, StepWiped, StepTrees, StepHands,
   StepOverlooked
DEF IInv

\* Every variable keeps its type.
THEOREM TypeCorrect == Spec => []TypeOK
<1>1. IInv => TypeOK
  BY TypeInvImpliesTypeOK DEF IInv
<1> QED BY <1>1, InitIInv, StepIInv, PTL DEF Spec

\* A run is handed to a worker once, for all the admitting requests, nominators
\* and restarts that race for it: they share the claim of _claim_waiter_dispatch,
\* and a restarted process claims again only a run that is still queued.
THEOREM StartedOnceHolds == Spec => []StartedOnce
<1>1. IInv => StartedOnce
  BY DEF IInv, Starts, Start, Counted, StartedOnce
<1> QED BY <1>1, InitIInv, StepIInv, PTL DEF Spec

\* The run that works in a lease holds the workspace's lock: a release is owed only
\* for a run that has ended, an entry frees only its own run's lock (process_entry),
\* and admit takes the lock only when it is free or the run's own.
THEOREM HolderKeepsLockHolds == Spec => []HolderKeepsLock
<1>1. IInv => HolderKeepsLock
  BY DEF IInv, Mounts, HolderKeepsLock
<1> QED BY <1>1, InitIInv, StepIInv, PTL DEF Spec

\* The tree a live run works in is whole: an entry's lease is in nobody's hands,
\* however many processors still work on entries of it.
THEOREM MountedIntactHolds == Spec => []MountedIntact
<1>1. IInv => MountedIntact
  BY DEF IInv, Trees, Tree, MountedIntact
<1> QED BY <1>1, InitIInv, StepIInv, PTL DEF Spec

\* An AVAILABLE lease has neither of its names on the disk: a processor that was
\* overtaken sees its rename fail and never reports a tree as gone that is there.
\* The one way to that is a look that failed: exists() answers False for any OSError.
THEOREM AvailableIsGoneHolds == Spec => []AvailableIsGone
<1>1. IInv => AvailableIsGone
  BY DEF IInv, Trees, Tree, AvailableIsGone
<1> QED BY <1>1, InitIInv, StepIInv, PTL DEF Spec

\* The one way out of a terminal status is the owner's resume of an interrupted run.
THEOREM SettledStaysHolds == Spec => SettledStays
<1>1. IInv /\ [Next]_vars =>
        [\A r \in Runs : status[r] \in Terminal =>
            status'[r] = status[r] \/ (status[r] = "interrupted" /\ status'[r] = "resumed")]_vars
  BY StepSettled DEF IInv
<1> QED BY <1>1, InitIInv, StepIInv, PTL DEF Spec, SettledStays

-----------------------------------------------------------------------------
(* The order of the waiters.                                               *)

\* The one ticket a run may have is the first.
FirstIfAny(r) == \A i \in DOMAIN tickets : tickets[i] = r => i = 1

\* A thread about to start a waiter has seen its ticket at the head, and what has
\* been removed since was not before it; a run not yet enqueued has no ticket.
Turn(r) ==
    /\ admitting[r] \in {"turn", "mark"} => FirstIfAny(r)
    /\ nominator.pc # "idle" /\ nominator.run = r => FirstIfAny(r)
    /\ admitting[r] = "enqueue" =>
        ~HasTicket(r) /\ ~(nominator.pc # "idle" /\ nominator.run = r)
Turns ==
    /\ \A i, j \in DOMAIN tickets : tickets[i] = tickets[j] => i = j
    /\ \A r \in Runs : Turn(r)

\* The queue after a removal: every ticket left came from the same place or later.
Shrinks ==
    \A j \in DOMAIN tickets' : \E i \in DOMAIN tickets :
        /\ tickets'[j] = tickets[i] /\ j <= i /\ (i = 1 => j = 1)
        /\ \A k \in DOMAIN tickets' : tickets'[k] = tickets[i] => k = j

LEMMA RemovalShrinks ==
    ASSUME TypeInv, Turns, NEW r \in Runs, RemoveTicket(r)
    PROVE  Shrinks
<1> DEFINE n == Len(tickets)
<1>1. n \in Nat /\ DOMAIN tickets = 1..n
  BY DEF TypeInv, QueueType
<1>2. CASE UNCHANGED tickets
  <2> SUFFICES ASSUME NEW j \in DOMAIN tickets
               PROVE  \A k \in DOMAIN tickets : tickets[k] = tickets[j] => k = j
    BY <1>1, <1>2 DEF Shrinks
  <2> QED BY DEF Turns
<1>3. ASSUME NEW i \in DOMAIN tickets, tickets' = Without(tickets, i)
      PROVE  Shrinks
  <2>1. DOMAIN tickets' = 1..(n - 1)
    BY <1>1, <1>3 DEF Without
  <2>2. ASSUME NEW j \in 1..(n - 1)
        PROVE  tickets'[j] = IF j < i THEN tickets[j] ELSE tickets[j + 1]
    BY <1>3, <2>2 DEF Without
  <2> DEFINE From(j) == IF j < i THEN j ELSE j + 1
  <2>3. ASSUME NEW j \in 1..(n - 1)
        PROVE  From(j) \in DOMAIN tickets /\ tickets'[j] = tickets[From(j)]
    BY <1>1, <2>2, <2>3
  <2> SUFFICES ASSUME NEW j \in 1..(n - 1)
               PROVE  \E h \in DOMAIN tickets :
                        /\ tickets'[j] = tickets[h] /\ j <= h /\ (h = 1 => j = 1)
                        /\ \A k \in 1..(n - 1) : tickets'[k] = tickets[h] => k = j
    BY <2>1 DEF Shrinks
  <2>4. From(j) \in DOMAIN tickets /\ tickets'[j] = tickets[From(j)]
    BY <2>3
  <2>5. j <= From(j) /\ (From(j) = 1 => j = 1)
    BY <1>1
  <2>6. ASSUME NEW k \in 1..(n - 1), tickets'[k] = tickets[From(j)]
        PROVE  k = j
    <3>1. From(k) = From(j)
      BY <2>3, <2>4, <2>6 DEF Turns
    <3> QED BY <1>1, <3>1
  <2> HIDE DEF From
  <2> QED BY <2>4, <2>5, <2>6
<1> QED BY <1>2, <1>3 DEF RemoveTicket

\* The queue of a step: as it was, one ticket shorter or one run longer.
LEMMA StepQueue ==
    ASSUME TypeInv, Turns, Starts, [Next]_vars
    PROVE  \/ UNCHANGED tickets
           \/ Shrinks
           \/ \E r \in Runs : EnqueueWaiter(r) /\ ~HasTicket(r) /\ tickets' = Append(tickets, r)
<1> USE DEF queue
<1>1. ASSUME NEW r \in Runs, RemoveTicket(r) PROVE Shrinks
  BY <1>1, RemovalShrinks
<1>2. ASSUME NEW r \in Runs, Release(r) PROVE Shrinks
  BY <1>1, <1>2 DEF Release, EnqueueTerminal
<1>3. ASSUME NEW r \in Runs, NEW l \in Leases, Admit(r, l) PROVE Shrinks
  BY <1>1, <1>3 DEF Admit
<1>4. CASE SweepWrite
  BY <1>1, <1>4 DEF SweepWrite, EnqueueTerminal, TypeInv, ThreadType
<1>5. CASE NominateDecide
  <2>1. nominator.run \in Runs
    BY <1>5 DEF NominateDecide, TypeInv, Known
  <2> QED BY <1>1, <1>5, <2>1 DEF NominateDecide
<1>6. ASSUME NEW r \in Runs, EnqueueWaiter(r)
      PROVE  UNCHANGED tickets \/ (~HasTicket(r) /\ tickets' = Append(tickets, r))
  BY <1>6 DEF EnqueueWaiter
<1> QED
  BY <1>2, <1>3, <1>4, <1>5, <1>6
  DEF Next, RunStep, ProcStep, vars,
      Prepare, ReadTurn, ClaimTurn, TakeTurn, RequestCancel, SettleDecide, SettleWrite, WorkerStart,
      WorkerEnd, ReleaseFails, Resume, Recover, Reconcile, KeepWaiter, NominateRead,
      NominateDispatch, SweepRead, Populate, GiveBack, Claim, LookSrc, LookQuarantine,
      ClearQuarantine, Rename, Delete, Finish, StartupSweep, StartupDone, Crash

\* A queue that is not longer keeps a first ticket first.
LEMMA FirstStays ==
    ASSUME TypeInv, UNCHANGED tickets \/ Shrinks, NEW r \in Runs
    PROVE  (FirstIfAny(r) => FirstIfAny(r)') /\ (HasTicket(r)' => HasTicket(r))
<1>1. DOMAIN tickets \subseteq Nat
  BY DEF TypeInv, QueueType
<1> QED BY <1>1 DEF FirstIfAny, HasTicket, Shrinks

\* Who looks at the head, and who is still looking.
LEMMA StepThreads ==
    ASSUME TypeInv, Starts, [Next]_vars, NEW r \in Runs
    PROVE  /\ admitting'[r] \in {"turn", "mark"} =>
                \/ admitting[r] \in {"turn", "mark"}
                \/ Head(tickets) = r /\ tickets # <<>> /\ UNCHANGED tickets
           /\ nominator'.pc # "idle" /\ nominator'.run = r =>
                \/ nominator.pc # "idle" /\ nominator.run = r
                \/ Head(tickets) = r /\ tickets # <<>> /\ UNCHANGED tickets
           /\ admitting'[r] = "enqueue" => admitting[r] = "enqueue" \/ status[r] = "none"
<1> DEFINE Goal == /\ admitting'[r] \in {"turn", "mark"} =>
                         \/ admitting[r] \in {"turn", "mark"}
                         \/ Head(tickets) = r /\ tickets # <<>> /\ UNCHANGED tickets
                   /\ nominator'.pc # "idle" /\ nominator'.run = r =>
                         \/ nominator.pc # "idle" /\ nominator.run = r
                         \/ Head(tickets) = r /\ tickets # <<>> /\ UNCHANGED tickets
                   /\ admitting'[r] = "enqueue" => admitting[r] = "enqueue" \/ status[r] = "none"
<1> USE DEF queue, threads, TypeInv, RunType, ThreadType
<1>1. ASSUME NEW q \in Runs,
             Prepare(q) \/ EnqueueWaiter(q) \/ ReadTurn(q) \/ ClaimTurn(q) \/ TakeTurn(q)
      PROVE  Goal
  BY <1>1 DEF Prepare, EnqueueWaiter, ReadTurn, MyTurn, ClaimTurn, TakeTurn
<1>2. CASE NominateRead
  BY <1>2 DEF NominateRead, Waiting
<1>5. CASE NominateDecide
  <2>1. UNCHANGED admitting
        /\ \/ nominator' = [nominator EXCEPT !.pc = "idle", !.run = NoRun, !.free = FALSE]
           \/ nominator' = [nominator EXCEPT !.pc = "mark"]
    BY <1>5, Zenon DEF NominateDecide
  <2>2. nominator.pc = "head"
    BY <1>5 DEF NominateDecide
  <2> QED BY <2>1, <2>2
<1>6. CASE NominateDispatch
  BY <1>6 DEF NominateDispatch
<1>3. CASE Crash
  BY <1>3 DEF Crash
<1>4. CASE UNCHANGED <<admitting, nominator>>
  BY <1>4
<1> QED
  BY <1>1, <1>2, <1>3, <1>4, <1>5, <1>6
  DEF Next, RunStep, ProcStep, vars,
      RequestCancel, SettleDecide, SettleWrite, WorkerStart, Admit, WorkerEnd, Release,
      ReleaseFails, Resume, Recover, Reconcile, KeepWaiter, SweepRead, SweepWrite, Populate,
      GiveBack, Claim, LookSrc, LookQuarantine, ClearQuarantine, Rename, Delete, Finish,
      StartupSweep, StartupDone

LEMMA StepTurns ==
    ASSUME TypeInv, Starts, Turns, [Next]_vars
    PROVE  Turns'
<1>1. DOMAIN tickets = 1..Len(tickets) /\ Len(tickets) \in Nat
  BY DEF TypeInv, QueueType
<1>2. ASSUME Head(tickets) = tickets[1], tickets # <<>>, NEW r \in Runs, Head(tickets) = r
      PROVE  FirstIfAny(r) /\ HasTicket(r)
  <2>1. 1 \in DOMAIN tickets
    BY <1>1, <1>2 DEF TypeInv, QueueType
  <2> QED BY <1>2, <2>1 DEF Turns, FirstIfAny, HasTicket
<1>3. Head(tickets) = tickets[1] \/ tickets = <<>>
  BY DEF TypeInv, QueueType
<1>4. CASE UNCHANGED tickets \/ Shrinks
  <2>1. (\A i, j \in DOMAIN tickets : tickets[i] = tickets[j] => i = j)'
    BY <1>4 DEF Turns, Shrinks
  <2>2. ASSUME NEW r \in Runs PROVE Turn(r)'
    <3>1. (FirstIfAny(r) => FirstIfAny(r)') /\ (HasTicket(r)' => HasTicket(r))
      BY <1>4, FirstStays
    <3>2. tickets # <<>> /\ Head(tickets) = r => FirstIfAny(r) /\ HasTicket(r)
      BY <1>2, <1>3
    <3>3. status[r] = "none" => ~HasTicket(r) /\ nominator.run # r
      BY DEF Starts, Start, Blank
    <3> QED BY <3>1, <3>2, <3>3, StepThreads DEF Turns, Turn
  <2> QED BY <2>1, <2>2 DEF Turns
<1>5. ASSUME NEW q \in Runs, EnqueueWaiter(q), ~HasTicket(q), tickets' = Append(tickets, q)
      PROVE  Turns'
  <2>1. /\ DOMAIN tickets' = 1..(Len(tickets) + 1) /\ tickets'[Len(tickets) + 1] = q
        /\ \A i \in DOMAIN tickets : tickets'[i] = tickets[i]
    BY <1>1, <1>5 DEF TypeInv, QueueType
  <2>2. \A i \in DOMAIN tickets : tickets[i] # q
    BY <1>5 DEF HasTicket
  <2>3. (\A i, j \in DOMAIN tickets : tickets[i] = tickets[j] => i = j)'
    BY <1>1, <2>1, <2>2 DEF Turns
  <2>4. UNCHANGED nominator /\ \A r \in Runs : admitting'[r] = IF r = q THEN "head" ELSE admitting[r]
    BY <1>5 DEF EnqueueWaiter, threads, TypeInv, RunType
  <2>5. ASSUME NEW r \in Runs \ {q} PROVE Turn(r)'
    <3>1. (FirstIfAny(r) => FirstIfAny(r)') /\ (HasTicket(r)' => HasTicket(r))
      BY <1>1, <2>1 DEF FirstIfAny, HasTicket
    <3> QED BY <2>4, <3>1 DEF Turns, Turn
  <2>6. Turn(q)'
    <3>1. ~(nominator.pc # "idle" /\ nominator.run = q)
      BY <1>5 DEF Turns, Turn, EnqueueWaiter
    <3> QED BY <2>4, <3>1 DEF Turn
  <2> QED BY <2>3, <2>5, <2>6 DEF Turns
<1> QED BY <1>4, <1>5, StepQueue

\* A run that queues is handed to a worker by the thread that saw it at the head.
LEMMA StepSubmits ==
    ASSUME TypeInv, Turns, [Next]_vars, NEW r \in Runs \ Direct, submits'[r] > submits[r]
    PROVE  FirstIfAny(r)
<1> USE DEF history, TypeInv, RunType
<1>1. ASSUME NEW q \in Runs, Prepare(q) PROVE FALSE
  BY <1>1 DEF Prepare, Submit
<1>2. ASSUME NEW q \in Runs, TakeTurn(q) PROVE FirstIfAny(r)
  BY <1>2 DEF TakeTurn, Submit, Turns, Turn
<1>3. CASE NominateDispatch
  <2>1. nominator.run = r /\ nominator.pc # "idle"
    BY <1>3 DEF NominateDispatch, Submit, Known
  <2> QED BY <2>1 DEF Turns, Turn
<1>4. CASE Crash
  BY <1>4 DEF Crash
<1>5. CASE UNCHANGED submits
  BY <1>5
<1> QED
  BY <1>1, <1>2, <1>3, <1>4, <1>5
  DEF Next, RunStep, ProcStep, vars,
      EnqueueWaiter, ReadTurn, ClaimTurn, RequestCancel, SettleDecide, SettleWrite, WorkerStart,
      Admit, WorkerEnd, Release, ReleaseFails, Resume, Recover, Reconcile, KeepWaiter,
      NominateRead, NominateDecide, SweepRead, SweepWrite, Populate, GiveBack, Claim, LookSrc,
      LookQuarantine, ClearQuarantine, Rename, Delete, Finish, StartupSweep, StartupDone

\* Waiters start in the order of their tickets: the head that a request or the
\* nominator has read is still the first when its run is handed to a worker.
THEOREM ServedInOrderHolds == Spec => ServedInOrder
<1> DEFINE Served == \A r \in Runs \ Direct : submits'[r] > submits[r] =>
                        \A i \in DOMAIN tickets : \A j \in 1..i :
                            tickets[i] = r => tickets[j] = r \/ status[tickets[j]] # "queued"
<1>1. Init => IInv /\ Turns
  <2>1. Init => Turns
    BY DEF Init, Turns, Turn, FirstIfAny, HasTicket
  <2> QED BY <2>1, InitIInv
<1>2. IInv /\ Turns /\ [Next]_vars => IInv' /\ Turns'
  BY StepIInv, StepTurns DEF IInv
<1>3. IInv /\ Turns /\ [Next]_vars => [Served]_vars
  <2> SUFFICES ASSUME IInv, Turns, [Next]_vars,
                      NEW r \in Runs \ Direct, submits'[r] > submits[r],
                      NEW i \in DOMAIN tickets, NEW j \in 1..i, tickets[i] = r
               PROVE  tickets[j] = r
    OBVIOUS
  <2>1. i = 1
    BY StepSubmits DEF IInv, FirstIfAny
  <2> QED BY <2>1
<1> QED BY <1>1, <1>2, <1>3, PTL DEF Spec, ServedInOrder

-----------------------------------------------------------------------------
(* The pool's cap.                                                         *)

\* The leases whose tree is there, or may be there soon; but for a tree that a
\* failed look has overlooked.
Charged == {l \in Leases : (disk[l] # {} /\ l \notin overlooked) \/ lease[l].state = "ACTIVE"}

Pooled ==
    resumed = {} =>
        /\ \A l \in Leases : mount[l] # "no" => lease[l].state = "ACTIVE"
        /\ Cardinality(Charged) <= PoolLeases

LEMMA FewerCharged ==
    ASSUME Charged' \subseteq Charged, Cardinality(Charged) <= PoolLeases
    PROVE  Cardinality(Charged') <= PoolLeases
<1>1. IsFiniteSet(Charged)
  BY FS_Subset DEF Charged
<1>2. IsFiniteSet(Charged') /\ Cardinality(Charged') <= Cardinality(Charged)
  BY <1>1, FS_Subset
<1> QED BY <1>1, <1>2, FS_CardinalityType

LEMMA OneMore ==
    ASSUME NEW S, NEW x, IsFiniteSet(S)
    PROVE  IsFiniteSet(S \cup {x}) /\ Cardinality(S \cup {x}) <= Cardinality(S) + 1
<1>1. /\ IsFiniteSet(S \cup {x}) /\ Cardinality(S) \in Nat
      /\ Cardinality(S \cup {x}) = IF x \in S THEN Cardinality(S) ELSE Cardinality(S) + 1
  BY FS_AddElement, FS_CardinalityType
<1> QED BY <1>1

\* Nothing but an admission charges a lease.
LEMMA StepCharged ==
    ASSUME TypeInv, Working, Wiped, Pooled, [Next]_vars, resumed = {},
           NEW l \in Leases, \A r \in Runs : ~Admit(r, l)
    PROVE  /\ mount'[l] # "no" => lease'[l].state = "ACTIVE"
           /\ l \in Charged' => l \in Charged
<1> DEFINE Goal == /\ mount'[l] # "no" => lease'[l].state = "ACTIVE"
                   /\ l \in Charged' => l \in Charged
<1>1. /\ mount[l] # "no" => lease[l].state = "ACTIVE"
      /\ overlooked \subseteq overlooked'
  BY StepOverlooked DEF Pooled
<1> USE DEF Charged, TypeInv, LeaseType, store
<1>2. ASSUME NEW k \in Leases, NEW r \in Runs, Admit(r, k) PROVE Goal
  BY <1>1, <1>2 DEF Admit
<1>3. ASSUME NEW k \in Leases, Populate(k) \/ GiveBack(k) PROVE Goal
  BY <1>1, <1>3 DEF Populate, GiveBack
<1>4. ASSUME NEW r \in Runs, WorkerEnd(r) PROVE Goal
  BY <1>1, <1>4 DEF WorkerEnd
<1>5. CASE Crash
  BY <1>1, <1>5 DEF Crash
<1>6. ASSUME NEW p \in Procs, ClearQuarantine(p) \/ Rename(p) \/ Delete(p) PROVE Goal
  <2>1. UNCHANGED <<mount, lease>>
    BY <1>6 DEF ClearQuarantine, Rename, Delete
  <2>2. \/ disk' = [disk EXCEPT ![At(p)] = disk[At(p)] \ {"quarantine"}]
        \/ disk[At(p)] = {"src"} /\ disk' = [disk EXCEPT ![At(p)] = {"quarantine"}]
        \/ UNCHANGED disk
    BY <1>6, Zenon DEF ClearQuarantine, Rename, Delete, Remove
  <2>3. disk'[l] # {} => disk[l] # {}
    BY <2>2
  <2> QED BY <1>1, <2>1, <2>3
<1>7. ASSUME NEW p \in Procs, Finish(p) PROVE Goal
  <2>1. UNCHANGED <<disk, mount>>
    BY <1>7 DEF Finish
  <2>2. CASE UNCHANGED lease
    BY <1>1, <2>1, <2>2
  <2>3. CASE lease' # lease
    <3>1. PICK s \in {"LOST", "AVAILABLE"} :
            /\ At(p) # NoLease
            /\ lease' = [lease EXCEPT ![At(p)].state = s]
      BY <1>7, <2>3 DEF Finish, At
    <3>2. proc[p].entry \in DOMAIN outbox /\ At(p) \in Leases
      BY <1>7, <3>1, EntryColumns DEF Working, Finish, At
    <3>3. mount[At(p)] = "no"
      BY <3>2 DEF Wiped, Free, At
    <3> QED BY <1>1, <2>1, <3>1, <3>2, <3>3
  <2> QED BY <2>2, <2>3
<1>8. CASE UNCHANGED <<disk, mount, lease>>
  BY <1>1, <1>8
<1> QED
  BY <1>2, <1>3, <1>4, <1>5, <1>6, <1>7, <1>8
  DEF Next, RunStep, ProcStep, vars,
      Prepare, EnqueueWaiter, ReadTurn, ClaimTurn, TakeTurn, RequestCancel, SettleDecide, SettleWrite,
      WorkerStart, Release, ReleaseFails, Resume, Recover, Reconcile, KeepWaiter, NominateRead,
      NominateDecide, NominateDispatch, SweepRead, SweepWrite, Claim, LookSrc, LookQuarantine,
      StartupSweep, StartupDone

\* What is charged now is what PoolReserved counts, and perhaps less.
LEMMA ChargedIsReserved ==
    ASSUME TypeInv, Trees, resumed = {}
    PROVE  Cardinality(Charged) <= PoolReserved /\ PoolReserved \in Nat
<1> DEFINE R == {l \in Leases : lease[l].state \in {"ACTIVE", "LOST"}}
<1>1. IsFiniteSet(R)
  BY FS_Subset
<1>2. Charged \subseteq R
  BY DEF Charged, Trees, Tree, TypeInv, LeaseType
<1>3. Cardinality(Charged) <= Cardinality(R) /\ Cardinality(R) \in Nat
  BY <1>1, <1>2, FS_Subset, FS_CardinalityType
<1> QED BY <1>3 DEF PoolReserved

LEMMA StepPooled ==
    ASSUME IInv, Pooled, [Next]_vars
    PROVE  Pooled'
<1> USE DEF IInv
<1> SUFFICES ASSUME resumed' = {} PROVE Pooled'
  BY DEF Pooled
<1>1. CASE Runs = {}
  <2>1. resumed = {}
    BY <1>1 DEF TypeInv, RunType
  <2>2. \A l \in Leases : \A r \in Runs : ~Admit(r, l)
    BY <1>1
  <2>3. Charged' \subseteq Charged
    BY <2>1, <2>2, StepCharged DEF Charged
  <2> QED BY <2>1, <2>2, <2>3, StepCharged, FewerCharged DEF Pooled
<1>2. CASE Runs # {}
  <2>1. resumed = {}
    BY <1>2, StepSettled
  <2>2. CASE \A l \in Leases : \A r \in Runs : ~Admit(r, l)
    <3>1. Charged' \subseteq Charged
      BY <2>1, <2>2, StepCharged DEF Charged
    <3> QED BY <2>1, <2>2, <3>1, StepCharged, FewerCharged DEF Pooled
  <2>3. ASSUME NEW l \in Leases, NEW r \in Runs, Admit(r, l) PROVE Pooled'
    <3>1. \A k \in Leases : mount'[k] # "no" => lease'[k].state = "ACTIVE"
      BY <2>1, <2>3 DEF Admit, Pooled, TypeInv, LeaseType
    <3>2. Charged' \subseteq Charged \cup {l}
      BY <2>3 DEF Admit, Charged, TypeInv, LeaseType, history
    <3>3. IsFiniteSet(Charged) /\ Cardinality(Charged) \in Nat
      BY FS_Subset, FS_CardinalityType DEF Charged
    <3>4. PoolReserved < PoolLeases
      BY <2>3 DEF Admit
    <3>5. IsFiniteSet(Charged \cup {l}) /\ Cardinality(Charged \cup {l}) <= Cardinality(Charged) + 1
      BY <3>3, OneMore
    <3>6. Cardinality(Charged') <= Cardinality(Charged \cup {l}) /\ Cardinality(Charged') \in Nat
      BY <3>2, <3>5, FS_Subset, FS_CardinalityType
    <3>7. Cardinality(Charged') <= PoolLeases
      BY <2>1, <3>3, <3>4, <3>5, <3>6, ChargedIsReserved, FS_CardinalityType
    <3> QED BY <3>1, <3>7 DEF Pooled
  <2> QED BY <2>2, <2>3
<1> QED BY <1>1, <1>2

\* Until a run is resumed, the trees in the pool stay within its cap, but for those
\* that a failed look overlooked: admit counts every lease that may have a tree, the
\* LOST ones too.
THEOREM PoolNotOversubscribedHolds == Spec => []PoolNotOversubscribed
<1>1. Init => IInv /\ Pooled
  <2>1. Init => Charged = {} /\ \A l \in Leases : mount[l] = "no"
    BY DEF Init, Charged
  <2> QED BY <2>1, InitIInv, FS_EmptySet DEF Pooled
<1>2. IInv /\ Pooled /\ [Next]_vars => IInv' /\ Pooled'
  BY StepIInv, StepPooled
<1>3. Pooled => PoolNotOversubscribed
  <2> DEFINE D == {l \in Leases \ overlooked : disk[l] # {}}
  <2>1. D \subseteq Charged /\ IsFiniteSet(Charged)
    BY FS_Subset DEF Charged
  <2>2. Cardinality(D) <= Cardinality(Charged) /\ Cardinality(D) \in Nat /\ Cardinality(Charged) \in Nat
    BY <2>1, FS_Subset, FS_CardinalityType
  <2> QED BY <2>2 DEF Pooled, PoolNotOversubscribed
<1> QED BY <1>1, <1>2, <1>3, PTL DEF Spec

-----------------------------------------------------------------------------
(* The workspace ledger.                                                   *)

\* Who has the status "resumed" was resumed; a lease is granted once, and used
\* while it is ACTIVE.
Granted ==
    /\ \A r \in Runs : status[r] = "resumed" => r \in resumed
    /\ \A l \in Leases :
        /\ lease[l].state = "none" => lease[l].run = NoRun
        /\ mount[l] # "no" /\ ~Disowned(l) => lease[l].state = "ACTIVE"

LEMMA ResumedStays ==
    ASSUME TypeInv, Starts, [Next]_vars
    PROVE  resumed \subseteq resumed'
<1>1. CASE Runs = {}
  BY <1>1 DEF TypeInv, RunType
<1>2. CASE Runs # {}
  BY <1>2, StepSettled
<1> QED BY <1>1, <1>2

LEMMA StepHonest ==
    ASSUME TypeInv, Starts, Granted, [Next]_vars, NEW r \in Runs
    PROVE  status'[r] = "resumed" => r \in resumed'
<1> DEFINE Goal == status'[r] = "resumed" => r \in resumed'
<1>0. resumed \subseteq resumed' /\ (status[r] = "resumed" => r \in resumed)
  BY ResumedStays DEF Granted
<1> USE DEF TypeInv, RunType, Terminal
<1>1. ASSUME NEW q \in Runs, Prepare(q) \/ SettleWrite(q) \/ WorkerStart(q) \/ WorkerEnd(q) \/ Recover(q)
      PROVE  Goal
  BY <1>0, <1>1 DEF Prepare, SettleWrite, WorkerStart, WorkerEnd, Recover, CommitTerminal
<1>2. ASSUME NEW q \in Runs, Resume(q) PROVE Goal
  BY <1>0, <1>2 DEF Resume
<1>3. CASE NominateDispatch
  BY <1>0, <1>3 DEF NominateDispatch, CommitTerminal
<1>4. CASE UNCHANGED status
  BY <1>0, <1>4
<1> QED
  BY <1>1, <1>2, <1>3, <1>4
  DEF Next, RunStep, ProcStep, vars, rows, EnqueueWaiter, ReadTurn, ClaimTurn, TakeTurn,
      RequestCancel, SettleDecide, Admit, Release, ReleaseFails, Reconcile, KeepWaiter,
      NominateRead, NominateDecide,
      SweepRead, SweepWrite, Crash, Populate, GiveBack, Claim, LookSrc, LookQuarantine,
      ClearQuarantine, Rename, Delete, Finish, StartupSweep, StartupDone

LEMMA StepGranted ==
    ASSUME IInv, Granted, [Next]_vars
    PROVE  Granted'
<1> USE DEF IInv
<1>0. resumed \subseteq resumed'
  BY ResumedStays
<1> SUFFICES ASSUME NEW l \in Leases
             PROVE  /\ lease'[l].state = "none" => lease'[l].run = NoRun
                    /\ mount'[l] # "no" /\ lease'[l].run \notin resumed' => lease'[l].state = "ACTIVE"
  BY StepHonest DEF Granted, Disowned
<1> DEFINE Goal == /\ lease'[l].state = "none" => lease'[l].run = NoRun
                   /\ mount'[l] # "no" /\ lease'[l].run \notin resumed' => lease'[l].state = "ACTIVE"
<1>1. /\ lease[l].state = "none" => lease[l].run = NoRun
      /\ mount[l] # "no" /\ lease[l].run \notin resumed => lease[l].state = "ACTIVE"
  BY DEF Granted, Disowned
<1> USE DEF TypeInv, LeaseType, store
<1>2. ASSUME NEW k \in Leases, NEW r \in Runs, Admit(r, k) PROVE Goal
  BY <1>0, <1>1, <1>2 DEF Admit
<1>3. ASSUME NEW k \in Leases, Populate(k) \/ GiveBack(k) PROVE Goal
  BY <1>0, <1>1, <1>3 DEF Populate, GiveBack
<1>4. ASSUME NEW r \in Runs, WorkerEnd(r) PROVE Goal
  BY <1>0, <1>1, <1>4 DEF WorkerEnd
<1>5. CASE Crash
  BY <1>1, <1>5 DEF Crash
<1>6. ASSUME NEW p \in Procs, Finish(p) PROVE Goal
  <2>1. UNCHANGED mount
    BY <1>6 DEF Finish
  <2>2. CASE UNCHANGED lease
    BY <1>0, <1>1, <2>1, <2>2
  <2>3. CASE lease' # lease
    <3>1. PICK s \in {"LOST", "AVAILABLE"} :
            /\ At(p) # NoLease
            /\ lease' = [lease EXCEPT ![At(p)].state = s]
      BY <1>6, <2>3 DEF Finish, At
    <3>2. proc[p].entry \in DOMAIN outbox /\ At(p) \in Leases
      BY <1>6, <3>1, EntryColumns DEF Working, Finish, At
    <3>3. lease[At(p)].state # "none" /\ (mount[At(p)] = "no" \/ lease[At(p)].run \in resumed)
      BY <3>2 DEF Wiped, Free, At
    <3> QED BY <1>0, <1>1, <2>1, <3>1, <3>2, <3>3
  <2> QED BY <2>2, <2>3
<1>7. CASE UNCHANGED <<lease, mount>>
  BY <1>0, <1>1, <1>7
<1> QED
  BY <1>2, <1>3, <1>4, <1>5, <1>6, <1>7
  DEF Next, RunStep, ProcStep, vars,
      Prepare, EnqueueWaiter, ReadTurn, ClaimTurn, TakeTurn, RequestCancel, SettleDecide, SettleWrite,
      WorkerStart, Release, ReleaseFails, Resume, Recover, Reconcile, KeepWaiter, NominateRead,
      NominateDecide, NominateDispatch, SweepRead, SweepWrite, Claim, LookSrc, LookQuarantine,
      ClearQuarantine, Rename, Delete, StartupSweep, StartupDone

\* What the ledger sees.
Phases == [r \in Runs |-> Phase(r)]
Uses == [l \in Leases |-> Use(l)]
Grantees == [l \in Leases |-> lease[l].run]
Kept == {l \in Leases : ~Disowned(l) /\ disk[l] # {}}
Seen == <<Phases, lock, Uses, Grantees, Kept, overlooked>>

LEMMA PhaseIs ==
    ASSUME NEW r \in Runs
    PROVE  /\ r \in resumed => Phase(r) = "resumed"
           /\ r \notin resumed /\ status[r] = "queued" => Phase(r) = "waiting"
           /\ r \notin resumed /\ status[r] \in Terminal => Phase(r) = "ended"
           /\ r \notin resumed /\ status[r] \in {"none", "running"} => Phase(r) = status[r]
BY DEF Phase, Terminal

LEMMA PhaseIsNext ==
    ASSUME NEW r \in Runs
    PROVE  /\ r \in resumed' => Phase(r)' = "resumed"
           /\ r \notin resumed' /\ status'[r] = "queued" => Phase(r)' = "waiting"
           /\ r \notin resumed' /\ status'[r] \in Terminal => Phase(r)' = "ended"
           /\ r \notin resumed' /\ status'[r] \in {"none", "running"} => Phase(r)' = status'[r]
BY DEF Phase, Terminal

LEMMA UseIs ==
    ASSUME NEW l \in Leases
    PROVE  /\ Disowned(l) => Use(l) = "void"
           /\ ~Disowned(l) /\ mount[l] # "no" => Use(l) = "used"
           /\ ~Disowned(l) /\ mount[l] = "no" =>
                /\ lease[l].state = "none" => Use(l) = "none"
                /\ lease[l].state = "ACTIVE" => Use(l) = "left"
                /\ lease[l].state = "AVAILABLE" => Use(l) = "gone"
                /\ lease[l].state = "LOST" => Use(l) = "lost"
BY DEF Use

LEMMA UseIsNext ==
    ASSUME NEW l \in Leases
    PROVE  /\ Disowned(l)' => Use(l)' = "void"
           /\ ~Disowned(l)' /\ mount'[l] # "no" => Use(l)' = "used"
           /\ ~Disowned(l)' /\ mount'[l] = "no" =>
                /\ lease'[l].state = "none" => Use(l)' = "none"
                /\ lease'[l].state = "ACTIVE" => Use(l)' = "left"
                /\ lease'[l].state = "AVAILABLE" => Use(l)' = "gone"
                /\ lease'[l].state = "LOST" => Use(l)' = "lost"
BY DEF Use

LEMMA PhasesStay == UNCHANGED <<status, resumed>> => UNCHANGED Phases
BY DEF Phases, Phase

LEMMA LeasesStay ==
    UNCHANGED <<lease, mount, resumed>> =>
        /\ UNCHANGED Uses /\ UNCHANGED Grantees
        /\ \A l \in Leases : Disowned(l)' <=> Disowned(l)
        /\ UNCHANGED disk => UNCHANGED Kept
BY DEF Uses, Use, Grantees, Kept, Disowned

\* A step that writes one run's status moves that run, unless it was resumed.
LEMMA PhaseMoves ==
    ASSUME TypeInv, NEW r \in Runs, NEW to, status' = [status EXCEPT ![r] = to],
           UNCHANGED resumed
    PROVE  Phases' = [Phases EXCEPT ![r] = Phase(r)'] /\ (r \in resumed => UNCHANGED Phases)
<1>1. \A q \in Runs \ {r} : Phase(q)' = Phase(q)
  BY DEF Phase, TypeInv, RunType
<1>2. r \in resumed => Phase(r)' = Phase(r)
  BY PhaseIs, PhaseIsNext
<1>3. Phases' = [q \in Runs |-> Phase(q)']
  BY DEF Phases
<1> QED BY <1>1, <1>2, <1>3 DEF Phases

\* Who does not work in a lease uses none.
LEMMA UsesNothing ==
    ASSUME IInv, NEW r \in Runs, worker[r] # "executing", NEW l \in Leases, Use(l) = "used"
    PROVE  Grantees[l] # r
<1>1. lease[l].state \in {"none", "ACTIVE", "AVAILABLE", "LOST"}
  BY DEF IInv, TypeInv, LeaseType
<1>2. mount[l] # "no"
  BY <1>1, UseIs
<1> QED BY <1>2 DEF IInv, Mounts, Grantees

\* A run that works in no lease ends.
LEMMA EndLedger ==
    ASSUME IInv, NEW r \in Runs, NEW to \in Terminal, status' = [status EXCEPT ![r] = to],
           status[r] \in {"queued", "running"} \/ r \in resumed, worker[r] # "executing",
           UNCHANGED <<resumed, overlooked, lock, lease, mount, disk>>
    PROVE  Ledger!End(r) \/ UNCHANGED Seen
<1>1. UNCHANGED Uses /\ UNCHANGED Grantees /\ UNCHANGED Kept
  BY LeasesStay
<1>2. CASE r \in resumed
  BY <1>1, <1>2, PhaseMoves DEF Seen, IInv
<1>3. CASE r \notin resumed
  <2>1. Phase(r) \in {"waiting", "running"} /\ Phase(r)' = "ended"
    BY <1>3, PhaseIs, PhaseIsNext DEF IInv, TypeInv, RunType
  <2>2. Phases' = [Phases EXCEPT ![r] = "ended"]
    BY <2>1, PhaseMoves DEF IInv
  <2>4. {l \in Leases : Uses[l] = "used"} \cap {l \in Leases : Grantees[l] = r} = {}
    BY UsesNothing DEF Uses
  <2>5. Phases[r] = Phase(r)
    BY DEF Phases
  <2>6. UNCHANGED <<lock, overlooked>>
    OBVIOUS
  <2>7. Uses' = [l \in Leases |-> IF l \in {k \in Leases : Uses[k] = "used"} \cap
                                              {k \in Leases : Grantees[k] = r}
                                   THEN "left" ELSE Uses[l]]
    BY <1>1, <2>4 DEF Uses
  <2> QED BY <1>1, <2>1, <2>2, <2>5, <2>6, <2>7
          DEF Ledger!End, Ledger!Move, Ledger!Becomes, Ledger!Used, Ledger!With,
              Phases, Uses, Grantees, Kept
<1> QED BY <1>2, <1>3

LEMMA PrepareLedger ==
    ASSUME IInv, NEW r \in Runs, Prepare(r)
    PROVE  Ledger!Wait(r)
<1>1. /\ UNCHANGED <<lock, lease, mount, disk, resumed, overlooked>> /\ status[r] = "none"
      /\ status' = [status EXCEPT ![r] = "queued"]
  BY DEF Prepare, Submit, store, history
<1>2. r \notin resumed
  BY <1>1 DEF IInv, Starts, Start, Blank
<1>3. Phase(r) = "none" /\ Phase(r)' = "waiting"
  BY <1>1, <1>2, PhaseIs, PhaseIsNext DEF IInv, TypeInv, RunType
<1>4. Phases' = [Phases EXCEPT ![r] = "waiting"] /\ Phases[r] = Phase(r)
  BY <1>1, <1>3, PhaseMoves DEF IInv, Phases
<1>5. UNCHANGED Uses /\ UNCHANGED Grantees /\ UNCHANGED Kept
  BY <1>1, LeasesStay
<1> QED BY <1>1, <1>3, <1>4, <1>5 DEF Ledger!Wait, Ledger!Move, Phases, Uses, Grantees, Kept

LEMMA StartLedger ==
    ASSUME IInv, NEW r \in Runs, WorkerStart(r)
    PROVE  Ledger!Start(r) \/ UNCHANGED Seen
<1>1. /\ UNCHANGED <<lock, lease, mount, disk, resumed, overlooked>> /\ worker[r] = "submitted"
      /\ status' = [status EXCEPT ![r] = "running"]
  BY DEF WorkerStart, store, history
<1>2. UNCHANGED Uses /\ UNCHANGED Grantees /\ UNCHANGED Kept
  BY <1>1, LeasesStay
<1>3. CASE r \in resumed
  BY <1>1, <1>2, <1>3, PhaseMoves DEF Seen, IInv
<1>4. CASE r \notin resumed
  <2>1. status[r] = "queued"
    BY <1>1, <1>4 DEF IInv, Starts, Start, AtWork
  <2>2. Phase(r) = "waiting" /\ Phase(r)' = "running"
    BY <1>1, <1>4, <2>1, PhaseIs, PhaseIsNext DEF IInv, TypeInv, RunType
  <2>3. Phases' = [Phases EXCEPT ![r] = "running"] /\ Phases[r] = Phase(r)
    BY <1>1, <2>2, PhaseMoves DEF IInv, Phases
  <2> QED BY <1>1, <1>2, <2>2, <2>3 DEF Ledger!Start, Ledger!Move, Phases, Uses, Grantees, Kept
<1> QED BY <1>3, <1>4

LEMMA SettleLedger ==
    ASSUME IInv, NEW r \in Runs, SettleWrite(r)
    PROVE  Ledger!End(r) \/ UNCHANGED Seen
<1>1. UNCHANGED <<lock, lease, mount, disk, resumed, overlooked>>
  BY DEF SettleWrite, store, history
<1>2. CASE UNCHANGED status
  BY <1>1, <1>2, PhasesStay, LeasesStay DEF Seen
<1>3. CASE status[r] = "queued" /\ status' = [status EXCEPT ![r] = "cancelled"]
  <2>1. worker[r] # "executing"
    BY <1>3 DEF IInv, Starts, Start, AtWork
  <2>2. "cancelled" \in Terminal
    BY DEF Terminal
  <2> QED BY <1>1, <1>3, <2>1, <2>2, EndLedger
<1> QED BY <1>2, <1>3 DEF SettleWrite, CommitTerminal

LEMMA RecoverLedger ==
    ASSUME IInv, Granted, NEW r \in Runs, Recover(r)
    PROVE  Ledger!End(r) \/ UNCHANGED Seen
<1>1. /\ UNCHANGED <<lock, lease, mount, disk, resumed, overlooked>>
      /\ status[r] \in {"queued", "running"} \/ r \in resumed
      /\ status' = [status EXCEPT ![r] = "interrupted"]
  BY DEF Recover, CommitTerminal, store, history, Live, Granted
<1>2. worker[r] # "executing"
  BY DEF Recover, IInv, Starts, Start, AtWork
<1>3. "interrupted" \in Terminal
  BY DEF Terminal
<1> QED BY <1>1, <1>2, <1>3, EndLedger

LEMMA DispatchLedger ==
    ASSUME IInv, NominateDispatch
    PROVE  \/ \E r \in Runs : Ledger!End(r)
           \/ UNCHANGED Seen
<1>1. PICK r \in Runs : r = nominator.run
  BY DEF NominateDispatch, IInv, TypeInv, Known
<1>2. UNCHANGED <<lock, lease, mount, disk, resumed, overlooked>>
  BY DEF NominateDispatch, store
<1>3. CASE UNCHANGED status
  BY <1>2, <1>3, PhasesStay, LeasesStay DEF Seen
<1>4. CASE status[r] = "queued" /\ status' = [status EXCEPT ![r] = "done"]
  <2>1. worker[r] # "executing"
    BY <1>4 DEF IInv, Starts, Start, AtWork
  <2>2. "done" \in Terminal
    BY DEF Terminal
  <2> QED BY <1>2, <1>4, <2>1, <2>2, EndLedger
<1> QED BY <1>1, <1>3, <1>4 DEF NominateDispatch, CommitTerminal

\* A lease that is left alone is what it was.
LEMMA UseStays ==
    ASSUME IInv, NEW l \in Leases, mount'[l] = mount[l], lease'[l] = lease[l],
           Disowned(l)' <=> Disowned(l)
    PROVE  Use(l)' = Use(l)
<1>1. lease[l].state \in {"none", "ACTIVE", "AVAILABLE", "LOST"}
  BY DEF IInv, TypeInv, LeaseType
<1>2. CASE Disowned(l)
  BY <1>2, UseIs, UseIsNext
<1>3. CASE ~Disowned(l) /\ mount[l] # "no"
  BY <1>3, UseIs, UseIsNext
<1>4. CASE ~Disowned(l) /\ mount[l] = "no"
  BY <1>1, <1>4, UseIs, UseIsNext
<1> QED BY <1>2, <1>3, <1>4

\* What a run was using is left: it is ACTIVE, and nobody works in it.
LEMMA UseLeft ==
    ASSUME IInv, Granted, NEW l \in Leases, mount'[l] = "no", lease'[l] = lease[l],
           Disowned(l)' <=> Disowned(l)
    PROVE  Use(l)' = IF Use(l) = "used" THEN "left" ELSE Use(l)
<1>1. lease[l].state \in {"none", "ACTIVE", "AVAILABLE", "LOST"}
  BY DEF IInv, TypeInv, LeaseType
<1>2. CASE Disowned(l)
  BY <1>2, UseIs, UseIsNext
<1>3. CASE ~Disowned(l) /\ mount[l] # "no"
  BY <1>3, UseIs, UseIsNext DEF Granted
<1>4. CASE ~Disowned(l) /\ mount[l] = "no"
  BY <1>1, <1>4, UseIs, UseIsNext
<1> QED BY <1>2, <1>3, <1>4

LEMMA WorkerEndLedger ==
    ASSUME IInv, Granted, NEW r \in Runs, WorkerEnd(r)
    PROVE  Ledger!End(r) \/ UNCHANGED Seen
<1>1. PICK to \in Terminal : status' = [status EXCEPT ![r] = to]
  BY DEF WorkerEnd, CommitTerminal, Terminal
<1>2. /\ UNCHANGED <<lock, lease, disk, resumed, overlooked>>
      /\ mount' = [l \in Leases |-> IF lease[l].run = r THEN "no" ELSE mount[l]]
  BY DEF WorkerEnd, store, history
<1>3. \A l \in Leases : Disowned(l)' <=> Disowned(l)
  BY <1>2 DEF Disowned
<1>4. UNCHANGED Grantees /\ UNCHANGED Kept
  BY <1>2, <1>3 DEF Grantees, Kept
<1>5. ASSUME NEW l \in Leases
      PROVE  Use(l)' = IF Use(l) = "used" /\ lease[l].run = r THEN "left" ELSE Use(l)
  <2>1. CASE lease[l].run = r
    BY <1>2, <1>3, <2>1, UseLeft
  <2>2. CASE lease[l].run # r
    BY <1>2, <1>3, <2>2, UseStays
  <2> QED BY <2>1, <2>2
<1>6. CASE r \in resumed
  <2>1. \A l \in Leases : lease[l].run = r => Use(l) = "void"
    BY <1>6, UseIs DEF Disowned
  <2>2. \A l \in Leases : Use(l)' = Use(l)
    BY <1>5, <2>1
  <2>3. UNCHANGED Uses
    BY <2>2 DEF Uses
  <2> QED BY <1>1, <1>2, <1>4, <1>6, <2>3, PhaseMoves DEF Seen, IInv
<1>7. CASE r \notin resumed
  <2>1. status[r] = "running"
    BY DEF WorkerEnd, IInv, Starts, Start, AtWork
  <2>2. Phase(r) = "running" /\ Phase(r)' = "ended"
    BY <1>1, <1>2, <1>7, <2>1, PhaseIs, PhaseIsNext DEF IInv, TypeInv, RunType
  <2>3. Phases' = [Phases EXCEPT ![r] = "ended"] /\ Phases[r] = Phase(r)
    BY <1>1, <1>2, <2>2, PhaseMoves DEF IInv, Phases
  <2>4. Uses' = [l \in Leases |-> IF l \in {k \in Leases : Uses[k] = "used"} \cap
                                              {k \in Leases : Grantees[k] = r}
                                   THEN "left" ELSE Uses[l]]
    BY <1>5 DEF Uses, Grantees
  <2> QED BY <1>2, <1>4, <2>2, <2>3, <2>4
          DEF Ledger!End, Ledger!Move, Ledger!Becomes, Ledger!Used, Ledger!With,
              Phases, Uses, Grantees, Kept
<1> QED BY <1>6, <1>7

LEMMA ResumeLedger ==
    ASSUME IInv, Granted, NEW r \in Runs, Resume(r)
    PROVE  Ledger!Resume(r)
<1>1. /\ UNCHANGED <<lock, lease, mount, disk, overlooked>> /\ r \notin resumed
      /\ resumed' = resumed \cup {r} /\ status[r] \in Terminal
      /\ status' = [status EXCEPT ![r] = "resumed"]
  BY DEF Resume, store, Terminal
<1>2. \A l \in Leases : Disowned(l)' <=> (Disowned(l) \/ lease[l].run = r)
  BY <1>1 DEF Disowned
<1>3. Phase(r) = "ended" /\ Phase(r)' = "resumed"
  BY <1>1, PhaseIs, PhaseIsNext
<1>4. ASSUME NEW q \in Runs \ {r} PROVE Phase(q)' = Phase(q)
  <2>1. (q \in resumed' <=> q \in resumed) /\ status'[q] = status[q]
    BY <1>1 DEF IInv, TypeInv, RunType
  <2>2. q \notin resumed => status[q] \in {"none", "queued", "running"} \cup Terminal
    BY DEF Granted, IInv, TypeInv, RunType, Live
  <2> QED BY <2>1, <2>2, PhaseIs, PhaseIsNext
<1>5. Phases' = [Phases EXCEPT ![r] = "resumed"] /\ Phases[r] = Phase(r)
  BY <1>3, <1>4 DEF Phases
<1>6. ASSUME NEW l \in Leases
      PROVE  Use(l)' = IF lease[l].run = r THEN "void" ELSE Use(l)
  <2>1. CASE lease[l].run = r
    BY <1>2, <2>1, UseIsNext
  <2>2. CASE lease[l].run # r
    BY <1>1, <1>2, <2>2, UseStays
  <2> QED BY <2>1, <2>2
<1>7. /\ Uses' = [l \in Leases |-> IF l \in {k \in Leases : Grantees[k] = r} THEN "void" ELSE Uses[l]]
      /\ UNCHANGED Grantees
      /\ Kept' = Kept \ {k \in Leases : Grantees[k] = r}
  BY <1>1, <1>2, <1>6 DEF Uses, Grantees, Kept
<1> QED BY <1>1, <1>3, <1>5, <1>7
        DEF Ledger!Resume, Ledger!Move, Ledger!Becomes, Ledger!With, Phases, Uses, Grantees, Kept

\* What the ledger counts, the pool counts.
LEMMA ChargedIsCounted ==
    ASSUME IInv, Granted
    PROVE  Cardinality({l \in Leases : Uses[l] \in {"used", "left", "lost"}}) <= PoolReserved
<1> DEFINE R == {l \in Leases : lease[l].state \in {"ACTIVE", "LOST"}}
           C == {l \in Leases : Uses[l] \in {"used", "left", "lost"}}
<1>1. ASSUME NEW l \in Leases, Use(l) \in {"used", "left", "lost"}
      PROVE  lease[l].state \in {"ACTIVE", "LOST"}
  <2>1. lease[l].state \in {"none", "ACTIVE", "AVAILABLE", "LOST"}
    BY DEF IInv, TypeInv, LeaseType
  <2> QED BY <1>1, <2>1, UseIs DEF Granted
<1>2. C \subseteq R
  BY <1>1 DEF Uses
<1>3. IsFiniteSet(R)
  BY FS_Subset
<1> QED BY <1>2, <1>3, FS_Subset DEF PoolReserved

LEMMA GrantLedger ==
    ASSUME IInv, Granted, NEW r \in Runs, NEW l \in Leases, Admit(r, l)
    PROVE  Ledger!Grant(r, l)
<1>1. /\ UNCHANGED <<status, disk, resumed, overlooked>> /\ worker[r] = "executing"
      /\ lease[l].state = "none" /\ lock \in {NoRun, r} /\ lock' = r
      /\ lease' = [lease EXCEPT ![l] = [state |-> "ACTIVE", run |-> r]]
      /\ mount' = [mount EXCEPT ![l] = "filling"]
      /\ PoolReserved < PoolLeases
  BY DEF Admit, MayLock, rows, history
<1>2. lease[l].run = NoRun /\ ~Disowned(l) /\ mount[l] = "no" /\ disk[l] = {}
  BY <1>1 DEF Granted, Disowned, IInv, Trees, Tree, TypeInv, RunType
<1>3. Use(l) = "none" /\ Use(l)' = (IF r \in resumed THEN "void" ELSE "used")
  <2>1. lease'[l].run = r /\ mount'[l] # "no"
    BY <1>1 DEF IInv, TypeInv, LeaseType
  <2> QED BY <1>1, <1>2, <2>1, UseIs, UseIsNext DEF Disowned
<1>4. ASSUME NEW k \in Leases \ {l}
      PROVE  Use(k)' = Use(k) /\ lease'[k] = lease[k] /\ (Disowned(k)' <=> Disowned(k))
  BY <1>1 DEF Use, Disowned, IInv, TypeInv, LeaseType
<1>5. UNCHANGED Phases
  BY <1>1, PhasesStay
<1>6. /\ Grantees' = [Grantees EXCEPT ![l] = r]
      /\ Uses' = [k \in Leases |-> IF k \in {l} THEN Use(l)' ELSE Uses[k]] /\ Uses[l] = "none"
  BY <1>1, <1>3, <1>4 DEF Grantees, Uses, IInv, TypeInv, LeaseType
<1>7. UNCHANGED Kept
  BY <1>1, <1>2, <1>4 DEF Kept
<1>8. Phases[r] = (IF r \in resumed THEN "resumed" ELSE "running")
  BY <1>1, PhaseIs DEF Phases, IInv, Starts, Start, AtWork
<1>9. Cardinality({k \in Leases : Uses[k] \in {"used", "left", "lost"}}) < PoolLeases
  <2>1. /\ Cardinality({k \in Leases : Uses[k] \in {"used", "left", "lost"}}) \in Int
        /\ PoolReserved \in Int
    BY FS_Subset, FS_CardinalityType DEF PoolReserved
  <2> QED BY <1>1, <2>1, ChargedIsCounted
<1>10. \/ Phases[r] = "running" /\ Uses' = [k \in Leases |-> IF k \in {l} THEN "used" ELSE Uses[k]]
       \/ Phases[r] = "resumed" /\ Uses' = [k \in Leases |-> IF k \in {l} THEN "void" ELSE Uses[k]]
  BY <1>3, <1>6, <1>8
<1>11. Ledger!Cardinality(Ledger!Charged) < PoolLeases
  <2>1. Ledger!Cardinality(Ledger!Charged) = Cardinality(Ledger!Charged)
    BY DEF Ledger!Cardinality, Cardinality
  <2> QED BY <1>9, <2>1 DEF Ledger!Charged, Uses
<1>12. \/ Phases[r] = "running" /\ Ledger!Becomes({l}, "used")
       \/ Phases[r] = "resumed" /\ Ledger!Becomes({l}, "void")
  BY <1>10 DEF Ledger!Becomes, Uses
<1> QED BY <1>1, <1>5, <1>6, <1>7, <1>11, <1>12 DEF Ledger!Grant, Phases, Uses, Grantees, Kept

\* A lease's checkout makes its tree.
LEMMA PopulateLedger ==
    ASSUME IInv, NEW l \in Leases, Populate(l)
    PROVE  Ledger!Fill(l) \/ UNCHANGED Seen
<1>1. /\ UNCHANGED <<status, resumed, overlooked, lock, lease>> /\ mount[l] = "filling"
      /\ disk' = [disk EXCEPT ![l] = disk[l] \cup {"src"}]
      /\ mount' = [mount EXCEPT ![l] = "in"]
  BY DEF Populate, rows, store, history
<1>2. UNCHANGED Phases /\ UNCHANGED Grantees
  BY <1>1, PhasesStay DEF Grantees
<1>3. \A k \in Leases : Disowned(k)' <=> Disowned(k)
  BY <1>1 DEF Disowned
<1>4. \A k \in Leases \ {l} : Use(k)' = Use(k) /\ disk'[k] = disk[k]
  BY <1>1, <1>3, UseStays DEF IInv, TypeInv, LeaseType
<1>5. mount'[l] = "in" /\ disk'[l] = disk[l] \cup {"src"}
  BY <1>1 DEF IInv, TypeInv, LeaseType
<1>6. Use(l)' = Use(l)
  BY <1>1, <1>3, <1>5, UseIs, UseIsNext
<1>7. UNCHANGED Uses
  BY <1>4, <1>6 DEF Uses
<1>8. CASE Disowned(l)
  <2>1. UNCHANGED Kept
    BY <1>3, <1>4, <1>8 DEF Kept
  <2> QED BY <1>1, <1>2, <1>7, <2>1 DEF Seen
<1>9. CASE ~Disowned(l)
  <2>1. Uses[l] = "used"
    BY <1>1, <1>9, UseIs DEF Uses
  <2>2. Kept' = Kept \cup {l}
    BY <1>3, <1>4, <1>5, <1>9 DEF Kept
  <2> QED BY <1>1, <1>2, <1>7, <2>1, <2>2 DEF Ledger!Fill, Phases, Uses, Grantees, Kept
<1> QED BY <1>8, <1>9

\* A lease is given back, with or without a tree.
LEMMA GiveBackLedger ==
    ASSUME IInv, Granted, NEW l \in Leases, GiveBack(l)
    PROVE  (\E S \in SUBSET Ledger!Used : Ledger!Leave(S)) \/ UNCHANGED Seen
<1>1. /\ UNCHANGED <<status, resumed, overlooked, lock, lease>> /\ mount[l] # "no"
      /\ mount' = [mount EXCEPT ![l] = "no"]
      /\ \/ disk' = disk
         \/ disk' = [disk EXCEPT ![l] = disk[l] \cup {"src"}]
  BY DEF GiveBack, rows, history
<1>2. UNCHANGED Phases /\ UNCHANGED Grantees
  BY <1>1, PhasesStay DEF Grantees
<1>3. \A k \in Leases : Disowned(k)' <=> Disowned(k)
  BY <1>1 DEF Disowned
<1>4. \A k \in Leases \ {l} : Use(k)' = Use(k) /\ disk'[k] = disk[k]
  BY <1>1, <1>3, UseStays DEF IInv, TypeInv, LeaseType
<1>5. Use(l)' = IF Use(l) = "used" THEN "left" ELSE Use(l)
  BY <1>1, <1>3, UseLeft DEF IInv, TypeInv, LeaseType
<1>6. disk'[l] = disk[l] \/ disk'[l] = disk[l] \cup {"src"}
  BY <1>1 DEF IInv, TypeInv, LeaseType
<1>7. CASE Disowned(l)
  <2>1. Use(l) = "void"
    BY <1>7, UseIs
  <2>2. UNCHANGED Uses
    BY <1>4, <1>5, <2>1 DEF Uses
  <2>3. UNCHANGED Kept
    BY <1>3, <1>4, <1>7 DEF Kept
  <2> QED BY <1>1, <1>2, <2>2, <2>3 DEF Seen
<1>8. CASE ~Disowned(l)
  <2>1. Use(l) = "used"
    BY <1>1, <1>8, UseIs
  <2>2. Uses' = [k \in Leases |-> IF k \in {l} THEN "left" ELSE Uses[k]]
    BY <1>4, <1>5, <2>1 DEF Uses
  <2>3. PICK made \in SUBSET {l} : Kept' = Kept \cup made
    <3>1. Kept' = Kept \/ Kept' = Kept \cup {l}
      BY <1>3, <1>4, <1>6, <1>8 DEF Kept
    <3>2. CASE Kept' = Kept
      <4>1. Kept' = Kept \cup {}
        BY <3>2
      <4> QED BY <4>1
    <3>3. CASE Kept' = Kept \cup {l}
      BY <3>3
    <3> QED BY <3>1, <3>2, <3>3
  <2>4. {l} \subseteq Ledger!Used
    BY <2>1 DEF Ledger!Used
  <2>5. Ledger!Leave({l})
    BY <1>1, <1>2, <2>2, <2>3 DEF Ledger!Leave, Ledger!Becomes, Phases, Uses, Grantees, Kept
  <2> QED BY <2>4, <2>5
<1> QED BY <1>7, <1>8

\* The process stops: all that was used is left.
LEMMA CrashLedger ==
    ASSUME IInv, Granted, Crash
    PROVE  \E S \in SUBSET Ledger!Used : Ledger!Leave(S)
<1>1. /\ UNCHANGED <<status, resumed, overlooked, lock, lease, disk>>
      /\ mount' = [l \in Leases |-> "no"]
  BY DEF Crash, rows, store
<1>2. UNCHANGED Phases /\ UNCHANGED Grantees
  BY <1>1, PhasesStay DEF Grantees
<1>3. \A k \in Leases : Disowned(k)' <=> Disowned(k)
  BY <1>1 DEF Disowned
<1>4. UNCHANGED Kept
  BY <1>1, <1>3 DEF Kept
<1>5. \A l \in Leases : Use(l)' = IF Use(l) = "used" THEN "left" ELSE Use(l)
  BY <1>1, <1>3, UseLeft
<1>6. PICK S \in SUBSET Leases : S = {l \in Leases : Use(l) = "used"}
  OBVIOUS
<1>7. Uses' = [l \in Leases |-> IF l \in S THEN "left" ELSE Uses[l]]
  BY <1>5, <1>6 DEF Uses
<1>8. Kept' = Kept \cup {} /\ {} \in SUBSET S
  BY <1>4
<1>9. Ledger!Leave(S)
  BY <1>1, <1>2, <1>7, <1>8 DEF Ledger!Leave, Ledger!Becomes, Phases, Uses, Grantees, Kept
<1>10. S \subseteq Ledger!Used
  BY <1>6 DEF Ledger!Used
<1> QED BY <1>9, <1>10

\* A removal or a rename of a tree that only processors touch.
LEMMA RemoveLedger ==
    ASSUME IInv, [Next]_vars, NEW p \in Procs, ClearQuarantine(p) \/ Rename(p) \/ Delete(p)
    PROVE  (\E l \in Leases : Ledger!Wipe(l)) \/ UNCHANGED Seen
<1>1. PICK l \in Leases : l = At(p) /\ Free(l)
  BY AtFree DEF IInv, ClearQuarantine, Rename, Delete
<1>2. UNCHANGED <<status, resumed, overlooked, lock, lease, mount>>
  BY DEF ClearQuarantine, Rename, Delete, rows, store, history
<1>3. \A k \in Leases \ {l} : disk'[k] = disk[k]
  BY <1>1 DEF ClearQuarantine, Rename, Delete, Remove, IInv, TypeInv, LeaseType
<1>4. UNCHANGED Phases /\ UNCHANGED Uses /\ UNCHANGED Grantees
  BY <1>2, PhasesStay, LeasesStay
<1>5. \A k \in Leases : Disowned(k)' <=> Disowned(k)
  BY <1>2 DEF Disowned
<1>6. CASE Disowned(l)
  <2>1. UNCHANGED Kept
    BY <1>3, <1>5, <1>6 DEF Kept
  <2> QED BY <1>2, <1>4, <2>1 DEF Seen
<1>7. CASE ~Disowned(l)
  <2>1. mount[l] = "no"
    BY <1>1, <1>7 DEF Free, Disowned
  <2>2. Uses[l] # "used"
    <3>1. lease[l].state \in {"none", "ACTIVE", "AVAILABLE", "LOST"}
      BY <1>1 DEF IInv, TypeInv, LeaseType
    <3> QED BY <1>1, <1>7, <2>1, <3>1, UseIs DEF Uses
  <2>3. disk[l] = {} => disk'[l] = {}
    BY <1>1, <2>1, NamesGo DEF IInv
  <2>4. Kept' = Kept \/ Kept' = Kept \ {l}
    BY <1>1, <1>3, <1>5, <1>7, <2>3 DEF Kept
  <2>5. CASE Kept' = Kept
    BY <1>2, <1>4, <2>5 DEF Seen
  <2>6. CASE Kept' = Kept \ {l}
    <3>1. Ledger!Wipe(l)
      BY <1>2, <1>4, <2>2, <2>6 DEF Ledger!Wipe, Phases, Uses, Grantees, Kept
    <3> QED BY <3>1
  <2> QED BY <2>4, <2>5, <2>6
<1> QED BY <1>6, <1>7

\* A look fails, or tells nobody anything.
LEMMA LookLedger ==
    ASSUME IInv, NEW p \in Procs, LookSrc(p) \/ LookQuarantine(p)
    PROVE  (\E l \in Leases : Ledger!Overlook(l)) \/ UNCHANGED Seen
<1>1. PICK l \in Leases : l = At(p) /\ Free(l)
  BY AtFree DEF IInv, LookSrc, LookQuarantine
<1>2. UNCHANGED <<status, resumed, lock, lease, mount, disk>>
  BY DEF LookSrc, LookQuarantine, rows, store
<1>3. UNCHANGED Phases /\ UNCHANGED Uses /\ UNCHANGED Grantees /\ UNCHANGED Kept
  BY <1>2, PhasesStay, LeasesStay
<1>4. overlooked' = overlooked \/ overlooked' = overlooked \cup {l}
  BY <1>1 DEF LookSrc, LookQuarantine, Sees
<1>5. Uses[l] # "used"
  <2>1. lease[l].state \in {"none", "ACTIVE", "AVAILABLE", "LOST"}
    BY DEF IInv, TypeInv, LeaseType
  <2> QED BY <1>1, <2>1, UseIs DEF Uses, Free, Disowned
<1>6. CASE overlooked' = overlooked
  BY <1>2, <1>3, <1>6 DEF Seen
<1>7. CASE overlooked' = overlooked \cup {l}
  <2>1. Ledger!Overlook(l)
    BY <1>2, <1>3, <1>5, <1>7 DEF Ledger!Overlook, Phases, Uses, Grantees, Kept
  <2> QED BY <2>1
<1> QED BY <1>4, <1>6, <1>7

\* A lock that is freed was a run's that has ended, or was resumed.
LEMMA FreedLedger ==
    ASSUME IInv, NEW i \in DOMAIN outbox, lock' = Freed(outbox[i])
    PROVE  lock' = lock \/ (Ledger!GivenUp /\ lock' = NoRun)
<1> SUFFICES ASSUME lock' # lock PROVE Ledger!GivenUp /\ lock' = NoRun
  OBVIOUS
<1>1. lock' = NoRun /\ outbox[i].release /\ lock = outbox[i].run
  BY DEF Freed
<1>2. lock \in Runs
  BY <1>1, EntryColumns DEF IInv
<1>3. Over(lock)
  BY <1>1 DEF IInv, Owed
<1>4. Phases[lock] \in {"ended", "resumed"}
  BY <1>2, <1>3, PhaseIs DEF Over, Phases
<1> QED BY <1>1, <1>2, <1>4 DEF Ledger!GivenUp, Phases

\* The final transaction of an entry.
LEMMA FinishLedger ==
    ASSUME IInv, Granted, NEW p \in Procs, Finish(p)
    PROVE  \/ \E l \in Leases : \E word \in {"gone", "lost"} : Ledger!Account(l, word)
           \/ Ledger!GiveUp
           \/ UNCHANGED Seen
<1> DEFINE i == proc[p].entry
<1>1. UNCHANGED <<status, resumed, overlooked, mount, disk>>
  BY DEF Finish, rows, history
<1>2. UNCHANGED Phases
  BY <1>1, PhasesStay
<1>3. i \in DOMAIN outbox
  BY DEF Finish, IInv, Working
<1>4. PICK l \in Leases \cup {NoLease} : l = outbox[i].lease
  BY <1>3, EntryColumns DEF IInv
<1>5. CASE UNCHANGED <<lease, lock>>
  <2>1. UNCHANGED Uses /\ UNCHANGED Grantees /\ UNCHANGED Kept
    BY <1>1, <1>5, LeasesStay
  <2> QED BY <1>1, <1>2, <1>5, <2>1 DEF Seen
<1>6. CASE /\ lock' = Freed(outbox[i])
           /\ lease' = IF l = NoLease THEN lease
                       ELSE [lease EXCEPT ![l].state = IF proc[p].lost THEN "LOST" ELSE "AVAILABLE"]
  <2>1. lock' = lock \/ (Ledger!GivenUp /\ lock' = NoRun)
    BY <1>3, <1>6, FreedLedger
  <2>2. ASSUME UNCHANGED Uses, UNCHANGED Grantees, UNCHANGED Kept
        PROVE  Ledger!GiveUp \/ UNCHANGED Seen
    <3>1. CASE lock' = lock
      BY <1>1, <1>2, <2>2, <3>1 DEF Seen
    <3>2. CASE Ledger!GivenUp /\ lock' = NoRun
      BY <1>1, <1>2, <2>2, <3>2 DEF Ledger!GiveUp, Phases, Uses, Grantees, Kept
    <3> QED BY <2>1, <3>1, <3>2
  <2>3. CASE l = NoLease
    <3>1. UNCHANGED lease
      BY <1>6, <2>3
    <3> QED BY <1>1, <2>2, <3>1, LeasesStay
  <2>4. CASE l \in Leases
    <3>1. PICK word \in {"gone", "lost"} : word = IF proc[p].lost THEN "lost" ELSE "gone"
      OBVIOUS
    <3>2. /\ lease'[l].state = IF word = "lost" THEN "LOST" ELSE "AVAILABLE"
          /\ lease'[l].run = lease[l].run
          /\ \A k \in Leases \ {l} : lease'[k] = lease[k]
      BY <1>6, <2>4, <3>1 DEF IInv, TypeInv, LeaseType
    <3>3. lease[l].state # "none" /\ Free(l)
      BY <1>3, <1>4, <2>4 DEF IInv, Wiped
    <3>4. \A k \in Leases : lease'[k].run = lease[k].run /\ (Disowned(k)' <=> Disowned(k))
      BY <1>1, <3>2 DEF Disowned
    <3>5. UNCHANGED Grantees /\ UNCHANGED Kept
      BY <1>1, <3>4 DEF Grantees, Kept
    <3>6. \A k \in Leases \ {l} : Use(k)' = Use(k)
      BY <1>1, <3>2, <3>4, UseStays
    <3>7. CASE Disowned(l)
      <4>1. Use(l)' = Use(l)
        BY <2>4, <3>4, <3>7, UseIs, UseIsNext
      <4>2. UNCHANGED Uses
        BY <3>6, <4>1 DEF Uses
      <4> QED BY <2>2, <3>5, <4>2
    <3>8. CASE ~Disowned(l)
      <4>1. mount[l] = "no" /\ lease[l].state \in {"none", "ACTIVE", "AVAILABLE", "LOST"}
        BY <2>4, <3>3, <3>8 DEF Free, Disowned, IInv, TypeInv, LeaseType
      <4>2. Uses[l] \in {"left", "gone", "lost"}
        BY <2>4, <3>3, <3>8, <4>1, UseIs DEF Uses
      <4>3. Use(l)' = word
        BY <1>1, <2>4, <3>2, <3>4, <3>8, <4>1, UseIsNext
      <4>4. Uses' = [k \in Leases |-> IF k \in {l} THEN word ELSE Uses[k]]
        BY <3>6, <4>3 DEF Uses
      <4>5. word = "gone" => l \notin Kept \ overlooked
        <5>1. ~proc[p].lost /\ l \notin overlooked => disk[l] = {}
          BY <1>3, <1>4, <2>4, <3>8 DEF Finish, IInv, Hands, Hand, At, Disowned
        <5> QED BY <3>1, <5>1 DEF Kept
      <4>6. Ledger!Account(l, word)
        BY <1>1, <1>2, <2>1, <3>5, <4>2, <4>4, <4>5
        DEF Ledger!Account, Ledger!Becomes, Phases, Uses, Grantees, Kept
      <4> QED BY <2>4, <4>6
    <3> QED BY <3>7, <3>8
  <2> QED BY <2>3, <2>4
<1> QED BY <1>4, <1>5, <1>6 DEF Finish, store

LEMMA LedgerStarts == Init => Granted /\ Ledger!Init
<1> SUFFICES ASSUME Init PROVE Granted /\ Ledger!Init
  OBVIOUS
<1> USE DEF Init
<1>1. \A r \in Runs : Phase(r) = "none"
  BY PhaseIs
<1>2. \A l \in Leases : ~Disowned(l) /\ Use(l) = "none" /\ lease[l].run = NoRun
  BY UseIs DEF Disowned
<1>3. Granted
  BY DEF Granted
<1> QED BY <1>1, <1>2, <1>3 DEF Ledger!Init

\* No other step is one the ledger can see.
LEMMA OthersLedger ==
    ASSUME [Next]_vars,
           ~(\E r \in Runs :
               \/ Prepare(r) \/ SettleWrite(r) \/ WorkerStart(r) \/ WorkerEnd(r) \/ Resume(r) \/ Recover(r)
               \/ \E l \in Leases : Admit(r, l)),
           ~(\E l \in Leases : Populate(l) \/ GiveBack(l)),
           ~(\E p \in Procs : \/ LookSrc(p) \/ LookQuarantine(p) \/ ClearQuarantine(p) \/ Rename(p)
                              \/ Delete(p) \/ Finish(p)),
           ~NominateDispatch, ~Crash
    PROVE  UNCHANGED Seen
<1>1. UNCHANGED <<status, resumed, overlooked, lock, lease, mount, disk>>
  BY DEF Next, RunStep, ProcStep, vars, rows, store, history, EnqueueWaiter, ReadTurn, ClaimTurn,
         TakeTurn, RequestCancel, SettleDecide, Release, ReleaseFails, Reconcile, KeepWaiter,
         NominateRead, NominateDecide, SweepRead, SweepWrite, Claim, StartupSweep, StartupDone
<1> QED BY <1>1, PhasesStay, LeasesStay DEF Seen

\* The workspace keeps the promises of WorkspaceLedger: every transaction, call of
\* the file system, sweep, crash and recovery is a step the ledger allows, or one
\* it does not see (workspace_pool.py: admit, process_entry, enqueue_terminal).
THEOREM KeepsWorkspaceLedgerHolds == Spec => KeepsWorkspaceLedger
<1>1. IInv /\ Granted /\ [Next]_vars => [Ledger!Next]_Seen
  <2> SUFFICES ASSUME IInv, Granted, [Next]_vars PROVE Ledger!Next \/ UNCHANGED Seen
    OBVIOUS
  <2>1. ASSUME NEW r \in Runs, Prepare(r) PROVE Ledger!Next
    BY <2>1, PrepareLedger DEF Ledger!Next
  <2>2. ASSUME NEW r \in Runs, SettleWrite(r) \/ Recover(r) \/ WorkerEnd(r)
        PROVE  Ledger!Next \/ UNCHANGED Seen
    BY <2>2, SettleLedger, RecoverLedger, WorkerEndLedger DEF Ledger!Next
  <2>3. ASSUME NEW r \in Runs, WorkerStart(r) PROVE Ledger!Next \/ UNCHANGED Seen
    BY <2>3, StartLedger DEF Ledger!Next
  <2>4. ASSUME NEW r \in Runs, Resume(r) PROVE Ledger!Next
    BY <2>4, ResumeLedger DEF Ledger!Next
  <2>5. ASSUME NEW r \in Runs, NEW l \in Leases, Admit(r, l) PROVE Ledger!Next
    BY <2>5, GrantLedger DEF Ledger!Next
  <2>6. CASE NominateDispatch
    BY <2>6, DispatchLedger DEF Ledger!Next
  <2>7. ASSUME NEW l \in Leases, Populate(l) PROVE Ledger!Next \/ UNCHANGED Seen
    BY <2>7, PopulateLedger DEF Ledger!Next
  <2>8. ASSUME NEW l \in Leases, GiveBack(l) PROVE Ledger!Next \/ UNCHANGED Seen
    BY <2>8, GiveBackLedger DEF Ledger!Next
  <2>9. CASE Crash
    BY <2>9, CrashLedger DEF Ledger!Next
  <2>10. ASSUME NEW p \in Procs, ClearQuarantine(p) \/ Rename(p) \/ Delete(p)
         PROVE  Ledger!Next \/ UNCHANGED Seen
    BY <2>10, RemoveLedger DEF Ledger!Next
  <2>11. ASSUME NEW p \in Procs, Finish(p) PROVE Ledger!Next \/ UNCHANGED Seen
    BY <2>11, FinishLedger DEF Ledger!Next
  <2>12. ASSUME NEW p \in Procs, LookSrc(p) \/ LookQuarantine(p)
         PROVE  Ledger!Next \/ UNCHANGED Seen
    BY <2>12, LookLedger DEF Ledger!Next
  <2> QED
    BY <2>1, <2>2, <2>3, <2>4, <2>5, <2>6, <2>7, <2>8, <2>9, <2>10, <2>11, <2>12, OthersLedger
<1>2. IInv /\ Granted /\ [Next]_vars
        => [Ledger!Next]_<<[r \in Runs |-> Phase(r)], lock, [l \in Leases |-> Use(l)],
               [l \in Leases |-> lease[l].run], {l \in Leases : ~Disowned(l) /\ disk[l] # {}},
               overlooked>>
  BY <1>1 DEF Seen, Phases, Uses, Grantees, Kept
<1> QED BY <1>2, LedgerStarts, InitIInv, StepIInv, StepGranted, PTL
        DEF Spec, KeepsWorkspaceLedger, Ledger!Spec
=============================================================================
