------------------------ MODULE WorkspacePoolProofs ------------------------
(***************************************************************************)
(* The types of WorkspacePool, for any number of runs, leases and outbox   *)
(* processors, and any number of crashes, cancels, resumes, expired claims *)
(* and failed calls, with the lemmas about its queue and its outbox.       *)
(***************************************************************************)
EXTENDS WorkspacePool, FiniteSetTheorems, TLAPS

USE WorkspaceAssumption

-----------------------------------------------------------------------------
(* The two operations on sequences.                                        *)

LEMMA FunctionIsSeq ==
    ASSUME NEW T, NEW n \in Nat, NEW f \in [1..n -> T]
    PROVE  f \in Seq(T) /\ Len(f) = n /\ DOMAIN f = 1..n
OBVIOUS

\* Removing a run's ticket leaves the others in their order.
LEMMA RemovedTicket ==
    ASSUME tickets \in Seq(Runs), dispatched \subseteq Runs, NEW r \in Runs, RemoveTicket(r)
    PROVE  /\ tickets' \in Seq(Runs) /\ dispatched' \subseteq Runs
           /\ \A s \in Runs \ {r} : HasTicket(s) => HasTicket(s)'
           /\ \A s \in Runs : HasTicket(s)' => HasTicket(s)
<1>1. dispatched' \subseteq Runs
  BY DEF RemoveTicket
<1>2. CASE ~HasTicket(r) /\ UNCHANGED tickets
  BY <1>1, <1>2 DEF HasTicket
<1>3. ASSUME NEW i \in DOMAIN tickets, tickets[i] = r, tickets' = Without(tickets, i)
      PROVE  /\ tickets' \in Seq(Runs)
             /\ \A s \in Runs \ {r} : HasTicket(s) => HasTicket(s)'
             /\ \A s \in Runs : HasTicket(s)' => HasTicket(s)
  <2>1. Len(tickets) \in Nat /\ DOMAIN tickets = 1..Len(tickets)
        /\ \A j \in 1..Len(tickets) : tickets[j] \in Runs
    OBVIOUS
  <2>2. \A j \in 1..(Len(tickets) - 1) : tickets'[j] = IF j < i THEN tickets[j] ELSE tickets[j + 1]
    BY <1>3 DEF Without
  <2>3. /\ tickets' \in [1..(Len(tickets) - 1) -> Runs]
    BY <1>3, <2>1 DEF Without
  <2>4. tickets' \in Seq(Runs) /\ DOMAIN tickets' = 1..(Len(tickets) - 1)
    BY <1>3, <2>1, <2>3
  <2>5. ASSUME NEW s \in Runs \ {r}, NEW j \in DOMAIN tickets, tickets[j] = s
        PROVE  HasTicket(s)'
    <3>1. CASE j < i
      BY <1>3, <2>1, <2>2, <2>4, <2>5, <3>1 DEF HasTicket
    <3>2. CASE j > i
      <4>1. j - 1 \in 1..(Len(tickets) - 1) /\ ~(j - 1 < i) /\ (j - 1) + 1 = j
        BY <1>3, <2>1, <2>5, <3>2
      <4>2. tickets'[j - 1] = s
        BY <2>2, <2>5, <4>1
      <4> QED BY <2>4, <4>1, <4>2 DEF HasTicket
    <3> QED BY <1>3, <2>1, <2>5, <3>1, <3>2
  <2>6. ASSUME NEW s \in Runs, NEW j \in DOMAIN tickets', tickets'[j] = s
        PROVE  HasTicket(s)
    <3>1. j \in 1..(Len(tickets) - 1) /\ j \in DOMAIN tickets /\ j + 1 \in DOMAIN tickets
      BY <2>1, <2>4
    <3>2. s = tickets[j] \/ s = tickets[j + 1]
      BY <2>2, <2>6, <3>1
    <3> QED BY <3>1, <3>2 DEF HasTicket
  <2> QED BY <2>4, <2>5, <2>6 DEF HasTicket
<1> QED BY <1>1, <1>2, <1>3 DEF RemoveTicket

\* What a terminal release appends: entries of the run, for leases it holds.
LEMMA ReleaseEntries ==
    ASSUME outbox \in Seq(Entry), boot \in Nat, NEW r \in Runs, EnqueueTerminal(r)
    PROVE  /\ outbox' \in Seq(Entry) /\ DOMAIN outbox \subseteq DOMAIN outbox'
           /\ \A i \in DOMAIN outbox : outbox'[i] = outbox[i]
           /\ \A i \in DOMAIN outbox' \ DOMAIN outbox :
                outbox'[i].run = r /\ outbox'[i].lease \in ActiveOf(r) \cup {NoLease}
<1> DEFINE S == ActiveOf(r)
<1>1. Cardinality(S) \in Nat
  BY FS_Subset, FS_CardinalityType DEF ActiveOf
<1>2. PICK q \in Orders(S) :
        outbox' = outbox \o (IF S # {} THEN [i \in DOMAIN q |-> NewEntry(r, q[i], TRUE)]
                             ELSE IF lock = r THEN <<NewEntry(r, NoLease, TRUE)>> ELSE <<>>)
  BY DEF EnqueueTerminal
<1>3. q \in [1..Cardinality(S) -> S]
  BY <1>2 DEF Orders
<1> DEFINE more == IF S # {} THEN [i \in DOMAIN q |-> NewEntry(r, q[i], TRUE)]
                   ELSE IF lock = r THEN <<NewEntry(r, NoLease, TRUE)>> ELSE <<>>
<1>4. \A l \in S \cup {NoLease} : NewEntry(r, l, TRUE) \in Entry
  BY DEF NewEntry, Entry, ActiveOf
<1>5. more \in Seq(Entry)
      /\ \A i \in DOMAIN more : more[i].run = r /\ more[i].lease \in S \cup {NoLease}
  <2>1. CASE S # {}
    <3>1. more = [i \in 1..Cardinality(S) |-> NewEntry(r, q[i], TRUE)]
      BY <1>3, <2>1
    <3>2. \A i \in 1..Cardinality(S) : q[i] \in S
      BY <1>3
    <3>3. more \in [1..Cardinality(S) -> Entry]
      BY <1>4, <3>1, <3>2
    <3>4. more \in Seq(Entry)
      <4> HIDE DEF more
      <4> QED BY <1>1, <3>3, FunctionIsSeq
    <3>5. \A i \in 1..Cardinality(S) : more[i].run = r /\ more[i].lease \in S
      BY <3>1, <3>2 DEF NewEntry
    <3> QED BY <3>3, <3>4, <3>5
  <2>2. CASE S = {} /\ lock = r
    <3>1. more = <<NewEntry(r, NoLease, TRUE)>>
      BY <2>2
    <3> QED BY <1>4, <3>1 DEF NewEntry
  <2>3. CASE S = {} /\ lock # r
    BY <2>3
  <2> QED BY <2>1, <2>2, <2>3
<1>6. outbox' = outbox \o more
  BY <1>2
<1> HIDE DEF more
<1>7. /\ outbox' \in Seq(Entry) /\ Len(outbox') = Len(outbox) + Len(more)
      /\ \A i \in 1..Len(outbox) : outbox'[i] = outbox[i]
      /\ \A i \in 1..Len(outbox') \ 1..Len(outbox) : outbox'[i] = more[i - Len(outbox)]
  BY <1>5, <1>6
<1>8. \A i \in 1..Len(outbox') \ 1..Len(outbox) : i - Len(outbox) \in DOMAIN more
  <2>1. Len(outbox) \in Nat /\ Len(more) \in Nat /\ DOMAIN more = 1..Len(more)
    BY <1>5
  <2> QED BY <1>7, <2>1
<1>9. DOMAIN outbox = 1..Len(outbox) /\ DOMAIN outbox' = 1..Len(outbox')
      /\ Len(outbox) \in Nat /\ Len(more) \in Nat
  BY <1>5, <1>7
<1>10. DOMAIN outbox \subseteq DOMAIN outbox'
  BY <1>7, <1>9
<1>11. \A i \in DOMAIN outbox' \ DOMAIN outbox :
         outbox'[i].run = r /\ outbox'[i].lease \in S \cup {NoLease}
  <2> SUFFICES ASSUME NEW i \in DOMAIN outbox' \ DOMAIN outbox
               PROVE  outbox'[i].run = r /\ outbox'[i].lease \in S \cup {NoLease}
    OBVIOUS
  <2>1. outbox'[i] = more[i - Len(outbox)] /\ i - Len(outbox) \in DOMAIN more
    <3>1. i \in 1..Len(outbox') \ 1..Len(outbox)
      BY <1>9
    <3> QED BY <1>7, <1>8, <3>1
  <2> QED BY <1>5, <2>1
<1>12. \A i \in DOMAIN outbox : outbox'[i] = outbox[i]
  BY <1>7, <1>9
<1> QED BY <1>7, <1>10, <1>11, <1>12

-----------------------------------------------------------------------------
(* Type correctness.                                                       *)

RunType ==
    /\ status \in [Runs -> {"none"} \cup Live \cup Terminal]
    /\ worker \in [Runs -> {"none", "submitted", "executing"}]
    /\ admitting \in [Runs -> {"none", "enqueue", "head", "turn", "mark"}]
    /\ submits \in [Runs -> Nat]
    /\ cancels \subseteq Runs /\ started \subseteq Runs /\ owned \subseteq Runs
    /\ claimed \subseteq Runs /\ settling \subseteq Runs /\ releasing \subseteq Runs
    /\ resumed \subseteq Runs
QueueType == tickets \in Seq(Runs) /\ dispatched \subseteq Runs
ThreadType ==
    /\ nominator \in [pc : {"idle", "head", "mark"}, run : Runs \cup {NoRun}, free : BOOLEAN]
    /\ sweeping \in Runs \cup {NoRun} /\ lock \in Runs \cup {NoRun}
    /\ startup \in Procs \cup {"idle", "pending", "finished"}
    /\ boot \in Nat /\ {expiries, faults} \subseteq Nat
LeaseType ==
    /\ lease \in [Leases -> [state : {"none", "ACTIVE", "AVAILABLE", "LOST"},
                             run : Runs \cup {NoRun}]]
    /\ mount \in [Leases -> {"no", "filling", "in"}]
    /\ disk \in [Leases -> SUBSET {"src", "quarantine"}]
OutboxType ==
    /\ outbox \in Seq(Entry)
    /\ proc \in [Procs -> Processor]

\* What the nominator holds is a run, and so is the holder of a mounted lease.
Known ==
    /\ nominator.pc # "idle" => nominator.run \in Runs
    /\ \A l \in Leases : mount[l] # "no" => lease[l].run \in Runs

TypeInv == RunType /\ QueueType /\ ThreadType /\ LeaseType /\ OutboxType /\ Known

LEMMA TypeInvImpliesTypeOK == TypeInv /\ overlooked \subseteq Leases => TypeOK
BY DEF TypeInv, RunType, QueueType, ThreadType, LeaseType, OutboxType, TypeOK

LEMMA InitType == Init => TypeInv
BY DEF Init, TypeInv, RunType, QueueType, ThreadType, LeaseType, OutboxType, Known, Idle, Processor

\* A processor's record stays one when a step writes its columns.
LEMMA ProcessorColumns ==
    ASSUME NEW x \in Processor, NEW s \in BOOLEAN,
           NEW c \in {"idle", "look", "clear", "rename", "delete", "finish"},
           NEW i \in Nat, NEW n \in Nat
    PROVE  /\ [x EXCEPT !.pc = c] \in Processor
           /\ [x EXCEPT !.src = s, !.pc = c] \in Processor
           /\ [x EXCEPT !.pc = c, !.src = s] \in Processor
           /\ [x EXCEPT !.pc = c, !.lost = TRUE] \in Processor
           /\ [x EXCEPT !.pc = c, !.src = s, !.lost = TRUE] \in Processor
           /\ Idle \in Processor
           /\ [Idle EXCEPT !.pc = c, !.entry = i, !.token = n] \in Processor
BY DEF Processor, Idle

LEMMA SetProcessor ==
    ASSUME proc \in [Procs -> Processor], NEW p \in Procs, NEW x \in Processor,
           proc' = [proc EXCEPT ![p] = x]
    PROVE  proc' \in [Procs -> Processor]
OBVIOUS

LEMMA RemoveType ==
    ASSUME OutboxType, NEW p \in Procs, NEW c \in {"rename", "finish"}, Remove(p, c)
    PROVE  proc' \in [Procs -> Processor]
<1>1. /\ [proc[p] EXCEPT !.pc = c, !.src = FALSE] \in Processor
      /\ [proc[p] EXCEPT !.pc = "finish", !.src = FALSE, !.lost = TRUE] \in Processor
  BY ProcessorColumns, Zenon DEF OutboxType
<1>2. \/ proc' = [proc EXCEPT ![p] = [proc[p] EXCEPT !.pc = c, !.src = FALSE]]
      \/ proc' = [proc EXCEPT ![p] =
                     [proc[p] EXCEPT !.pc = "finish", !.src = FALSE, !.lost = TRUE]]
  BY Zenon DEF Remove
<1> QED BY <1>1, <1>2, SetProcessor, Zenon DEF OutboxType

LEMMA StepType == TypeInv /\ [Next]_vars => TypeInv'
<1> SUFFICES ASSUME TypeInv, [Next]_vars PROVE TypeInv'
  OBVIOUS
<1> USE DEF TypeInv, rows, queue, store, threads, sweeps, bounds, history
<1>1. ASSUME NEW r \in Runs, Prepare(r) PROVE TypeInv'
  <2>1. RunType'
    BY <1>1 DEF Prepare, Submit, RunType, Live
  <2> QED
    BY <1>1, <2>1 DEF Prepare, QueueType, ThreadType, LeaseType, OutboxType, Known
<1>2. ASSUME NEW r \in Runs, EnqueueWaiter(r) PROVE TypeInv'
  <2>1. RunType'
    BY <1>2 DEF EnqueueWaiter, RunType
  <2>2. QueueType'
    BY <1>2 DEF EnqueueWaiter, QueueType
  <2> QED
    BY <1>2, <2>1, <2>2 DEF EnqueueWaiter, ThreadType, LeaseType, OutboxType, Known
<1>3. ASSUME NEW r \in Runs, ReadTurn(r) PROVE TypeInv'
  <2>1. RunType'
    BY <1>3 DEF ReadTurn, MyTurn, RunType
  <2> QED
    BY <1>3, <2>1 DEF ReadTurn, QueueType, ThreadType, LeaseType, OutboxType, Known
<1>4. ASSUME NEW r \in Runs, ClaimTurn(r) PROVE TypeInv'
  <2>1. RunType'
    BY <1>4 DEF ClaimTurn, RunType
  <2> QED
    BY <1>4, <2>1 DEF ClaimTurn, QueueType, ThreadType, LeaseType, OutboxType, Known
<1>5. ASSUME NEW r \in Runs, TakeTurn(r) PROVE TypeInv'
  <2>1. RunType'
    BY <1>5 DEF TakeTurn, Mark, Submit, RunType
  <2>2. QueueType'
    BY <1>5 DEF TakeTurn, Mark, Submit, QueueType
  <2> QED
    BY <1>5, <2>1, <2>2 DEF TakeTurn, ThreadType, LeaseType, OutboxType, Known
<1>6. ASSUME NEW r \in Runs, RequestCancel(r) PROVE TypeInv'
  <2>1. RunType'
    BY <1>6 DEF RequestCancel, RunType
  <2> QED
    BY <1>6, <2>1 DEF RequestCancel, QueueType, ThreadType, LeaseType, OutboxType, Known
<1>7. ASSUME NEW r \in Runs, SettleDecide(r) PROVE TypeInv'
  <2>1. RunType'
    BY <1>7 DEF SettleDecide, RunType
  <2> QED
    BY <1>7, <2>1 DEF SettleDecide, QueueType, ThreadType, LeaseType, OutboxType, Known
<1>8. ASSUME NEW r \in Runs, SettleWrite(r) PROVE TypeInv'
  <2>1. RunType'
    BY <1>8 DEF SettleWrite, CommitTerminal, RunType, Live, Terminal
  <2> QED
    BY <1>8, <2>1 DEF SettleWrite, QueueType, ThreadType, LeaseType, OutboxType, Known
<1>9. ASSUME NEW r \in Runs, WorkerStart(r) PROVE TypeInv'
  <2>1. RunType'
    BY <1>9 DEF WorkerStart, RunType, Live, Terminal
  <2> QED
    BY <1>9, <2>1 DEF WorkerStart, QueueType, ThreadType, LeaseType, OutboxType, Known
<1>10. ASSUME NEW r \in Runs, WorkerEnd(r) PROVE TypeInv'
  <2>1. RunType'
    BY <1>10 DEF WorkerEnd, CommitTerminal, RunType, LeaseType, Known, Live, Terminal
  <2>2. LeaseType'
    BY <1>10 DEF WorkerEnd, CommitTerminal, LeaseType, Known
  <2>3. Known'
    BY <1>10 DEF WorkerEnd, CommitTerminal, Known, LeaseType
  <2> QED
    BY <1>10, <2>1, <2>2, <2>3 DEF WorkerEnd, QueueType, ThreadType, OutboxType
<1>11. ASSUME NEW r \in Runs, NEW l \in Leases, Admit(r, l) PROVE TypeInv'
  <2>1. QueueType'
    BY <1>11, RemovedTicket DEF Admit, QueueType, LeaseType, Known
  <2>2. ThreadType'
    BY <1>11 DEF Admit, ThreadType, LeaseType, Known
  <2>3. LeaseType'
    BY <1>11 DEF Admit, LeaseType, Known
  <2>4. Known'
    BY <1>11 DEF Admit, Known, LeaseType
  <2> QED
    BY <1>11, <2>1, <2>2, <2>3, <2>4 DEF Admit, RunType, OutboxType
<1>12. ASSUME NEW r \in Runs, Release(r) PROVE TypeInv'
  <2>1. RunType'
    BY <1>12 DEF Release, RunType, ThreadType, OutboxType
  <2>2. QueueType'
    BY <1>12, RemovedTicket DEF Release, EnqueueTerminal, QueueType, ThreadType, OutboxType
  <2>3. OutboxType'
    BY <1>12, ReleaseEntries DEF Release, OutboxType, ThreadType
  <2> QED
    BY <1>12, <2>1, <2>2, <2>3 DEF Release, ThreadType, LeaseType, Known
<1>13. ASSUME NEW r \in Runs, ReleaseFails(r) PROVE TypeInv'
  <2>1. RunType'
    BY <1>13 DEF ReleaseFails, RunType
  <2>2. ThreadType'
    BY <1>13 DEF ReleaseFails, ThreadType
  <2> QED
    BY <1>13, <2>1, <2>2 DEF ReleaseFails, QueueType, LeaseType, OutboxType, Known
<1>14. ASSUME NEW r \in Runs, Resume(r) PROVE TypeInv'
  <2>1. RunType'
    BY <1>14 DEF Resume, RunType, Live, Terminal
  <2> QED
    BY <1>14, <2>1 DEF Resume, QueueType, ThreadType, LeaseType, OutboxType, Known
<1>15. ASSUME NEW r \in Runs, Recover(r) PROVE TypeInv'
  <2>1. RunType'
    BY <1>15 DEF Recover, CommitTerminal, RunType, Live, Terminal
  <2> QED
    BY <1>15, <2>1 DEF Recover, QueueType, ThreadType, LeaseType, OutboxType, Known
<1>16. ASSUME NominateRead PROVE TypeInv'
  <2>1. ThreadType'
    BY <1>16 DEF NominateRead, Waiting, WorkspaceFree, ThreadType, QueueType
  <2>2. Known'
    BY <1>16 DEF NominateRead, Waiting, Known, QueueType, ThreadType, RunType
  <2> QED
    BY <1>16, <2>1, <2>2 DEF NominateRead, RunType, QueueType, LeaseType, OutboxType
<1>17. ASSUME NominateDecide PROVE TypeInv'
  <2>1. RunType'
    BY <1>17 DEF NominateDecide, RunType, ThreadType, Known
  <2>2. QueueType'
    BY <1>17, RemovedTicket DEF NominateDecide, QueueType, ThreadType, Known
  <2>3. ThreadType'
    BY <1>17 DEF NominateDecide, ThreadType, Known
  <2>4. Known'
    BY <1>17 DEF NominateDecide, Known, ThreadType
  <2> QED
    BY <1>17, <2>1, <2>2, <2>3, <2>4 DEF NominateDecide, LeaseType, OutboxType
<1>18. ASSUME NominateDispatch PROVE TypeInv'
  <2>1. RunType'
    BY <1>18 DEF NominateDispatch, Mark, Submit, CommitTerminal, RunType, ThreadType, Known, Live,
                 Terminal
  <2>2. QueueType'
    BY <1>18 DEF NominateDispatch, Mark, Submit, CommitTerminal, QueueType, ThreadType, Known
  <2>3. ThreadType'
    <3>1. faults' \in Nat
      BY <1>18 DEF NominateDispatch, ThreadType
    <3>2. nominator' = [nominator EXCEPT !.pc = "idle", !.run = NoRun, !.free = FALSE]
      BY <1>18, Zenon DEF NominateDispatch
    <3>3. UNCHANGED <<sweeping, lock, startup, boot, expiries>>
      BY <1>18 DEF NominateDispatch
    <3> QED BY <3>1, <3>2, <3>3 DEF ThreadType
  <2>4. Known'
    BY <1>18 DEF NominateDispatch, Mark, Submit, CommitTerminal, Known, ThreadType
  <2> QED
    BY <1>18, <2>1, <2>2, <2>3, <2>4 DEF NominateDispatch, LeaseType, OutboxType
<1>19. ASSUME SweepRead PROVE TypeInv'
  <2>1. ThreadType'
    BY <1>19 DEF SweepRead, OrphanedLock, ThreadType
  <2> QED
    BY <1>19, <2>1 DEF SweepRead, RunType, QueueType, LeaseType, OutboxType, Known
<1>20. ASSUME SweepWrite PROVE TypeInv'
  <2>1. ThreadType'
    BY <1>20 DEF SweepWrite, ThreadType, OutboxType
  <2>2. QueueType'
    BY <1>20, RemovedTicket DEF SweepWrite, EnqueueTerminal, QueueType, ThreadType, OutboxType
  <2>3. OutboxType'
    BY <1>20, ReleaseEntries DEF SweepWrite, OutboxType, ThreadType
  <2> QED
    BY <1>20, <2>1, <2>2, <2>3 DEF SweepWrite, RunType, LeaseType, Known
<1>21. ASSUME Crash PROVE TypeInv'
  <2>1. RunType'
    BY <1>21 DEF Crash, Idle, RunType, LeaseType, Known
  <2>2. ThreadType'
    BY <1>21 DEF Crash, Idle, ThreadType, LeaseType, Known
  <2>3. LeaseType'
    BY <1>21 DEF Crash, Idle, LeaseType, Known
  <2>4. OutboxType'
    BY <1>21, ProcessorColumns DEF Crash, OutboxType
  <2>5. Known'
    BY <1>21 DEF Crash, Idle, Known, LeaseType
  <2> QED
    BY <1>21, <2>1, <2>2, <2>3, <2>4, <2>5 DEF Crash, QueueType
<1>22. ASSUME NEW l \in Leases, Populate(l) PROVE TypeInv'
  <2>1. LeaseType'
    BY <1>22 DEF Populate, LeaseType, Known
  <2>2. Known'
    BY <1>22 DEF Populate, Known, LeaseType
  <2> QED
    BY <1>22, <2>1, <2>2 DEF Populate, RunType, QueueType, ThreadType, OutboxType
<1>23. ASSUME NEW l \in Leases, GiveBack(l) PROVE TypeInv'
  <2>1. LeaseType'
    BY <1>23 DEF GiveBack, LeaseType
  <2>2. OutboxType'
    BY <1>23 DEF GiveBack, NewEntry, OutboxType, LeaseType, Known, ThreadType, Entry
  <2>3. Known'
    BY <1>23 DEF GiveBack, NewEntry, Known, LeaseType, OutboxType, ThreadType
  <2> QED
    BY <1>23, <2>1, <2>2, <2>3 DEF GiveBack, RunType, QueueType, ThreadType
<1>24. ASSUME NEW p \in Procs, Claim(p) PROVE TypeInv'
  <2>1. ThreadType'
    BY <1>24 DEF Claim, Unfinished, Abandoned, Idle, ThreadType, Entry
  <2>2. OutboxType'
    <3>1. PICK i \in Unfinished :
            /\ outbox' = [outbox EXCEPT ![i].token = @ + 1]
            /\ proc' = [proc EXCEPT ![p] =
                 [Idle EXCEPT !.pc = IF outbox[i].lease = NoLease THEN "finish" ELSE "look",
                              !.entry = i, !.token = outbox[i].token + 1]]
      BY <1>24, Zenon DEF Claim
    <3>2. i \in DOMAIN outbox /\ i \in Nat /\ outbox[i] \in Entry
      BY <3>1 DEF Unfinished, OutboxType
    <3>3. outbox[i].token + 1 \in Nat
      BY <3>2 DEF Entry
    <3>4. outbox' \in Seq(Entry)
      <4>1. [outbox[i] EXCEPT !.token = @ + 1] \in Entry
        BY <3>2 DEF Entry
      <4> QED BY <3>1, <3>2, <4>1 DEF OutboxType
    <3>5. proc' \in [Procs -> Processor]
      <4> DEFINE c == IF outbox[i].lease = NoLease THEN "finish" ELSE "look"
      <4>1. c \in {"finish", "look"}
        OBVIOUS
      <4>2. [Idle EXCEPT !.pc = c, !.entry = i, !.token = outbox[i].token + 1] \in Processor
        BY <3>2, <3>3, <4>1 DEF Idle, Processor
      <4> QED BY <3>1, <4>2, SetProcessor, Zenon DEF OutboxType
    <3> QED BY <3>4, <3>5 DEF OutboxType
  <2> QED
    BY <1>24, <2>1, <2>2 DEF Claim, RunType, QueueType, LeaseType, Known
<1>25. ASSUME NEW p \in Procs, LookSrc(p) PROVE TypeInv'
  <2>1. OutboxType'
    <3>1. PICK seen \in BOOLEAN :
            proc' = [proc EXCEPT ![p] = [@ EXCEPT !.src = seen, !.pc = "clear"]]
      BY <1>25, Zenon DEF LookSrc
    <3> DEFINE x == [proc[p] EXCEPT !.src = seen, !.pc = "clear"]
    <3>2. x \in Processor
      BY ProcessorColumns, Zenon DEF OutboxType
    <3>3. proc' = [proc EXCEPT ![p] = x]
      BY <3>1
    <3> HIDE DEF x
    <3> QED BY <1>25, <3>2, <3>3 DEF LookSrc, OutboxType
  <2>2. faults' \in Nat
    BY <1>25 DEF LookSrc, Sees, ThreadType
  <2> QED
    BY <1>25, <2>1, <2>2 DEF LookSrc, RunType, QueueType, ThreadType, LeaseType, Known
<1>26. ASSUME NEW p \in Procs, LookQuarantine(p) PROVE TypeInv'
  <2>1. OutboxType'
    BY <1>26 DEF LookQuarantine, AfterClear, OutboxType, Processor
  <2>2. faults' \in Nat
    BY <1>26 DEF LookQuarantine, Sees, ThreadType
  <2> QED
    BY <1>26, <2>1, <2>2 DEF LookQuarantine, RunType, QueueType, ThreadType, LeaseType, Known
<1>27. ASSUME NEW p \in Procs, ClearQuarantine(p) PROVE TypeInv'
  <2>1. ThreadType'
    BY <1>27 DEF ClearQuarantine, Remove, At, ThreadType
  <2>2. LeaseType'
    BY <1>27 DEF ClearQuarantine, Remove, At, LeaseType
  <2>3. OutboxType'
    <3>1. AfterClear(p) \in {"rename", "finish"}
      BY DEF AfterClear
    <3> QED BY <1>27, <3>1, RemoveType DEF ClearQuarantine, OutboxType
  <2> QED
    BY <1>27, <2>1, <2>2, <2>3 DEF ClearQuarantine, RunType, QueueType, Known
<1>28. ASSUME NEW p \in Procs, Rename(p) PROVE TypeInv'
  <2>1. LeaseType'
    BY <1>28 DEF Rename, RenameFailed, At, LeaseType
  <2>2. OutboxType'
    <3>1. /\ [proc[p] EXCEPT !.pc = "delete"] \in Processor
          /\ [proc[p] EXCEPT !.pc = "finish", !.lost = TRUE] \in Processor
      BY ProcessorColumns, Zenon DEF OutboxType
    <3>2. \/ proc' = [proc EXCEPT ![p] = [proc[p] EXCEPT !.pc = "delete"]]
          \/ proc' = [proc EXCEPT ![p] = [proc[p] EXCEPT !.pc = "finish", !.lost = TRUE]]
      BY <1>28, Zenon DEF Rename, RenameFailed
    <3>3. proc' \in [Procs -> Processor]
      BY <3>1, <3>2, SetProcessor, Zenon DEF OutboxType
    <3> QED BY <1>28, <3>3 DEF Rename, OutboxType
  <2> QED
    BY <1>28, <2>1, <2>2 DEF Rename, RunType, QueueType, ThreadType, Known
<1>29. ASSUME NEW p \in Procs, Delete(p) PROVE TypeInv'
  <2>1. ThreadType'
    BY <1>29 DEF Delete, Remove, At, ThreadType
  <2>2. LeaseType'
    BY <1>29 DEF Delete, Remove, At, LeaseType
  <2>3. OutboxType'
    BY <1>29, RemoveType DEF Delete, OutboxType
  <2> QED
    BY <1>29, <2>1, <2>2, <2>3 DEF Delete, RunType, QueueType, Known
<1>30. ASSUME NEW p \in Procs, Finish(p) PROVE TypeInv'
  <2>1. ThreadType'
    BY <1>30 DEF Finish, Freed, Idle, ThreadType, LeaseType, Known, OutboxType, Entry
  <2>2. LeaseType'
    <3> DEFINE l == outbox[proc[p].entry].lease
    <3>1. \/ lease' = lease
          \/ lease' = [lease EXCEPT ![l].state = "LOST"]
          \/ lease' = [lease EXCEPT ![l].state = "AVAILABLE"]
      BY <1>30 DEF Finish
    <3> HIDE DEF l
    <3>2. UNCHANGED <<disk, mount>>
      BY <1>30 DEF Finish
    <3> QED BY <3>1, <3>2 DEF LeaseType
  <2>3. OutboxType'
    <3>1. proc' = [proc EXCEPT ![p] = Idle] /\ Idle \in Processor
      BY <1>30 DEF Finish, Idle, Processor
    <3>2. outbox' = outbox \/ outbox' = [outbox EXCEPT ![proc[p].entry].done = TRUE]
      BY <1>30, Zenon DEF Finish
    <3>3. outbox' \in Seq(Entry)
      <4>1. \A i \in DOMAIN outbox : outbox[i] \in Entry
        BY DEF OutboxType
      <4>2. \A e \in Entry : [e EXCEPT !.done = TRUE] \in Entry
        BY DEF Entry
      <4> QED BY <3>2, <4>1, <4>2 DEF OutboxType
    <3> QED BY <3>1, <3>3, SetProcessor DEF OutboxType
  <2>4. Known'
    BY <1>30 DEF Finish, Freed, Idle, Known, LeaseType, OutboxType, ThreadType, Entry
  <2> QED
    BY <1>30, <2>1, <2>2, <2>3, <2>4 DEF Finish, RunType, QueueType
<1>31. ASSUME NEW p \in Procs, StartupSweep(p) PROVE TypeInv'
  <2>1. ThreadType'
    BY <1>31 DEF StartupSweep, ThreadType
  <2> QED
    BY <1>31, <2>1 DEF StartupSweep, RunType, QueueType, LeaseType, OutboxType, Known
<1>32. ASSUME NEW p \in Procs, StartupDone(p) PROVE TypeInv'
  <2>1. ThreadType'
    BY <1>32 DEF StartupDone, ThreadType
  <2> QED
    BY <1>32, <2>1 DEF StartupDone, RunType, QueueType, LeaseType, OutboxType, Known
<1>33. ASSUME NEW r \in Runs, Reconcile(r) \/ KeepWaiter(r) PROVE TypeInv'
  <2>1. ThreadType'
    BY <1>33 DEF Reconcile, KeepWaiter, ThreadType
  <2> QED
    BY <1>33, <2>1 DEF Reconcile, KeepWaiter, RunType, QueueType, LeaseType, OutboxType, Known
<1>34. CASE UNCHANGED vars
  BY <1>34 DEF vars, RunType, QueueType, ThreadType, LeaseType, OutboxType, Known
<1> QED
  BY <1>1, <1>2, <1>3, <1>4, <1>5, <1>6, <1>7, <1>8, <1>9, <1>10, <1>11, <1>12, <1>13, <1>14, <1>15, <1>16, <1>17, <1>18, <1>19, <1>20, <1>21, <1>22, <1>23, <1>24, <1>25, <1>26, <1>27, <1>28, <1>29, <1>30, <1>31, <1>32, <1>33, <1>34 DEF
      Next, RunStep, ProcStep
=============================================================================
