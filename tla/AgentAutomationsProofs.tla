----------------------- MODULE AgentAutomationsProofs -----------------------
(***************************************************************************)
(* The safety of an agent's automations.  Whoever works for the agent      *)
(* holds its lease, and a lease is only ever taken from a process that is  *)
(* gone: so the runs of the agent that had not to wait for the workspace   *)
(* never overlap, a wake that was told of its run is never claimed again,  *)
(* and the attempts of a wake are counted.                                 *)
(***************************************************************************)
EXTENDS AgentAutomations, FiniteSetTheorems, TLAPS

\* What the steps and the records point at exists.
Linked ==
    /\ \A c \in Consumers : task[c].pc # "free" => task[c].item \in Items
    /\ \A c \in Consumers : poll[c].pc = "skipped" => poll[c].item \in Items
    /\ \A c \in Consumers : task[c].run \in 0..Len(runs)
    /\ \A c \in Consumers : unstopped[c] \in 0..Len(runs)
    /\ \A c \in Consumers :
          task[c].pc \in {"announce", "wait", "grace"} => task[c].run # 0
    /\ lease # None => lease.run \in 0..Len(runs)
    /\ \A r \in Rows : IsFiniteSet(fence[r])

Typed == TypeOK /\ Linked
-----------------------------------------------------------------------------
(* Types                                                                   *)

LEMMA Constants ==
    /\ Period \in Nat \ {0} /\ Retry \in Nat \ {0} /\ MaxAttempts \in Nat \ {0}
    /\ Horizon \in Nat /\ MaxUpsets \in Nat
    /\ NotBefore \in [Wakes -> Nat]
    /\ \A w \in Wakes : w \notin Cadences
    /\ None \notin Lease
BY AutomationAssumption DEF AutomationAssumption, Instants

\* Runs changed one by one stay the same runs in the same order.
LEMMA MappedRuns ==
    ASSUME NEW s \in Seq(Run), NEW f \in [DOMAIN s -> Run]
    PROVE  f \in Seq(Run) /\ Len(f) = Len(s) /\ DOMAIN f = DOMAIN s
<1>1. DOMAIN s = 1..Len(s) /\ Len(s) \in Nat
  OBVIOUS
<1> QED
  BY <1>1

LEMMA AppendedRun ==
    ASSUME NEW s \in Seq(Run), NEW e \in Run
    PROVE  /\ Append(s, e) \in Seq(Run)
           /\ Len(Append(s, e)) = Len(s) + 1
           /\ DOMAIN Append(s, e) = DOMAIN s \cup {Len(s) + 1}
           /\ \A k \in DOMAIN s : Append(s, e)[k] = s[k]
           /\ Append(s, e)[Len(s) + 1] = e
OBVIOUS

\* What is due is due at an instant.
LEMMA DueIsItem ==
    ASSUME Typed, NEW i \in DueItems(now)
    PROVE  i \in Items
<1>1. PICK r \in Rows : /\ Owed(r, now)
                        /\ i = [row |-> r, due |-> DueInstant(r, now),
                                count |-> IF r \in Wakes THEN Attempts(r) ELSE 0]
  BY DEF DueItems
<1>2. DueInstant(r, now) \in Nat
  <2>1. CASE r \in Wakes
    <3>1. claimed[r] \in Nat /\ NotBefore[r] \in Nat
      BY <2>1, Constants DEF Typed, TypeOK, Instants
    <3> QED
      BY <2>1, <3>1, Constants DEF DueInstant, OnceDue, Later
  <2>2. CASE r \notin Wakes
    <3>1. now \in Nat /\ last[r] \in Nat /\ last[r] + Period <= now
      BY <1>1, <2>2, Constants DEF Typed, TypeOK, Instants, Owed, Rows
    <3>2. now - last[r] \in Nat
      BY <3>1, Constants
    <3>3. (now - last[r]) \div Period \in Nat
      BY <3>2, Constants
    <3>4. \A m, n \in Nat : m * n \in Nat
      OBVIOUS
    <3>5. ((now - last[r]) \div Period) * Period \in Nat
      BY <3>3, <3>4, Constants
    <3> QED
      BY <2>2, <3>1, <3>5 DEF DueInstant
  <2> QED
    BY <2>1, <2>2
<1>3. Attempts(r) \in Nat
  BY FS_CardinalityType DEF Typed, Linked, Attempts
<1> QED
  BY <1>1, <1>2, <1>3 DEF Items
LEMMA InitTyped == Init => Typed
<1> SUFFICES ASSUME Init PROVE Typed
  OBVIOUS
<1>1. NoTask \in Task /\ NoPoll \in Pass
  BY DEF NoTask, NoPoll, Task, Pass
<1>2. runs \in Seq(Run) /\ Len(runs) = 0
  BY DEF Init
<1>3. TypeOK
  BY <1>1, <1>2, Constants DEF Init, TypeOK, Instants
<1>4. \A r \in Rows : IsFiniteSet(fence[r])
  BY FS_EmptySet DEF Init
<1>5. Linked
  BY <1>2, <1>4 DEF Init, Linked, NoTask, NoPoll
<1> QED
  BY <1>3, <1>5 DEF Typed

\* The steps of a coordinator.
LEMMA StampTyped ==
    ASSUME Typed, NEW c \in Consumers, Stamp(c) \/ Release(c) \/ UNCHANGED lease
    PROVE  /\ lease' \in Lease \cup {None}
           /\ lease' # None => lease # None /\ lease'.run = lease.run
                               /\ lease'.holder = lease.holder
<1>1. lease \in Lease \cup {None}
  BY DEF Typed, TypeOK
<1>2. CASE lease # None
  BY <1>1, <1>2 DEF Lease, Stamp, Release
<1>3. CASE lease = None
  BY <1>3 DEF Stamp, Release
<1> QED
  BY <1>2, <1>3

LEMMA PollTyped ==
    ASSUME Typed, NEW c \in Consumers, Poll(c)
    PROVE  Typed'
<1> USE DEF Typed
<1>1. \A i \in DueItems(now) : i \in Items
  BY DueIsItem
<1>2. ReapUnstopped(c) /\ SubmitDue(c)
  BY DEF Poll
<1>3. /\ lease' \in Lease \cup {None}
      /\ lease' # None => lease # None /\ lease'.run = lease.run
  BY <1>2, StampTyped DEF ReapUnstopped
<1>4. unstopped \in [Consumers -> Nat] /\ \A d \in Consumers : unstopped[d] \in 0..Len(runs)
  BY DEF TypeOK, Linked
<1>5. unstopped' \in [Consumers -> Nat] /\ \A d \in Consumers : unstopped'[d] \in 0..Len(runs)
  <2>1. CASE StillRuns(c)
    BY <1>2, <1>4, <2>1 DEF ReapUnstopped
  <2>2. CASE ~StillRuns(c)
    <3>1. Len(runs) \in Nat
      BY DEF TypeOK
    <3> QED
      BY <1>2, <1>4, <2>2, <3>1 DEF ReapUnstopped
  <2> QED
    BY <2>1, <2>2
<1>6. poll \in [Consumers -> Pass] /\ task \in [Consumers -> Task]
  BY DEF TypeOK
<1>7. ToSettle \subseteq Items
  BY <1>1 DEF ToSettle
<1>8. /\ poll' \in [Consumers -> Pass]
      /\ \A d \in Consumers : poll'[d].pc = "skipped" => poll'[d] = poll[d]
  <2>1. CASE poll' = poll
    BY <1>6, <2>1
  <2>2. CASE poll' = [poll EXCEPT ![c].pc = "overlap", ![c].todo = ToSettle]
    <3>1. poll'[c] \in Pass /\ poll'[c].pc = "overlap"
      BY <1>6, <1>7, <2>2 DEF Pass
    <3> QED
      BY <1>6, <2>2, <3>1
  <2> QED
    BY <1>2, <2>1, <2>2 DEF SubmitDue
<1>9. /\ task' \in [Consumers -> Task]
      /\ \A d \in Consumers : \/ task'[d] = task[d]
                             \/ /\ task'[d].pc = "acquire" /\ task'[d].item \in Items
                                /\ task'[d].run = task[d].run
  <2>1. CASE task' = task
    BY <1>6, <2>1
  <2>2. CASE \E i \in DueItems(now) :
                task' = [task EXCEPT ![c].pc = "acquire", ![c].item = i]
    <3>1. PICK i \in Items : task' = [task EXCEPT ![c].pc = "acquire", ![c].item = i]
      BY <1>1, <2>2
    <3>2. /\ task'[c] \in Task /\ task'[c].pc = "acquire" /\ task'[c].item = i
          /\ task'[c].run = task[c].run
      BY <1>6, <3>1 DEF Task
    <3> QED
      BY <1>6, <3>1, <3>2
  <2> QED
    BY <1>2, <2>1, <2>2 DEF SubmitDue
<1>10. UNCHANGED <<now, state, last, fence, claimed, runs, proc, upsets>>
  BY DEF Poll, rows, attempts
<1>11. TypeOK'
  BY <1>3, <1>5, <1>8, <1>9, <1>10 DEF TypeOK
<1>12. Linked'
  BY <1>3, <1>5, <1>8, <1>9, <1>10 DEF Linked
<1> QED
  BY <1>11, <1>12

LEMMA RestTyped ==
    ASSUME Typed, NEW c \in Consumers, NEW i \in poll[c].todo
    PROVE  /\ i \in Items
           /\ [poll EXCEPT ![c] = Rest(c, i)] \in [Consumers -> Pass]
           /\ Rest(c, i).pc # "skipped"
<1>1. poll[c] \in Pass
  BY DEF Typed, TypeOK
<1>2. i \in Items /\ Rest(c, i) \in Pass /\ Rest(c, i).pc # "skipped"
  BY <1>1 DEF Pass, Rest, NoPoll
<1> QED
  BY <1>2 DEF Typed, TypeOK

LEMMA ClaimTyped ==
    ASSUME Typed, NEW i \in Items, Claim(i.row, i.due)
    PROVE  /\ fence' \in [Rows -> SUBSET Nat]
           /\ claimed' \in [Wakes -> Instants]
           /\ \A r \in Rows : IsFiniteSet(fence'[r])
<1>1. i.row \in Rows /\ i.due \in Nat
  BY DEF Items
<1>2. fence' \in [Rows -> SUBSET Nat] /\ claimed' \in [Wakes -> Instants]
  BY <1>1 DEF Typed, TypeOK, Claim
<1>3. \A r \in Rows : IsFiniteSet(fence[r] \cup {i.due})
  BY FS_AddElement DEF Typed, Linked
<1>4. \A r \in Rows : fence'[r] = fence[r] \/ fence'[r] = fence[r] \cup {i.due}
  BY <1>1 DEF Typed, TypeOK, Claim
<1> QED
  BY <1>2, <1>3, <1>4 DEF Typed, Linked

LEMMA FinishTyped ==
    ASSUME Typed, NEW i \in Items, Finish(i.row, i.due)
    PROVE  /\ state' \in [Rows -> {"active", "paused", "retired"}]
           /\ last' \in [Cadences -> Nat]
BY DEF Typed, TypeOK, Finish, Items

LEMMA BecomesTyped ==
    ASSUME Typed, NEW r \in Rows, NEW new \in {"active", "paused", "retired"},
           Becomes(r, new)
    PROVE  /\ state' \in [Rows -> {"active", "paused", "retired"}]
           /\ last' \in [Cadences -> Nat]
BY DEF Typed, TypeOK, Becomes

LEMMA NewState ==
    ASSUME Typed, NEW r \in Rows, NEW ran \in BOOLEAN
    PROVE  /\ Paused(r) \in {"active", "paused", "retired"}
           /\ Spent(r, ran) \in {"active", "paused", "retired"}
BY DEF Typed, TypeOK, Paused, Spent

LEMMA SkipTyped ==
    ASSUME Typed, NEW c \in Consumers, Skip(c) \/ CloseSkipped(c)
    PROVE  Typed'
<1>1. CASE Skip(c)
  <2>1. PICK i \in poll[c].todo :
            IF i.due \in fence[i.row]
            THEN /\ poll' = [poll EXCEPT ![c] = Rest(c, i)]
                 /\ UNCHANGED attempts
            ELSE /\ Claim(i.row, i.due)
                 /\ poll' = [poll EXCEPT ![c].pc = "skipped", ![c].item = i]
    BY <1>1 DEF Skip
  <2>2. i \in Items
    BY RestTyped
  <2>3. UNCHANGED <<now, state, last, lease, runs, proc, task, unstopped, upsets>>
    BY <1>1 DEF Skip, rows
  <2>4. CASE i.due \in fence[i.row]
    <3>1. poll' \in [Consumers -> Pass] /\ poll' = [poll EXCEPT ![c] = Rest(c, i)]
      BY <2>1, <2>4, RestTyped
    <3>2. \A d \in Consumers : poll'[d].pc = "skipped" => poll'[d].item \in Items
      BY <3>1, RestTyped DEF Typed, TypeOK, Linked
    <3>3. UNCHANGED <<fence, claimed>>
      BY <2>1, <2>4 DEF attempts
    <3> QED
      BY <2>3, <3>1, <3>2, <3>3 DEF Typed, TypeOK, Linked
  <2>5. CASE i.due \notin fence[i.row]
    <3>1. Claim(i.row, i.due) /\ poll' = [poll EXCEPT ![c].pc = "skipped", ![c].item = i]
      BY <2>1, <2>5
    <3>2. poll \in [Consumers -> Pass]
      BY DEF Typed, TypeOK
    <3>3. poll'[c] \in Pass /\ poll'[c].item = i
      BY <2>2, <3>1, <3>2 DEF Pass
    <3>4. poll' \in [Consumers -> Pass]
      BY <3>1, <3>2, <3>3
    <3>5. \A d \in Consumers : poll'[d].pc = "skipped" => poll'[d].item \in Items
      BY <2>2, <3>1, <3>2, <3>3 DEF Typed, Linked
    <3> QED
      BY <2>2, <2>3, <3>1, <3>4, <3>5, ClaimTyped DEF Typed, TypeOK, Linked
  <2> QED
    BY <2>4, <2>5
<1>2. CASE CloseSkipped(c)
  <2>1. /\ Finish(poll[c].item.row, poll[c].item.due) /\ poll[c].item \in Items
        /\ poll' = [poll EXCEPT ![c] = Rest(c, poll[c].item)]
    BY <1>2 DEF CloseSkipped, Typed, Linked
  <2>2. UNCHANGED <<now, fence, claimed, lease, runs, proc, task, unstopped, upsets>>
    BY <1>2 DEF CloseSkipped, attempts
  <2>3. poll[c] \in Pass
    BY DEF Typed, TypeOK
  <2>4. Rest(c, poll[c].item) \in Pass /\ Rest(c, poll[c].item).pc # "skipped"
    BY <2>3 DEF Pass, Rest, NoPoll
  <2>5. poll' \in [Consumers -> Pass]
    BY <2>1, <2>4 DEF Typed, TypeOK
  <2>6. \A d \in Consumers : poll'[d].pc = "skipped" => poll'[d].item \in Items
    BY <2>1, <2>4 DEF Typed, TypeOK, Linked
  <2> QED
    BY <2>1, <2>2, <2>5, <2>6, FinishTyped DEF Typed, TypeOK, Linked
<1> QED
  BY <1>1, <1>2

LEMMA CancelledRun ==
    ASSUME Typed, NEW k \in DOMAIN runs
    PROVE  /\ runs[k] \in Run /\ Cancelled(k) \in Run
           /\ [runs[k] EXCEPT !.st = "ended"] \in Run
           /\ [runs[k] EXCEPT !.told = TRUE] \in Run
<1>1. runs[k] \in Run
  BY DEF Typed, TypeOK
<1> QED
  BY <1>1 DEF Run, Cancelled

LEMMA CancelPreviousTyped ==
    ASSUME Typed, NEW c \in Consumers, CancelPrevious(c)
    PROVE  Typed'
<1>1. PICK i \in poll[c].todo : poll' = [poll EXCEPT ![c] = Rest(c, i)]
  BY DEF CancelPrevious
<1>2. poll' \in [Consumers -> Pass]
  BY <1>1, RestTyped
<1>3. \A d \in Consumers : poll'[d].pc = "skipped" => poll'[d].item \in Items
  BY <1>1, RestTyped DEF Typed, TypeOK, Linked
<1>4. runs' \in Seq(Run) /\ Len(runs') = Len(runs)
  <2>1. CASE lease # None /\ lease.fresh /\ lease.run # 0
    <3>1. lease.run \in DOMAIN runs
      BY <2>1 DEF Typed, TypeOK, Linked
    <3>2. runs' = [runs EXCEPT ![lease.run] = Cancelled(lease.run)]
      BY <2>1 DEF CancelPrevious
    <3>3. runs' \in [DOMAIN runs -> Run]
      BY <3>1, <3>2, CancelledRun DEF Typed, TypeOK
    <3> QED
      BY <3>3, MappedRuns DEF Typed, TypeOK
  <2>2. CASE ~(lease # None /\ lease.fresh /\ lease.run # 0)
    BY <2>2 DEF CancelPrevious, Typed, TypeOK
  <2> QED
    BY <2>1, <2>2
<1>5. UNCHANGED <<now, state, last, fence, claimed, lease, proc, task, unstopped, upsets>>
  BY DEF CancelPrevious, store, rows, attempts
<1>6. TypeOK'
  BY <1>2, <1>4, <1>5 DEF Typed, TypeOK
<1>7. Linked'
  BY <1>3, <1>4, <1>5 DEF Typed, Linked
<1> QED
  BY <1>6, <1>7 DEF Typed

\* The steps of an executor thread.
LEMMA GotoTyped ==
    ASSUME Typed, NEW c \in Consumers, NEW step \in Held, Goto(c, step)
    PROVE  /\ task' \in [Consumers -> Task]
           /\ task'[c].pc = step /\ task'[c].item = task[c].item
           /\ task'[c].run = task[c].run /\ task'[c].keep = task[c].keep
           /\ \A d \in Consumers \ {c} : task'[d] = task[d]
<1>1. task \in [Consumers -> Task] /\ task[c] \in Task
  BY DEF Typed, TypeOK
<1>2. task' = [task EXCEPT ![c] = [task[c] EXCEPT !.pc = step]]
  BY DEF Goto
<1>3. [task[c] EXCEPT !.pc = step] \in Task
  BY <1>1 DEF Task
<1> QED
  BY <1>1, <1>2, <1>3 DEF Task

\* A thread that writes its row and goes on.
LEMMA RowStepTyped ==
    ASSUME Typed, NEW c \in Consumers, NEW step \in Held, Goto(c, step),
           task[c].pc # "free",
           step \in {"announce", "wait", "grace"} => task[c].run # 0,
           state' \in [Rows -> {"active", "paused", "retired"}],
           last' \in [Cadences -> Nat],
           upsets' \in 0..MaxUpsets,
           UNCHANGED <<now, attempts, lease, runs, proc, poll, unstopped>>
    PROVE  Typed'
<1>1. UNCHANGED <<now, fence, claimed, lease, runs, proc, poll, unstopped>>
  BY DEF attempts
<1>2. TypeOK'
  BY <1>1, GotoTyped DEF Typed, TypeOK
<1>3. Linked'
  BY <1>1, GotoTyped DEF Typed, Linked
<1> QED
  BY <1>2, <1>3 DEF Typed

LEMMA UpsetTyped == ASSUME Typed, Upset PROVE upsets' \in 0..MaxUpsets
BY Constants DEF Typed, TypeOK, Upset

LEMMA RowStepsTyped ==
    ASSUME Typed, NEW c \in Consumers,
           \/ GiveUp(c) \/ CloseStale(c) \/ Refuse(c) \/ PauseRefused(c)
           \/ FailEarly(c) \/ Await(c) \/ PauseIfHopeless(c) \/ SpendWake(c)
           \/ TurnBack(c)
    PROVE  Typed'
<1> DEFINE i == task[c].item
           RowsTyped == /\ state' \in [Rows -> {"active", "paused", "retired"}]
                        /\ last' \in [Cadences -> Nat]
<1>1. upsets \in 0..MaxUpsets
  BY DEF Typed, TypeOK
<1>2. task[c].pc # "free" => i \in Items /\ i.row \in Rows
  BY DEF Typed, Linked, Items
<1>3. CASE GiveUp(c)
  <2>1. Becomes(i.row, Spent(i.row, FALSE)) /\ task[c].pc # "free"
    BY <1>3 DEF GiveUp
  <2>2. RowsTyped
    BY <1>2, <2>1, NewState, BecomesTyped
  <2> QED
    BY <1>1, <1>3, <2>1, <2>2, RowStepTyped DEF GiveUp, Held
<1>4. CASE CloseStale(c)
  <2>1. Finish(i.row, i.due) /\ task[c].pc # "free"
    BY <1>4 DEF CloseStale
  <2>2. RowsTyped
    BY <1>2, <2>1, FinishTyped
  <2> QED
    BY <1>1, <1>4, <2>1, <2>2, RowStepTyped DEF CloseStale, Held
<1>5. CASE Refuse(c)
  <2>1. Finish(i.row, i.due) /\ task[c].pc # "free"
    BY <1>5 DEF Refuse
  <2>2. RowsTyped
    BY <1>2, <2>1, FinishTyped
  <2> QED
    BY <1>5, <2>1, <2>2, RowStepTyped, UpsetTyped DEF Refuse, Held
<1>6. CASE PauseRefused(c)
  <2>1. Becomes(i.row, Paused(i.row)) /\ task[c].pc # "free"
    BY <1>6 DEF PauseRefused
  <2>2. RowsTyped
    BY <1>2, <2>1, NewState, BecomesTyped
  <2> QED
    BY <1>1, <1>6, <2>1, <2>2, RowStepTyped DEF PauseRefused, Held
<1>7. CASE FailEarly(c)
  <2>1. Finish(i.row, i.due) /\ task[c].pc # "free"
    BY <1>7 DEF FailEarly
  <2>2. RowsTyped
    BY <1>2, <2>1, FinishTyped
  <2> QED
    BY <1>1, <1>7, <2>1, <2>2, RowStepTyped DEF FailEarly, Held
<1>8. CASE Await(c)
  <2>1. Finish(i.row, i.due) /\ task[c].pc # "free"
    BY <1>8 DEF Await
  <2>2. RowsTyped
    BY <1>2, <2>1, FinishTyped
  <2>3. Goto(c, "hopeless") \/ Goto(c, "spend") \/ Goto(c, "release")
    BY <1>8 DEF Await
  <2> QED
    BY <1>1, <1>8, <2>1, <2>2, <2>3, RowStepTyped DEF Await, Held
<1>9. CASE PauseIfHopeless(c)
  <2>1. /\ \E pause \in BOOLEAN :
               Becomes(i.row, IF pause THEN Paused(i.row) ELSE state[i.row])
        /\ task[c].pc # "free"
    BY <1>9 DEF PauseIfHopeless
  <2>2. state[i.row] \in {"active", "paused", "retired"}
    BY <1>2, <2>1 DEF Typed, TypeOK
  <2>3. RowsTyped
    BY <1>2, <2>1, <2>2, NewState, BecomesTyped
  <2>4. Goto(c, "spend") \/ Goto(c, "release")
    BY <1>9 DEF PauseIfHopeless
  <2> QED
    BY <1>1, <1>9, <2>1, <2>3, <2>4, RowStepTyped DEF PauseIfHopeless, Held
<1>10. CASE SpendWake(c)
  <2>1. Becomes(i.row, Spent(i.row, task[c].run # 0)) /\ task[c].pc # "free"
    BY <1>10 DEF SpendWake
  <2>2. (task[c].run # 0) \in BOOLEAN
    OBVIOUS
  <2>3. RowsTyped
    BY <1>2, <2>1, <2>2, NewState, BecomesTyped
  <2> QED
    BY <1>1, <1>10, <2>1, <2>3, RowStepTyped DEF SpendWake, Held
<1>11. CASE TurnBack(c)
  <2>1. RowsTyped
    BY <1>11 DEF TurnBack, store, rows, Typed, TypeOK
  <2> QED
    BY <1>11, <2>1, RowStepTyped, UpsetTyped DEF TurnBack, store, Held
<1> QED
  BY <1>3, <1>4, <1>5, <1>6, <1>7, <1>8, <1>9, <1>10, <1>11

LEMMA FreedTyped ==
    ASSUME Typed, NEW c \in Consumers
    PROVE  /\ [task EXCEPT ![c] = NoTask] \in [Consumers -> Task]
           /\ NoTask.pc = "free" /\ NoTask.run = 0
BY DEF Typed, TypeOK, Task, NoTask

LEMMA AcquireTyped ==
    ASSUME Typed, NEW c \in Consumers, Acquire(c)
    PROVE  Typed'
<1>1. UNCHANGED <<now, state, last, fence, claimed, runs, proc, poll, unstopped, upsets>>
  BY DEF Acquire, rows, attempts
<1>2. Len(runs) \in Nat /\ task \in [Consumers -> Task]
  BY DEF Typed, TypeOK
<1>3. CASE task' = [task EXCEPT ![c] = NoTask] /\ UNCHANGED lease
  <2>1. TypeOK'
    BY <1>1, <1>3, FreedTyped DEF Typed, TypeOK
  <2>2. Linked'
    BY <1>1, <1>2, <1>3, FreedTyped DEF Typed, Linked
  <2> QED
    BY <2>1, <2>2 DEF Typed
<1>4. CASE /\ lease' = [holder |-> c, fresh |-> TRUE,
                        run |-> IF lease # None /\ lease.holder = c
                                THEN lease.run ELSE 0]
           /\ Goto(c, "held")
  <2>1. lease' \in Lease /\ lease'.run \in 0..Len(runs)
    BY <1>2, <1>4 DEF Typed, TypeOK, Linked, Lease
  <2>2. "held" \in Held /\ task[c].pc # "free"
    BY DEF Held, Acquire
  <2>3. TypeOK'
    BY <1>1, <1>4, <2>1, <2>2, GotoTyped DEF Typed, TypeOK
  <2>4. Linked'
    BY <1>1, <1>4, <2>1, <2>2, GotoTyped DEF Typed, Linked
  <2> QED
    BY <2>3, <2>4 DEF Typed
<1> QED
  BY <1>3, <1>4 DEF Acquire

LEMMA ClaimAttemptTyped ==
    ASSUME Typed, NEW c \in Consumers, ClaimAttempt(c)
    PROVE  Typed'
<1>1. UNCHANGED <<now, state, last, lease, runs, proc, poll, unstopped, upsets>>
  BY DEF ClaimAttempt, rows
<1>2. task[c].pc = "held" /\ task[c].item \in Items
  BY DEF ClaimAttempt, Typed, Linked
<1>3. \E step \in {"gate", "stale", "release"} : Goto(c, step)
  BY DEF ClaimAttempt
<1>4. {"gate", "stale", "release"} \subseteq Held
  BY DEF Held
<1>5. /\ fence' \in [Rows -> SUBSET Nat]
      /\ claimed' \in [Wakes -> Instants]
      /\ \A r \in Rows : IsFiniteSet(fence'[r])
  <2>1. CASE Unclaimed(task[c].item)
    BY <1>2, <2>1, ClaimTyped DEF ClaimAttempt
  <2>2. CASE ~Unclaimed(task[c].item)
    BY <2>2 DEF ClaimAttempt, attempts, Typed, TypeOK, Linked
  <2> QED
    BY <2>1, <2>2
<1>6. TypeOK'
  BY <1>1, <1>3, <1>4, <1>5, GotoTyped DEF Typed, TypeOK
<1>7. Linked'
  BY <1>1, <1>2, <1>3, <1>4, <1>5, GotoTyped DEF Typed, Linked
<1> QED
  BY <1>6, <1>7 DEF Typed

\* What Launch and Announce do to the runs, for the proofs below as well.
LEMMA Launched ==
    ASSUME Typed, NEW c \in Consumers, Launch(c)
    PROVE  /\ runs' \in Seq(Run) /\ Len(runs') = Len(runs) + 1
           /\ DOMAIN runs' = DOMAIN runs \cup {Len(runs) + 1}
           /\ \A k \in DOMAIN runs : runs'[k] = runs[k] /\ k # Len(runs) + 1
           /\ runs'[Len(runs) + 1].row = task[c].item.row
           /\ runs'[Len(runs) + 1].due = task[c].item.due
           /\ runs'[Len(runs) + 1].by = c
           /\ ~runs'[Len(runs) + 1].told
           /\ task' \in [Consumers -> Task]
           /\ task'[c].pc = "announce" /\ task'[c].item = task[c].item
           /\ task'[c].run = Len(runs) + 1
           /\ \A d \in Consumers \ {c} : task'[d] = task[d]
<1>1. task[c].item \in Items
  BY DEF Launch, Typed, Linked
<1>2. PICK st \in {"ended", "live", "waiting"} :
          runs' = Append(runs, [row |-> task[c].item.row, due |-> task[c].item.due,
                                by |-> c, on |-> c, told |-> FALSE,
                                waited |-> st = "waiting", st |-> st])
  BY DEF Launch
<1> DEFINE e == [row |-> task[c].item.row, due |-> task[c].item.due, by |-> c,
                 on |-> c, told |-> FALSE, waited |-> st = "waiting", st |-> st]
<1>3. e \in Run
  BY <1>1 DEF Items, Run
<1>4. runs \in Seq(Run) /\ Len(runs) \in Nat /\ DOMAIN runs = 1..Len(runs)
  BY DEF Typed, TypeOK
<1>5. runs' = Append(runs, e)
  BY <1>2
<1>6. /\ runs' \in Seq(Run) /\ Len(runs') = Len(runs) + 1
      /\ DOMAIN runs' = DOMAIN runs \cup {Len(runs) + 1}
      /\ \A k \in DOMAIN runs : runs'[k] = runs[k]
      /\ runs'[Len(runs) + 1] = e
  BY <1>3, <1>4, <1>5, AppendedRun
<1>7. \A k \in DOMAIN runs : k # Len(runs) + 1
  BY <1>4
<1>8. task \in [Consumers -> Task] /\ task[c] \in Task
  BY DEF Typed, TypeOK
<1>9. task' = [task EXCEPT ![c].pc = "announce", ![c].run = Len(runs) + 1]
  BY DEF Launch
<1>10. \A n \in Nat : [task[c] EXCEPT !.pc = "announce", !.run = n] \in Task
  BY <1>8 DEF Task, Held
<1>11. Len(runs) + 1 \in Nat
  BY <1>4
<1>12. task' = [task EXCEPT ![c] = [task[c] EXCEPT !.pc = "announce", !.run = Len(runs) + 1]]
  BY <1>9
<1>13. [task[c] EXCEPT !.pc = "announce", !.run = Len(runs) + 1] \in Task
  BY <1>10, <1>11
<1>14. /\ task' \in [Consumers -> Task]
       /\ task'[c] = [task[c] EXCEPT !.pc = "announce", !.run = Len(runs) + 1]
       /\ \A d \in Consumers \ {c} : task'[d] = task[d]
  BY <1>8, <1>12, <1>13
<1>15. /\ task'[c].pc = "announce" /\ task'[c].item = task[c].item
       /\ task'[c].run = Len(runs) + 1
  BY <1>8, <1>14 DEF Task
<1> QED
  BY <1>6, <1>7, <1>14, <1>15

LEMMA LaunchTyped ==
    ASSUME Typed, NEW c \in Consumers, Launch(c)
    PROVE  Typed'
<1>1. /\ UNCHANGED <<now, state, last, fence, claimed, lease, proc, poll, unstopped>>
      /\ upsets' \in 0..MaxUpsets
  BY UpsetTyped DEF Launch, store, rows, attempts, Typed, TypeOK
<1>2. Len(runs) \in Nat /\ task[c].pc # "free"
  BY DEF Typed, TypeOK, Launch
<1>3. TypeOK'
  BY <1>1, Launched DEF Typed, TypeOK
<1>4. \A d \in Consumers :
         /\ task'[d].pc # "free" => task'[d].item \in Items
         /\ task'[d].run \in 0..Len(runs')
         /\ task'[d].pc \in {"announce", "wait", "grace"} => task'[d].run # 0
  <2> SUFFICES ASSUME NEW d \in Consumers
               PROVE  /\ task'[d].pc # "free" => task'[d].item \in Items
                      /\ task'[d].run \in 0..Len(runs')
                      /\ task'[d].pc \in {"announce", "wait", "grace"} => task'[d].run # 0
    OBVIOUS
  <2>1. CASE d = c
    BY <1>2, <2>1, Launched DEF Typed, Linked
  <2>2. CASE d # c
    BY <1>2, <2>2, Launched DEF Typed, Linked
  <2> QED
    BY <2>1, <2>2
<1>5. \A n \in 0..Len(runs) : n \in 0..Len(runs')
  BY <1>2, Launched
<1>6. Linked'
  BY <1>1, <1>4, <1>5 DEF Typed, Linked
<1> QED
  BY <1>3, <1>6 DEF Typed

LEMMA Told ==
    ASSUME Typed, NEW c \in Consumers, Announce(c)
    PROVE  /\ runs' \in Seq(Run) /\ Len(runs') = Len(runs)
           /\ DOMAIN runs' = DOMAIN runs
           /\ task[c].run \in DOMAIN runs
           /\ runs' = [runs EXCEPT ![task[c].run].told = TRUE]
<1>1. task[c].run \in DOMAIN runs
  BY DEF Typed, TypeOK, Linked, Announce
<1>2. runs' = [runs EXCEPT ![task[c].run] = [runs[task[c].run] EXCEPT !.told = TRUE]]
  BY DEF Announce
<1>3. runs' \in [DOMAIN runs -> Run]
  BY <1>1, <1>2, CancelledRun DEF Typed, TypeOK
<1> QED
  BY <1>1, <1>2, <1>3, MappedRuns DEF Typed, TypeOK

LEMMA AnnounceTyped ==
    ASSUME Typed, NEW c \in Consumers, Announce(c)
    PROVE  Typed'
<1>1. UNCHANGED <<now, fence, claimed, proc, poll, unstopped, upsets>>
  BY DEF Announce, attempts
<1>2. task[c].pc = "announce" /\ task[c].item.row \in Rows /\ task[c].run \in 0..Len(runs)
  BY DEF Announce, Typed, Linked, Items
<1>3. /\ state' \in [Rows -> {"active", "paused", "retired"}]
      /\ last' \in [Cadences -> Nat]
  BY <1>2, NewState, BecomesTyped DEF Announce
<1>4. Goto(c, "wait") /\ "wait" \in Held
  BY DEF Announce, Held
<1>5. lease' \in Lease \cup {None} /\ (lease' # None => lease'.run \in 0..Len(runs))
  <2>1. lease \in Lease \cup {None} /\ Len(runs) \in Nat
    BY DEF Typed, TypeOK
  <2> QED
    BY <1>2, <2>1 DEF Announce, Typed, Linked, Lease
<1>6. TypeOK'
  BY <1>1, <1>3, <1>4, <1>5, GotoTyped, Told DEF Typed, TypeOK
<1>7. Linked'
  BY <1>1, <1>2, <1>4, <1>5, GotoTyped, Told DEF Typed, Linked
<1> QED
  BY <1>6, <1>7 DEF Typed

\* The runs are the same, and none has come to life but one that waited for it.
SameRuns ==
    /\ runs' \in Seq(Run) /\ Len(runs') = Len(runs) /\ DOMAIN runs' = DOMAIN runs
    /\ \A k \in DOMAIN runs :
          /\ runs'[k].row = runs[k].row /\ runs'[k].due = runs[k].due
          /\ runs'[k].by = runs[k].by /\ runs'[k].told = runs[k].told
          /\ runs'[k].waited = runs[k].waited
          /\ runs'[k].st \in {"live", "asked"} => Live(k) \/ runs[k].waited

LEMMA ChangedRun ==
    ASSUME Typed, NEW k \in DOMAIN runs,
           NEW e \in {runs[k], Cancelled(k), [runs[k] EXCEPT !.st = "ended"]}
    PROVE  /\ e \in Run
           /\ e.row = runs[k].row /\ e.due = runs[k].due
           /\ e.by = runs[k].by /\ e.told = runs[k].told /\ e.waited = runs[k].waited
           /\ e.st \in {"live", "asked"} => Live(k)
<1>1. runs[k] \in Run
  BY DEF Typed, TypeOK
<1> QED
  BY <1>1 DEF Run, Cancelled, Live

LEMMA MapRuns ==
    ASSUME Typed, NEW f, f = [k \in DOMAIN runs |-> f[k]], runs' = f,
           \A k \in DOMAIN runs :
              f[k] \in {runs[k], Cancelled(k), [runs[k] EXCEPT !.st = "ended"]}
    PROVE  SameRuns
<1>1. \A k \in DOMAIN runs :
         /\ f[k] \in Run
         /\ f[k].row = runs[k].row /\ f[k].due = runs[k].due
         /\ f[k].by = runs[k].by /\ f[k].told = runs[k].told
         /\ f[k].waited = runs[k].waited
         /\ f[k].st \in {"live", "asked"} => Live(k)
  BY ChangedRun
<1>2. f \in [DOMAIN runs -> Run]
  BY <1>1
<1>3. f \in Seq(Run) /\ Len(f) = Len(runs) /\ DOMAIN f = DOMAIN runs
  BY <1>2, MappedRuns DEF Typed, TypeOK
<1> QED
  BY <1>1, <1>3 DEF SameRuns

LEMMA OneChanged ==
    ASSUME Typed, NEW j \in DOMAIN runs,
           NEW e \in {runs[j], Cancelled(j), [runs[j] EXCEPT !.st = "ended"]},
           runs' = [runs EXCEPT ![j] = e]
    PROVE  SameRuns
<1> DEFINE f == [k \in DOMAIN runs |-> IF k = j THEN e ELSE runs[k]]
<1>1. runs' = f
  BY DEF Typed, TypeOK
<1>2. \A k \in DOMAIN runs :
         f[k] \in {runs[k], Cancelled(k), [runs[k] EXCEPT !.st = "ended"]}
  OBVIOUS
<1>3. f = [k \in DOMAIN runs |-> f[k]]
  OBVIOUS
<1> HIDE DEF f
<1> QED
  BY <1>1, <1>2, <1>3, MapRuns

LEMMA RunsKept ==
    ASSUME Typed,
           \/ \E c \in Consumers :
                 CancelPrevious(c) \/ TimeOut(c) \/ Stop(c) \/ Ends(c)
           \/ \E k \in DOMAIN runs :
                 RunEnds(k) \/ \E c \in Consumers : StartWaiting(c, k)
           \/ UNCHANGED runs
    PROVE  SameRuns
<1>1. ASSUME NEW c \in Consumers, CancelPrevious(c) PROVE SameRuns
  <2>1. CASE lease # None /\ lease.fresh /\ lease.run # 0
    <3>1. lease.run \in DOMAIN runs
      BY <2>1 DEF Typed, TypeOK, Linked
    <3>2. runs' = [runs EXCEPT ![lease.run] = Cancelled(lease.run)]
      BY <1>1, <2>1 DEF CancelPrevious
    <3> QED
      BY <3>1, <3>2, OneChanged
  <2>2. CASE ~(lease # None /\ lease.fresh /\ lease.run # 0)
    BY <1>1, <2>2 DEF CancelPrevious, SameRuns, Typed, TypeOK, Live
  <2> QED
    BY <2>1, <2>2
<1>2. ASSUME NEW c \in Consumers, TimeOut(c) PROVE SameRuns
  <2>1. task[c].run \in DOMAIN runs
    BY <1>2 DEF TimeOut, Typed, TypeOK, Linked
  <2> QED
    BY <1>2, <2>1, OneChanged DEF TimeOut
<1>3. ASSUME NEW c \in Consumers, Stop(c) PROVE SameRuns
  <2> DEFINE f == [k \in DOMAIN runs |->
                     IF runs[k].by = c /\ runs[k].told THEN Cancelled(k) ELSE runs[k]]
  <2>1. runs' = f /\ f = [k \in DOMAIN runs |-> f[k]]
    BY <1>3 DEF Stop
  <2>2. \A k \in DOMAIN runs :
           f[k] \in {runs[k], Cancelled(k), [runs[k] EXCEPT !.st = "ended"]}
    OBVIOUS
  <2> HIDE DEF f
  <2> QED
    BY <2>1, <2>2, MapRuns
<1>4. ASSUME NEW c \in Consumers, Ends(c) PROVE SameRuns
  <2> DEFINE f == [k \in DOMAIN runs |->
                     IF Working(c, k) THEN [runs[k] EXCEPT !.st = "ended"] ELSE runs[k]]
  <2>1. runs' = f /\ f = [k \in DOMAIN runs |-> f[k]]
    BY <1>4 DEF Ends
  <2>2. \A k \in DOMAIN runs :
           f[k] \in {runs[k], Cancelled(k), [runs[k] EXCEPT !.st = "ended"]}
    OBVIOUS
  <2> HIDE DEF f
  <2> QED
    BY <2>1, <2>2, MapRuns
<1>5. ASSUME NEW k \in DOMAIN runs, RunEnds(k) PROVE SameRuns
  <2>1. runs' = [runs EXCEPT ![k] = [runs[k] EXCEPT !.st = "ended"]]
    BY <1>5 DEF RunEnds
  <2> QED
    BY <2>1, OneChanged
<1>6. ASSUME NEW k \in DOMAIN runs, NEW c \in Consumers, StartWaiting(c, k)
      PROVE  SameRuns
  <2> DEFINE e == [runs[k] EXCEPT !.st = "live", !.on = c]
  <2>0. runs[k].st = "waiting"
    BY <1>6 DEF StartWaiting
  <2>1. runs[k] \in Run /\ runs \in [DOMAIN runs -> Run]
    BY DEF Typed, TypeOK
  <2>2. /\ e \in Run /\ runs[k].waited
        /\ e.row = runs[k].row /\ e.due = runs[k].due
        /\ e.by = runs[k].by /\ e.told = runs[k].told /\ e.waited = runs[k].waited
    BY <2>0, <2>1 DEF Run
  <2>3. runs' = [runs EXCEPT ![k] = e]
    BY <1>6 DEF StartWaiting
  <2> HIDE DEF e
  <2>4. runs' \in [DOMAIN runs -> Run]
    BY <2>1, <2>2, <2>3
  <2>5. runs' \in Seq(Run) /\ Len(runs') = Len(runs) /\ DOMAIN runs' = DOMAIN runs
    BY <2>4, MappedRuns DEF Typed, TypeOK
  <2> QED
    BY <2>1, <2>2, <2>3, <2>5 DEF SameRuns, Live
<1>7. ASSUME UNCHANGED runs PROVE SameRuns
  BY <1>7 DEF SameRuns, Typed, TypeOK, Live
<1> QED
  BY <1>1, <1>2, <1>3, <1>4, <1>5, <1>6, <1>7

LEMMA TimeOutTyped ==
    ASSUME Typed, NEW c \in Consumers, TimeOut(c) \/ CloseTimedOut(c)
    PROVE  Typed'
<1>1. CASE TimeOut(c)
  <2>1. UNCHANGED <<now, state, last, fence, claimed, lease, proc, poll, unstopped>>
    BY <1>1 DEF TimeOut, store, rows, attempts
  <2>2. /\ Goto(c, "grace") /\ "grace" \in Held
        /\ task[c].pc = "wait" /\ upsets' \in 0..MaxUpsets
    BY <1>1, UpsetTyped DEF TimeOut, Held
  <2>3. SameRuns
    BY <1>1, RunsKept
  <2>4. TypeOK'
    BY <2>1, <2>2, <2>3, GotoTyped DEF Typed, TypeOK, SameRuns
  <2>5. Linked'
    BY <2>1, <2>2, <2>3, GotoTyped DEF Typed, Linked, SameRuns
  <2> QED
    BY <2>4, <2>5 DEF Typed
<1>2. CASE CloseTimedOut(c)
  <2>1. UNCHANGED <<now, fence, claimed, lease, runs, proc, poll, unstopped, upsets>>
    BY <1>2 DEF CloseTimedOut, attempts
  <2>2. task[c].item \in Items /\ Finish(task[c].item.row, task[c].item.due)
    BY <1>2 DEF CloseTimedOut, Typed, Linked
  <2>3. task \in [Consumers -> Task] /\ task[c] \in Task
    BY DEF Typed, TypeOK
  <2> DEFINE t == [task[c] EXCEPT !.pc = "hopeless", !.keep = Working(c, task[c].run)]
  <2>4. Working(c, task[c].run) \in BOOLEAN
    BY DEF Working
  <2>5. t \in Task /\ t.pc = "hopeless" /\ t.item = task[c].item /\ t.run = task[c].run
    BY <2>3, <2>4 DEF Task, Held
  <2>6. task' = [task EXCEPT ![c] = t]
    BY <1>2 DEF CloseTimedOut
  <2> HIDE DEF t
  <2>7. task' \in [Consumers -> Task] /\ task'[c] = t
        /\ \A d \in Consumers \ {c} : task'[d] = task[d]
    BY <2>3, <2>5, <2>6
  <2>8. TypeOK'
    BY <2>1, <2>2, <2>7, FinishTyped DEF Typed, TypeOK
  <2>9. Linked'
    BY <2>1, <2>2, <2>5, <2>7 DEF Typed, Linked
  <2> QED
    BY <2>8, <2>9 DEF Typed
<1> QED
  BY <1>1, <1>2

LEMMA ReleaseTyped ==
    ASSUME Typed, NEW c \in Consumers, ReleaseLease(c)
    PROVE  Typed'
<1>1. UNCHANGED <<now, state, last, fence, claimed, runs, proc, poll, upsets>>
  BY DEF ReleaseLease, rows, attempts
<1>2. task' = [task EXCEPT ![c] = NoTask] /\ task \in [Consumers -> Task]
  BY DEF ReleaseLease, Typed, TypeOK
<1>3. task[c].run \in 0..Len(runs) /\ task[c].run \in Nat
  BY DEF Typed, TypeOK, Linked, Task
<1>4. /\ unstopped' \in [Consumers -> Nat]
      /\ \A d \in Consumers : unstopped'[d] \in 0..Len(runs)
  BY <1>3 DEF ReleaseLease, Typed, TypeOK, Linked
<1>5. lease' \in Lease \cup {None} /\ (lease' # None => lease # None /\ lease'.run = lease.run)
  BY StampTyped DEF ReleaseLease
<1>6. TypeOK'
  BY <1>1, <1>2, <1>4, <1>5, FreedTyped DEF Typed, TypeOK
<1>7. Linked'
  BY <1>1, <1>2, <1>4, <1>5, FreedTyped DEF Typed, Linked
<1> QED
  BY <1>6, <1>7 DEF Typed

\* What happens around the threads: the lease's clock, runs and the owner.
LEMMA AroundTyped ==
    ASSUME Typed,
           \/ Lapse \/ Tick \/ \E c \in Consumers : Refresh(c) \/ Boot(c)
           \/ \E k \in DOMAIN runs :
                 RunEnds(k) \/ \E c \in Consumers : StartWaiting(c, k)
           \/ \E r \in Rows : OwnerEdits(r)
    PROVE  Typed'
<1> USE DEF store, rows, attempts, threads
<1>1. ASSUME Lapse \/ \E c \in Consumers : Refresh(c)
      PROVE  Typed'
  <2>1. /\ UNCHANGED <<now, state, last, fence, claimed, runs, proc, poll, task, unstopped>>
        /\ upsets' = upsets \/ Upset
        /\ lease # None
    BY <1>1 DEF Lapse, Refresh
  <2>2. lease \in Lease
    BY <2>1 DEF Typed, TypeOK
  <2>3. lease' \in Lease /\ lease'.run = lease.run
    BY <1>1, <2>2 DEF Lapse, Refresh, Lease
  <2>4. upsets' \in 0..MaxUpsets
    BY <2>1, UpsetTyped DEF Typed, TypeOK
  <2>5. TypeOK'
    BY <2>1, <2>3, <2>4 DEF Typed, TypeOK
  <2>6. Linked'
    BY <2>1, <2>3 DEF Typed, Linked
  <2> QED
    BY <2>5, <2>6 DEF Typed
<1>2. ASSUME Tick PROVE Typed'
  <2>1. now' \in Instants
    BY <1>2, Constants DEF Tick, Instants, Typed, TypeOK
  <2> QED
    BY <1>2, <2>1 DEF Tick, Typed, TypeOK, Linked
<1>3. ASSUME NEW c \in Consumers, Boot(c) PROVE Typed'
  BY <1>3 DEF Boot, Typed, TypeOK, Linked
<1>4. ASSUME NEW k \in DOMAIN runs,
             RunEnds(k) \/ \E c \in Consumers : StartWaiting(c, k)
      PROVE  Typed'
  <2>1. SameRuns
    BY <1>4, RunsKept
  <2> QED
    BY <1>4, <2>1 DEF RunEnds, StartWaiting, Typed, TypeOK, Linked, SameRuns
<1>5. ASSUME NEW r \in Rows, OwnerEdits(r) PROVE Typed'
  <2>1. /\ state' \in [Rows -> {"active", "paused", "retired"}]
        /\ last' \in [Cadences -> Nat]
    BY <1>5, BecomesTyped DEF OwnerEdits
  <2>2. upsets' \in 0..MaxUpsets
    BY <1>5, UpsetTyped DEF OwnerEdits
  <2> QED
    BY <1>5, <2>1, <2>2 DEF OwnerEdits, Typed, TypeOK, Linked
<1> QED
  BY <1>1, <1>2, <1>3, <1>4, <1>5

LEMMA EndingTyped ==
    ASSUME Typed, NEW c \in Consumers, Stop(c) \/ StopEnds(c) \/ Exit(c) \/ Die(c)
    PROVE  Typed'
<1> USE DEF store, rows, attempts
<1>1. CASE Stop(c)
  <2>1. SameRuns
    BY <1>1, RunsKept
  <2>2. upsets' \in 0..MaxUpsets
    BY <1>1, UpsetTyped DEF Stop
  <2> QED
    BY <1>1, <2>1, <2>2 DEF Stop, Typed, TypeOK, Linked, SameRuns
<1>2. CASE StopEnds(c)
  <2>1. PICK left \in {task[c], NoTask} :
            /\ task' = [task EXCEPT ![c] = left]
            /\ proc' = [proc EXCEPT ![c] =
                    IF poll[c].pc = "idle" /\ left.pc = "free" /\ unstopped[c] = 0
                    THEN "gone" ELSE "lingering"]
    BY <1>2 DEF StopEnds
  <2>2. /\ task' \in [Consumers -> Task]
        /\ \A d \in Consumers : task'[d] = task[d] \/ task'[d] = NoTask
    BY <2>1, FreedTyped DEF Typed, TypeOK
  <2>3. proc' \in [Consumers -> {"off", "up", "stopping", "lingering", "gone"}]
    BY <2>1 DEF Typed, TypeOK
  <2>4. Len(runs) \in Nat
    BY DEF Typed, TypeOK
  <2>5. UNCHANGED <<now, state, last, fence, claimed, lease, runs, poll, unstopped, upsets>>
    BY <1>2 DEF StopEnds
  <2>6. TypeOK'
    BY <2>2, <2>3, <2>5 DEF Typed, TypeOK
  <2>7. Linked'
    BY <2>2, <2>4, <2>5, FreedTyped DEF Typed, Linked
  <2> QED
    BY <2>6, <2>7 DEF Typed
<1>3. CASE Exit(c) \/ Die(c)
  <2>1. /\ Ends(c) /\ (upsets' = upsets \/ Upset)
        /\ UNCHANGED <<now, state, last, fence, claimed, lease>>
    BY <1>3 DEF Exit, Die
  <2>2. SameRuns
    BY <2>1, RunsKept
  <2>3. upsets' \in 0..MaxUpsets
    BY <2>1, UpsetTyped DEF Typed, TypeOK
  <2>4. task' = [task EXCEPT ![c] = NoTask] /\ task \in [Consumers -> Task]
    BY <2>1 DEF Ends, Typed, TypeOK
  <2>5. poll' \in [Consumers -> Pass] /\ \A d \in Consumers : poll'[d] = poll[d] \/ poll'[d] = NoPoll
    BY <2>1 DEF Ends, Typed, TypeOK, NoPoll, Pass
  <2>6. /\ unstopped' \in [Consumers -> Nat]
        /\ \A d \in Consumers : unstopped'[d] = unstopped[d] \/ unstopped'[d] = 0
    BY <2>1 DEF Ends, Typed, TypeOK
  <2>7. proc' \in [Consumers -> {"off", "up", "stopping", "lingering", "gone"}]
    BY <2>1 DEF Ends, Typed, TypeOK
  <2>8. Len(runs) \in Nat
    BY DEF Typed, TypeOK
  <2>9. TypeOK'
    BY <2>1, <2>2, <2>3, <2>4, <2>5, <2>6, <2>7, FreedTyped DEF Typed, TypeOK, SameRuns
  <2>10. \A d \in Consumers : task'[d] = task[d] \/ task'[d] = NoTask
    BY <2>4
  <2>11. NoTask.pc = "free" /\ NoTask.run = 0 /\ NoPoll.pc = "idle"
    BY DEF NoTask, NoPoll
  <2>12. \A d \in Consumers :
            /\ task'[d].pc # "free" => task'[d].item \in Items
            /\ task'[d].run \in 0..Len(runs')
            /\ task'[d].pc \in {"announce", "wait", "grace"} => task'[d].run # 0
    BY <2>2, <2>8, <2>10, <2>11 DEF Typed, Linked, SameRuns
  <2>13. \A d \in Consumers :
            /\ poll'[d].pc = "skipped" => poll'[d].item \in Items
            /\ unstopped'[d] \in 0..Len(runs')
    BY <2>2, <2>5, <2>6, <2>8, <2>11 DEF Typed, Linked, SameRuns
  <2>14. Linked'
    BY <2>1, <2>2, <2>12, <2>13 DEF Typed, Linked, SameRuns
  <2> QED
    BY <2>9, <2>14 DEF Typed
<1> QED
  BY <1>1, <1>2, <1>3

LEMMA NextTyped == Typed /\ [Next]_vars => Typed'
<1> SUFFICES ASSUME Typed, [Next]_vars PROVE Typed'
  OBVIOUS
<1>1. ASSUME NEW c \in Consumers, Coordinator(c) PROVE Typed'
  BY <1>1, PollTyped, SkipTyped, CancelPreviousTyped DEF Coordinator
<1>2. ASSUME NEW c \in Consumers, Executor(c) \/ TurnBack(c) \/ TimeOut(c) PROVE Typed'
  BY <1>2, AcquireTyped, ClaimAttemptTyped, RowStepsTyped, LaunchTyped,
     AnnounceTyped, TimeOutTyped, ReleaseTyped DEF Executor
<1>3. CASE UNCHANGED vars
  BY <1>3 DEF vars, store, rows, attempts, threads, Typed, TypeOK, Linked
<1> QED
  BY <1>1, <1>2, <1>3, AroundTyped, EndingTyped DEF Next

LEMMA SpecTyped == Spec => []Typed
BY InitTyped, NextTyped, PTL DEF Spec

\* Every variable keeps its type: an executor thread always has the row it works
\* on, and the steps of no consumer leave the store out of shape.
THEOREM TypeCorrect == Spec => []TypeOK
<1>1. Typed => TypeOK
  BY DEF Typed
<1> QED
  BY <1>1, SpecTyped, PTL
-----------------------------------------------------------------------------
(* The lease and the runs under it                                         *)

Mine(c) == lease # None /\ lease.holder = c

\* A live run that did not wait for the workspace.
Prompt(k) == Live(k) /\ ~runs[k].waited

\* Such a run is the one its consumer's thread has started and not yet seen the
\* end of, or the one it left behind after a timeout.
Worker(c, k) ==
    \/ /\ task[c].run = k
       /\ \/ task[c].pc \in {"announce", "wait", "grace"}
          \/ task[c].pc \in {"hopeless", "spend", "release"} /\ task[c].keep
    \/ unstopped[c] = k

Guarded ==
    /\ \A c \in Consumers : task[c].pc # "free" => Alive(c)
    /\ \A c \in Consumers : task[c].pc \in Held => Mine(c)
    /\ \A c \in Consumers :
          unstopped[c] # 0 => task[c].pc = "free" /\ Alive(c) /\ Mine(c)
    /\ \A k \in DOMAIN runs : Prompt(k) => Worker(runs[k].by, k)

LEMMA PromptRun ==
    ASSUME Typed, NEW k \in DOMAIN runs, Prompt(k)
    PROVE  /\ runs[k].by \in Consumers /\ runs[k].on = runs[k].by
           /\ Working(runs[k].by, k) /\ k # 0
<1>1. runs \in Seq(Run) /\ runs[k] \in Run
  BY DEF Typed, TypeOK
<1>2. runs[k].by \in Consumers /\ runs[k].on = runs[k].by
  BY <1>1 DEF Run, Prompt
<1> QED
  BY <1>1, <1>2 DEF Prompt, Working

LEMMA InitGuarded == Init => Guarded
BY DEF Init, Guarded, NoTask, Held

\* A step that leaves the threads alone.
LEMMA GuardedFrame ==
    ASSUME Typed, Guarded, SameRuns, UNCHANGED <<task, unstopped>>,
           \A c \in Consumers : Alive(c) => Alive(c)',
           \A c \in Consumers : Mine(c) => Mine(c)'
    PROVE  Guarded'
<1>1. \A k \in DOMAIN runs' : Prompt(k)' => Worker(runs[k].by, k)'
  <2> SUFFICES ASSUME NEW k \in DOMAIN runs', Prompt(k)' PROVE Worker(runs[k].by, k)'
    OBVIOUS
  <2>1. k \in DOMAIN runs /\ Prompt(k) /\ runs'[k].by = runs[k].by
    BY DEF SameRuns, Prompt, Live
  <2> QED
    BY <2>1 DEF Guarded, Worker
<1> QED
  BY <1>1 DEF Guarded

\* A thread that goes on under the lease.
LEMMA GuardedGoto ==
    ASSUME Typed, Guarded, SameRuns, NEW c \in Consumers, NEW step \in Held,
           Goto(c, step), task[c].pc \in Held, UNCHANGED <<proc, unstopped>>,
           \A d \in Consumers : Mine(d) => Mine(d)',
           \/ task[c].pc \in {"held", "stale", "gate", "refused"}
           \/ step \in {"announce", "wait", "grace"}
           \/ task[c].pc \in {"hopeless", "spend"} /\ step \in {"spend", "release"}
           \/ UNCHANGED runs /\ ~Working(c, task[c].run)
    PROVE  Guarded'
<1>1. /\ task'[c].pc = step /\ task'[c].run = task[c].run
      /\ task'[c].keep = task[c].keep
      /\ \A d \in Consumers \ {c} : task'[d] = task[d]
  BY GotoTyped
<1>2. \A d \in Consumers : Alive(d) = Alive(d)'
  BY DEF Alive
<1>3. Alive(c) /\ Mine(c) /\ task[c].pc # "free" /\ step # "free" /\ unstopped[c] = 0
  BY DEF Guarded, Held
<1>4. /\ \A d \in Consumers : task'[d].pc # "free" => Alive(d)'
      /\ \A d \in Consumers : task'[d].pc \in Held => Mine(d)'
      /\ \A d \in Consumers :
            unstopped'[d] # 0 => task'[d].pc = "free" /\ Alive(d)' /\ Mine(d)'
  BY <1>1, <1>2, <1>3 DEF Guarded
<1>5. ASSUME NEW k \in DOMAIN runs', Prompt(k)'
      PROVE  Worker(runs[k].by, k)'
  <2>0. k \in DOMAIN runs /\ runs \in Seq(Run)
    BY <1>5 DEF SameRuns, Typed, TypeOK
  <2>1. /\ k \in DOMAIN runs /\ Prompt(k) /\ runs'[k].by = runs[k].by
        /\ runs[k].by \in Consumers /\ k # 0
    <3>1. runs[k] \in Run /\ k # 0
      BY <2>0
    <3> QED
      BY <1>5, <2>0, <3>1 DEF SameRuns, Prompt, Live, Run
  <2>2. Worker(runs[k].by, k)
    BY <2>1 DEF Guarded
  <2>3. CASE runs[k].by # c
    BY <1>1, <2>1, <2>2, <2>3 DEF Worker
  <2>4. CASE runs[k].by = c
    <3>1. task[c].run = k /\ task[c].pc \notin {"held", "stale", "gate", "refused"}
      BY <1>3, <2>1, <2>2, <2>4 DEF Worker
    <3>2. Working(c, task[c].run)
      BY <2>1, <2>4, <3>1, PromptRun
    <3> QED
      BY <1>1, <1>3, <2>1, <2>2, <2>4, <3>1, <3>2 DEF Worker
  <2> QED
    BY <2>3, <2>4
<1> QED
  BY <1>4, <1>5 DEF Guarded

LEMMA GuardedQuiet ==
    ASSUME Typed, Guarded,
           \/ \E c \in Consumers : \/ Skip(c) \/ CloseSkipped(c) \/ CancelPrevious(c)
                                 \/ Refresh(c) \/ Boot(c) \/ Stop(c)
           \/ \E k \in DOMAIN runs :
                 RunEnds(k) \/ \E c \in Consumers : StartWaiting(c, k)
           \/ \E r \in Rows : OwnerEdits(r)
           \/ Lapse \/ Tick \/ UNCHANGED vars
    PROVE  Guarded'
<1> USE DEF vars, store, threads
<1>1. SameRuns
  BY RunsKept DEF Skip, CloseSkipped, Refresh, Boot, OwnerEdits, Lapse, Tick
<1>2. UNCHANGED <<task, unstopped>>
  BY DEF Skip, CloseSkipped, CancelPrevious, Refresh, Boot, Stop, RunEnds,
         StartWaiting, OwnerEdits, Lapse, Tick
<1>3. \A c \in Consumers : Alive(c) => Alive(c)'
  <2>1. ASSUME NEW d \in Consumers, Boot(d) \/ Stop(d)
        PROVE  \A c \in Consumers : Alive(c) => Alive(c)'
    BY <2>1 DEF Boot, Stop, Alive, Typed, TypeOK
  <2>2. ASSUME UNCHANGED proc PROVE \A c \in Consumers : Alive(c) => Alive(c)'
    BY <2>2 DEF Alive
  <2> QED
    BY <2>1, <2>2 DEF Skip, CloseSkipped, CancelPrevious, Refresh, RunEnds,
                      StartWaiting, OwnerEdits, Lapse, Tick
<1>4. \A c \in Consumers : Mine(c) => Mine(c)'
  <2>1. ASSUME Lapse \/ \E d \in Consumers : Refresh(d)
        PROVE  \A c \in Consumers : Mine(c) => Mine(c)'
    <3>1. lease \in Lease /\ None \notin Lease
      BY <2>1, Constants DEF Lapse, Refresh, Typed, TypeOK
    <3> QED
      <4>1. \A b \in BOOLEAN : /\ [lease EXCEPT !.fresh = b] \in Lease
                             /\ [lease EXCEPT !.fresh = b].holder = lease.holder
        BY <3>1 DEF Lease
      <4> QED
        BY <2>1, <3>1, <4>1 DEF Lapse, Refresh, Mine
  <2>2. ASSUME UNCHANGED lease PROVE \A c \in Consumers : Mine(c) => Mine(c)'
    BY <2>2 DEF Mine
  <2> QED
    BY <2>1, <2>2 DEF Skip, CloseSkipped, CancelPrevious, Boot, Stop, RunEnds,
                      StartWaiting, OwnerEdits, Tick
<1> QED
  BY <1>1, <1>2, <1>3, <1>4, GuardedFrame

LEMMA GuardedHeld ==
    ASSUME Typed, Guarded, NEW c \in Consumers,
           \/ TurnBack(c) \/ GiveUp(c) \/ ClaimAttempt(c) \/ CloseStale(c)
           \/ Refuse(c) \/ PauseRefused(c) \/ FailEarly(c) \/ Await(c)
           \/ PauseIfHopeless(c) \/ SpendWake(c) \/ TimeOut(c)
    PROVE  Guarded'
<1> USE DEF store
<1>1. SameRuns
  BY RunsKept DEF TurnBack, GiveUp, ClaimAttempt, CloseStale, Refuse, PauseRefused,
       FailEarly, Await, PauseIfHopeless, SpendWake
<1>2. \A d \in Consumers : Mine(d) => Mine(d)'
  BY DEF TurnBack, GiveUp, ClaimAttempt, CloseStale, Refuse, PauseRefused,
       FailEarly, Await, PauseIfHopeless, SpendWake, TimeOut, Mine
<1>3. UNCHANGED <<proc, unstopped>>
  BY DEF TurnBack, GiveUp, ClaimAttempt, CloseStale, Refuse, PauseRefused,
       FailEarly, Await, PauseIfHopeless, SpendWake, TimeOut
<1>4. {"release", "stale", "gate", "refused", "hopeless", "spend", "grace"} \subseteq Held
  BY DEF Held
<1>5. ASSUME NEW step \in {"release", "stale", "gate", "refused", "hopeless"},
             Goto(c, step), task[c].pc \in {"held", "stale", "gate", "refused"}
      PROVE  Guarded'
  BY <1>1, <1>2, <1>3, <1>4, <1>5, GuardedGoto DEF Held
<1>6. CASE TurnBack(c) \/ GiveUp(c) \/ ClaimAttempt(c)
  BY <1>5, <1>6 DEF TurnBack, GiveUp, ClaimAttempt
<1>7. CASE CloseStale(c) \/ Refuse(c) \/ PauseRefused(c) \/ FailEarly(c)
  BY <1>5, <1>7 DEF CloseStale, Refuse, PauseRefused, FailEarly
<1>8. CASE Await(c)
  <2>1. PICK step \in {"hopeless", "spend", "release"} : Goto(c, step)
    BY <1>8 DEF Await
  <2>2. UNCHANGED runs /\ ~Working(c, task[c].run) /\ task[c].pc = "wait"
    BY <1>8 DEF Await
  <2> QED
    BY <1>1, <1>2, <1>3, <1>4, <2>1, <2>2, GuardedGoto DEF Held
<1>9. CASE PauseIfHopeless(c) \/ SpendWake(c)
  <2>1. PICK step \in {"spend", "release"} : Goto(c, step)
    BY <1>9 DEF PauseIfHopeless, SpendWake
  <2>2. task[c].pc \in {"hopeless", "spend"}
    BY <1>9 DEF PauseIfHopeless, SpendWake
  <2> QED
    BY <1>1, <1>2, <1>3, <1>4, <2>1, <2>2, GuardedGoto DEF Held
<1>10. CASE TimeOut(c)
  <2>1. Goto(c, "grace") /\ task[c].pc = "wait"
    BY <1>10 DEF TimeOut
  <2> QED
    BY <1>1, <1>2, <1>3, <1>4, <2>1, GuardedGoto DEF Held
<1> QED
  BY <1>6, <1>7, <1>8, <1>9, <1>10

LEMMA GuardedAnnounce ==
    ASSUME Typed, Guarded, NEW c \in Consumers, Announce(c)
    PROVE  Guarded'
<1>1. runs' = [runs EXCEPT ![task[c].run].told = TRUE] /\ task[c].run \in DOMAIN runs
  BY Told
<1>2. /\ Len(runs') = Len(runs) /\ DOMAIN runs' = DOMAIN runs
      /\ \A k \in DOMAIN runs : /\ runs'[k].by = runs[k].by /\ runs'[k].st = runs[k].st
                               /\ runs'[k].waited = runs[k].waited
  <2>1. runs' = [runs EXCEPT ![task[c].run] = [runs[task[c].run] EXCEPT !.told = TRUE]]
    BY <1>1
  <2>2. [runs[task[c].run] EXCEPT !.told = TRUE].by = runs[task[c].run].by
        /\ [runs[task[c].run] EXCEPT !.told = TRUE].st = runs[task[c].run].st
        /\ [runs[task[c].run] EXCEPT !.told = TRUE].waited = runs[task[c].run].waited
    BY <1>1 DEF Typed, TypeOK, Run
  <2> QED
    BY <1>1, <2>1, <2>2, Told DEF Typed, TypeOK
<1>3. Goto(c, "wait") /\ "wait" \in Held /\ UNCHANGED <<proc, unstopped>>
      /\ task[c].pc = "announce"
  BY DEF Announce, Held
<1>4. \A d \in Consumers : Mine(d) => Mine(d)'
  <2>1. CASE lease # None /\ lease.holder = c
    <3>1. lease' = [lease EXCEPT !.run = task[c].run] /\ lease \in Lease
      BY <2>1 DEF Announce, Typed, TypeOK
    <3>2. task[c].run \in Nat
      BY DEF Typed, TypeOK, Task
    <3>3. lease' \in Lease /\ lease'.holder = lease.holder
      BY <3>1, <3>2 DEF Lease
    <3> QED
      BY <2>1, <3>3, Constants DEF Mine
  <2>2. CASE ~(lease # None /\ lease.holder = c)
    BY <2>2 DEF Announce, Mine
  <2> QED
    BY <2>1, <2>2
<1>5. /\ task'[c].pc = "wait" /\ task'[c].run = task[c].run
      /\ task'[c].keep = task[c].keep
      /\ \A d \in Consumers \ {c} : task'[d] = task[d]
  BY <1>3, GotoTyped
<1>6. \A d \in Consumers : Alive(d) = Alive(d)'
  BY <1>3 DEF Alive
<1>7. Alive(c) /\ Mine(c) /\ unstopped[c] = 0
  BY <1>3 DEF Guarded, Held
<1>8. /\ \A d \in Consumers : task'[d].pc # "free" => Alive(d)'
      /\ \A d \in Consumers : task'[d].pc \in Held => Mine(d)'
      /\ \A d \in Consumers :
            unstopped'[d] # 0 => task'[d].pc = "free" /\ Alive(d)' /\ Mine(d)'
  BY <1>3, <1>4, <1>5, <1>6, <1>7 DEF Guarded
<1>9. ASSUME NEW k \in DOMAIN runs', Prompt(k)'
      PROVE  Worker(runs[k].by, k)'
  <2>1. k \in DOMAIN runs /\ Prompt(k) /\ runs'[k].by = runs[k].by
    BY <1>2, <1>9 DEF Prompt, Live
  <2>2. runs \in Seq(Run) /\ runs[k] \in Run
    BY <2>1 DEF Typed, TypeOK
  <2>3. runs[k].by \in Consumers
    BY <2>2 DEF Run
  <2>4. Worker(runs[k].by, k)
    BY <2>1 DEF Guarded
  <2> QED
    BY <1>3, <1>5, <2>1, <2>3, <2>4 DEF Worker
<1> QED
  BY <1>8, <1>9 DEF Guarded

\* A step of one consumer, which leaves to the others what is theirs.
LEMMA GuardedOwn ==
    ASSUME Typed, Guarded, NEW c \in Consumers,
           \A d \in Consumers \ {c} :
              /\ task'[d] = task[d] /\ unstopped'[d] = unstopped[d]
              /\ Alive(d) => Alive(d)'
              /\ Mine(d) /\ Alive(d) => Mine(d)',
           task'[c].pc # "free" => Alive(c)',
           task'[c].pc \in Held => Mine(c)',
           unstopped'[c] # 0 => task'[c].pc = "free" /\ Alive(c)' /\ Mine(c)',
           \A k \in DOMAIN runs' : Prompt(k)' =>
              \/ runs'[k].by = c /\ Worker(c, k)'
              \/ /\ k \in DOMAIN runs /\ Prompt(k) /\ runs'[k].by = runs[k].by
                 /\ runs[k].by \in Consumers \ {c}
    PROVE  Guarded'
<1>1. \A d \in Consumers : task'[d].pc # "free" => Alive(d)'
  BY DEF Guarded
<1>2. \A d \in Consumers : task'[d].pc \in Held => Mine(d)'
  BY DEF Guarded, Held
<1>3. \A d \in Consumers :
          unstopped'[d] # 0 => task'[d].pc = "free" /\ Alive(d)' /\ Mine(d)'
  BY DEF Guarded
<1>4. ASSUME NEW k \in DOMAIN runs', Prompt(k)' PROVE Worker(runs[k].by, k)'
  <2>1. CASE runs'[k].by = c /\ Worker(c, k)'
    BY <2>1 DEF Worker
  <2>2. CASE /\ k \in DOMAIN runs /\ Prompt(k) /\ runs'[k].by = runs[k].by
             /\ runs[k].by \in Consumers \ {c}
    BY <2>2 DEF Worker, Guarded
  <2> QED
    BY <1>4, <2>1, <2>2
<1> QED
  BY <1>1, <1>2, <1>3, <1>4 DEF Guarded

\* The live runs, when a step leaves the runs as they are.
LEMMA OwnRuns ==
    ASSUME Typed, Guarded, NEW c \in Consumers, UNCHANGED runs,
           \A k \in DOMAIN runs :
              Prompt(k) /\ runs[k].by = c /\ Worker(c, k) => Worker(c, k)'
    PROVE  \A k \in DOMAIN runs' : Prompt(k)' =>
              \/ runs'[k].by = c /\ Worker(c, k)'
              \/ /\ k \in DOMAIN runs /\ Prompt(k) /\ runs'[k].by = runs[k].by
                 /\ runs[k].by \in Consumers \ {c}
<1> SUFFICES ASSUME NEW k \in DOMAIN runs', Prompt(k)'
             PROVE  \/ runs'[k].by = c /\ Worker(c, k)'
                    \/ /\ k \in DOMAIN runs /\ Prompt(k) /\ runs'[k].by = runs[k].by
                       /\ runs[k].by \in Consumers \ {c}
  OBVIOUS
<1>1. k \in DOMAIN runs /\ Prompt(k) /\ runs \in Seq(Run) /\ runs[k] \in Run
  BY DEF Prompt, Live, Typed, TypeOK
<1>2. runs[k].by \in Consumers
  BY <1>1 DEF Run
<1>3. Worker(runs[k].by, k)
  BY <1>1 DEF Guarded
<1> QED
  BY <1>1, <1>2, <1>3

LEMMA GuardedPoll ==
    ASSUME Typed, Guarded, NEW c \in Consumers, Poll(c)
    PROVE  Guarded'
<1>1. UNCHANGED <<runs, proc>> /\ \A d \in Consumers : Alive(d) /\ Alive(d)' <=> Alive(d)
  BY DEF Poll, Alive
<1>2. Alive(c)'
  BY DEF Poll, Alive
<1>3. \A d \in Consumers \ {c} : task'[d] = task[d] /\ unstopped'[d] = unstopped[d]
  BY DEF Poll, ReapUnstopped, SubmitDue, Typed, TypeOK
<1>4. \A d \in Consumers \ {c} : Mine(d) => Mine(d)'
  <2>1. CASE lease # None /\ lease.holder = c
    BY <2>1 DEF Mine
  <2>2. CASE ~(lease # None /\ lease.holder = c)
    BY <2>2 DEF Poll, ReapUnstopped, Stamp, Release, Mine
  <2> QED
    BY <2>1, <2>2
<1>5. CASE task[c].pc # "free"
  <2>1. UNCHANGED task /\ unstopped[c] = 0
    BY <1>5 DEF Poll, SubmitDue, Running, Guarded
  <2>2. unstopped'[c] = 0 /\ UNCHANGED lease
    BY <2>1 DEF Poll, ReapUnstopped, StillRuns, Typed, TypeOK
  <2>3. \A k \in DOMAIN runs :
           Prompt(k) /\ runs[k].by = c /\ Worker(c, k) => Worker(c, k)'
    BY <2>1, <2>2 DEF Worker
  <2>4. task'[c].pc \in Held => Mine(c)'
    BY <2>1, <2>2 DEF Guarded, Mine
  <2> QED
    BY <1>1, <1>2, <1>3, <1>4, <2>1, <2>2, <2>3, <2>4, OwnRuns, GuardedOwn
<1>6. CASE task[c].pc = "free" /\ StillRuns(c)
  <2>1. UNCHANGED <<task, unstopped>> /\ Stamp(c) /\ Mine(c)
    BY <1>6 DEF Poll, SubmitDue, ReapUnstopped, Guarded, StillRuns
  <2>2. Mine(c)'
    <3>1. lease \in Lease /\ lease' = [lease EXCEPT !.fresh = TRUE]
      BY <2>1 DEF Stamp, Mine, Typed, TypeOK
    <3>2. lease' \in Lease /\ lease'.holder = lease.holder
      BY <3>1 DEF Lease
    <3> QED
      BY <2>1, <3>2, Constants DEF Mine
  <2>3. \A k \in DOMAIN runs :
           Prompt(k) /\ runs[k].by = c /\ Worker(c, k) => Worker(c, k)'
    BY <2>1 DEF Worker
  <2> QED
    BY <1>1, <1>2, <1>3, <1>4, <1>6, <2>1, <2>2, <2>3, OwnRuns, GuardedOwn
<1>7. CASE task[c].pc = "free" /\ ~StillRuns(c)
  <2>1. unstopped'[c] = 0
    BY <1>7 DEF Poll, ReapUnstopped, Typed, TypeOK
  <2>2. task'[c].pc \in {"free", "acquire"} /\ "free" \notin Held /\ "acquire" \notin Held
    <3>1. task \in [Consumers -> Task] /\ task[c] \in Task
      BY DEF Typed, TypeOK
    <3>2. ASSUME NEW i PROVE [task EXCEPT ![c].pc = "acquire", ![c].item = i][c].pc = "acquire"
      BY <3>1 DEF Task
    <3> QED
      BY <1>7, <3>2 DEF Poll, SubmitDue, Held
  <2>3. \A k \in DOMAIN runs :
           Prompt(k) /\ runs[k].by = c /\ Worker(c, k) => Worker(c, k)'
    <3> SUFFICES ASSUME NEW k \in DOMAIN runs, Prompt(k), runs[k].by = c, Worker(c, k)
                 PROVE  FALSE
      OBVIOUS
    <3>1. unstopped[c] = k /\ k # 0
      BY <1>7 DEF Worker, Typed, TypeOK
    <3> QED
      BY <1>7, <3>1 DEF StillRuns, Prompt
  <2> QED
    BY <1>1, <1>2, <1>3, <1>4, <2>1, <2>2, <2>3, OwnRuns, GuardedOwn
<1> QED
  BY <1>5, <1>6, <1>7

LEMMA GuardedAcquire ==
    ASSUME Typed, Guarded, NEW c \in Consumers, Acquire(c)
    PROVE  Guarded'
<1>1. UNCHANGED <<runs, proc, unstopped>> /\ task[c].pc = "acquire" /\ Alive(c)
  BY DEF Acquire
<1>2. \A d \in Consumers : Alive(d)' = Alive(d)
  BY <1>1 DEF Alive
<1>3. unstopped'[c] = 0
  BY <1>1 DEF Guarded
<1>4. \A k \in DOMAIN runs :
         Prompt(k) /\ runs[k].by = c /\ Worker(c, k) => Worker(c, k)'
  <2>1. \A k \in DOMAIN runs : k # 0
    <3>1. runs \in Seq(Run)
      BY DEF Typed, TypeOK
    <3> QED
      BY <3>1
  <2>2. unstopped[c] = 0
    BY <1>1, <1>3
  <2>3. \A k \in DOMAIN runs : ~Worker(c, k)
    BY <1>1, <2>1, <2>2 DEF Worker
  <2> QED
    BY <2>3
<1>5. CASE LeaseBlocks(c)
  <2>1. task' = [task EXCEPT ![c] = NoTask] /\ UNCHANGED lease
    BY <1>5 DEF Acquire
  <2>2. task'[c].pc = "free" /\ "free" \notin Held
        /\ \A d \in Consumers \ {c} : task'[d] = task[d]
    BY <2>1, FreedTyped DEF Typed, TypeOK, Held
  <2> QED
    BY <1>1, <1>2, <1>3, <1>4, <2>1, <2>2, OwnRuns, GuardedOwn DEF Mine
<1>6. CASE ~LeaseBlocks(c)
  <2>1. /\ lease' = [holder |-> c, fresh |-> TRUE,
                     run |-> IF lease # None /\ lease.holder = c
                             THEN lease.run ELSE 0]
        /\ Goto(c, "held") /\ "held" \in Held
    BY <1>6 DEF Acquire, Held
  <2>2. (IF lease # None /\ lease.holder = c THEN lease.run ELSE 0) \in Nat
    BY DEF Typed, TypeOK, Lease
  <2>3. Mine(c)'
    <3>1. lease' \in Lease /\ lease'.holder = c
      BY <2>1, <2>2 DEF Lease
    <3> QED
      BY <3>1, Constants DEF Mine
  <2>4. \A d \in Consumers \ {c} : task'[d] = task[d]
    BY <2>1, GotoTyped
  <2>5. \A d \in Consumers \ {c} : Mine(d) /\ Alive(d) => Mine(d)'
    BY <1>6 DEF LeaseBlocks, Mine
  <2> QED
    BY <1>1, <1>2, <1>3, <1>4, <2>3, <2>4, <2>5, OwnRuns, GuardedOwn
<1> QED
  BY <1>5, <1>6

LEMMA GuardedLaunch ==
    ASSUME Typed, Guarded, NEW c \in Consumers, Launch(c)
    PROVE  Guarded'
<1>1. /\ UNCHANGED <<lease, proc, unstopped>> /\ task[c].pc = "gate" /\ Alive(c)
      /\ "announce" \in Held /\ "gate" \in Held
  BY DEF Launch, store, Held
<1>2. /\ Alive(c)' /\ Mine(c)' /\ unstopped'[c] = 0
      /\ \A d \in Consumers \ {c} :
            unstopped'[d] = unstopped[d] /\ (Alive(d) => Alive(d)') /\ (Mine(d) => Mine(d)')
  BY <1>1 DEF Guarded, Alive, Mine
<1>3. ASSUME NEW k \in DOMAIN runs', Prompt(k)'
      PROVE  \/ runs'[k].by = c /\ Worker(c, k)'
             \/ /\ k \in DOMAIN runs /\ Prompt(k) /\ runs'[k].by = runs[k].by
                /\ runs[k].by \in Consumers \ {c}
  <2>1. CASE k = Len(runs) + 1
    BY <2>1, Launched DEF Worker
  <2>2. CASE k \in DOMAIN runs
    <3>1. runs'[k] = runs[k] /\ runs \in Seq(Run) /\ runs[k] \in Run /\ k # 0
      BY <2>2, Launched DEF Typed, TypeOK
    <3>2. Prompt(k) /\ runs'[k].by = runs[k].by /\ runs[k].by \in Consumers
      BY <1>3, <3>1 DEF Prompt, Live, Run
    <3>3. Worker(runs[k].by, k)
      BY <2>2, <3>2 DEF Guarded
    <3>4. runs[k].by # c
      BY <1>1, <1>2, <3>1, <3>3 DEF Worker
    <3> QED
      BY <2>2, <3>2, <3>4
  <2> QED
    BY <1>3, <2>1, <2>2, Launched
<1> QED
  BY <1>1, <1>2, <1>3, Launched, GuardedOwn

LEMMA GuardedCloseTimedOut ==
    ASSUME Typed, Guarded, NEW c \in Consumers, CloseTimedOut(c)
    PROVE  Guarded'
<1>1. /\ UNCHANGED <<lease, proc, unstopped, runs>> /\ task[c].pc = "grace" /\ Alive(c)
      /\ "hopeless" \in Held /\ "grace" \in Held
  BY DEF CloseTimedOut, Held
<1>2. /\ Alive(c)' /\ Mine(c)' /\ unstopped'[c] = 0
      /\ \A d \in Consumers \ {c} :
            unstopped'[d] = unstopped[d] /\ (Alive(d) => Alive(d)') /\ (Mine(d) => Mine(d)')
  BY <1>1 DEF Guarded, Alive, Mine
<1>3. /\ task'[c].pc = "hopeless" /\ task'[c].run = task[c].run
      /\ task'[c].keep = Working(c, task[c].run)
      /\ \A d \in Consumers \ {c} : task'[d] = task[d]
  <2>1. task \in [Consumers -> Task] /\ task[c] \in Task
    BY DEF Typed, TypeOK
  <2> DEFINE t == [task[c] EXCEPT !.pc = "hopeless", !.keep = Working(c, task[c].run)]
  <2>2. /\ t.pc = "hopeless" /\ t.run = task[c].run
        /\ t.keep = Working(c, task[c].run)
    BY <2>1 DEF Task
  <2>3. task' = [task EXCEPT ![c] = t]
    BY DEF CloseTimedOut
  <2> HIDE DEF t
  <2> QED
    BY <2>1, <2>2, <2>3
<1>4. \A k \in DOMAIN runs :
         Prompt(k) /\ runs[k].by = c /\ Worker(c, k) => Worker(c, k)'
  <2> SUFFICES ASSUME NEW k \in DOMAIN runs, Prompt(k), runs[k].by = c, Worker(c, k)
               PROVE  Worker(c, k)'
    OBVIOUS
  <2>1. runs \in Seq(Run) /\ k # 0
    BY DEF Typed, TypeOK
  <2>2. task[c].run = k
    BY <1>1, <1>2, <2>1 DEF Worker
  <2>3. Working(c, task[c].run)
    BY <2>2, PromptRun
  <2> QED
    BY <1>3, <2>2, <2>3 DEF Worker
<1> QED
  BY <1>1, <1>2, <1>3, <1>4, OwnRuns, GuardedOwn

LEMMA GuardedRelease ==
    ASSUME Typed, Guarded, NEW c \in Consumers, ReleaseLease(c)
    PROVE  Guarded'
<1>1. /\ UNCHANGED <<proc, runs>> /\ task[c].pc = "release" /\ Alive(c)
      /\ "release" \in Held /\ "free" \notin Held
  BY DEF ReleaseLease, Held
<1>2. Alive(c)' /\ Mine(c) /\ unstopped[c] = 0 /\ \A d \in Consumers : Alive(d) => Alive(d)'
  BY <1>1 DEF Guarded, Alive
<1>3. task'[c].pc = "free" /\ \A d \in Consumers \ {c} : task'[d] = task[d]
  BY FreedTyped DEF ReleaseLease, Typed, TypeOK
<1>4. \A d \in Consumers \ {c} :
         unstopped'[d] = unstopped[d] /\ (Mine(d) => Mine(d)')
  BY <1>2 DEF ReleaseLease, Release, Mine, Typed, TypeOK
<1>5. ASSUME NEW k \in DOMAIN runs, Prompt(k), runs[k].by = c, Worker(c, k)
      PROVE  task[c].keep /\ task[c].run = k
  <2>1. runs \in Seq(Run) /\ k # 0
    BY <1>5 DEF Typed, TypeOK
  <2> QED
    BY <1>1, <1>2, <1>5, <2>1 DEF Worker
<1>6. CASE task[c].keep
  <2>1. unstopped'[c] = task[c].run /\ UNCHANGED lease
    BY <1>6 DEF ReleaseLease, Typed, TypeOK
  <2>2. \A k \in DOMAIN runs :
           Prompt(k) /\ runs[k].by = c /\ Worker(c, k) => Worker(c, k)'
    BY <1>5, <2>1 DEF Worker
  <2>3. Mine(c)'
    BY <1>2, <2>1 DEF Mine
  <2> QED
    BY <1>1, <1>2, <1>3, <1>4, <2>2, <2>3, OwnRuns, GuardedOwn
<1>7. CASE ~task[c].keep
  <2>1. unstopped'[c] = 0
    BY <1>2, <1>7 DEF ReleaseLease
  <2> QED
    BY <1>1, <1>2, <1>3, <1>4, <1>5, <1>7, <2>1, OwnRuns, GuardedOwn
<1> QED
  BY <1>6, <1>7

LEMMA GuardedStopEnds ==
    ASSUME Typed, Guarded, NEW c \in Consumers, StopEnds(c)
    PROVE  Guarded'
<1>1. UNCHANGED <<lease, runs, unstopped>> /\ proc[c] = "stopping" /\ Alive(c)
  BY DEF StopEnds, store, Alive
<1>2. PICK left \in {task[c], NoTask} :
          /\ left = task[c] \/ task[c].pc = "acquire"
          /\ task' = [task EXCEPT ![c] = left]
          /\ proc' = [proc EXCEPT ![c] =
                IF poll[c].pc = "idle" /\ left.pc = "free" /\ unstopped[c] = 0
                THEN "gone" ELSE "lingering"]
  BY DEF StopEnds
<1>3. /\ task'[c] = left /\ \A d \in Consumers \ {c} : task'[d] = task[d]
      /\ NoTask.pc = "free" /\ "free" \notin Held
  BY <1>2, FreedTyped DEF Typed, TypeOK, Held
<1>4. /\ \A d \in Consumers \ {c} : (Alive(d) => Alive(d)') /\ (Mine(d) => Mine(d)')
      /\ Mine(c) => Mine(c)'
  BY <1>1, <1>2 DEF Alive, Mine, Typed, TypeOK
<1>5. left.pc # "free" \/ unstopped[c] # 0 => Alive(c)'
  BY <1>2 DEF Alive, Typed, TypeOK
<1>6. left.pc \in Held => Mine(c)'
  BY <1>2, <1>3, <1>4 DEF Guarded
<1>7. unstopped'[c] # 0 => left.pc = "free" /\ Alive(c)' /\ Mine(c)'
  BY <1>1, <1>2, <1>3, <1>4, <1>5 DEF Guarded
<1>8. \A k \in DOMAIN runs :
         Prompt(k) /\ runs[k].by = c /\ Worker(c, k) => Worker(c, k)'
  BY <1>1, <1>2, <1>3 DEF Worker
<1> QED
  BY <1>1, <1>3, <1>4, <1>5, <1>6, <1>7, <1>8, OwnRuns, GuardedOwn

LEMMA GuardedEnds ==
    ASSUME Typed, Guarded, NEW c \in Consumers, Exit(c) \/ Die(c)
    PROVE  Guarded'
<1>1. Ends(c) /\ UNCHANGED lease
  BY DEF Exit, Die, store
<1>2. SameRuns
  BY <1>1, RunsKept
<1>3. /\ task'[c].pc = "free" /\ unstopped'[c] = 0 /\ "free" \notin Held
      /\ \A d \in Consumers \ {c} :
            /\ task'[d] = task[d] /\ unstopped'[d] = unstopped[d]
            /\ Alive(d) => Alive(d)'
            /\ Mine(d) => Mine(d)'
  BY <1>1, FreedTyped DEF Ends, Alive, Mine, Typed, TypeOK, Held
<1>4. ASSUME NEW k \in DOMAIN runs', Prompt(k)'
      PROVE  /\ k \in DOMAIN runs /\ Prompt(k) /\ runs'[k].by = runs[k].by
             /\ runs[k].by \in Consumers \ {c}
  <2>1. k \in DOMAIN runs /\ Prompt(k) /\ runs'[k].by = runs[k].by
    BY <1>2, <1>4 DEF SameRuns, Prompt, Live
  <2>2. runs \in Seq(Run) /\ runs[k] \in Run
    BY <2>1 DEF Typed, TypeOK
  <2>3. runs[k].by # c
    <3> SUFFICES ASSUME Working(c, k) PROVE FALSE
      BY <2>1, PromptRun
    <3>1. runs'[k] = [runs[k] EXCEPT !.st = "ended"]
      BY <1>1, <2>1 DEF Ends
    <3>2. runs'[k].st = "ended"
      BY <2>2, <3>1 DEF Run
    <3> QED
      BY <1>4, <3>2 DEF Prompt, Live
  <2> QED
    BY <2>1, <2>2, <2>3 DEF Run
<1> QED
  BY <1>3, <1>4, GuardedOwn

LEMMA NextGuarded == Typed /\ Guarded /\ [Next]_vars => Guarded'
<1> SUFFICES ASSUME Typed, Guarded, [Next]_vars PROVE Guarded'
  OBVIOUS
<1>1. ASSUME NEW c \in Consumers, Coordinator(c) \/ Refresh(c) \/ Boot(c) \/ Stop(c)
      PROVE  Guarded'
  BY <1>1, GuardedPoll, GuardedQuiet DEF Coordinator
<1>2. ASSUME NEW c \in Consumers, Executor(c) \/ TurnBack(c) \/ TimeOut(c)
      PROVE  Guarded'
  BY <1>2, GuardedAcquire, GuardedHeld, GuardedLaunch, GuardedAnnounce,
     GuardedCloseTimedOut, GuardedRelease DEF Executor
<1>3. CASE \/ \E k \in DOMAIN runs :
                 RunEnds(k) \/ \E c \in Consumers : StartWaiting(c, k)
           \/ \E r \in Rows : OwnerEdits(r)
           \/ Lapse \/ Tick \/ UNCHANGED vars
  BY <1>3, GuardedQuiet
<1> QED
  BY <1>1, <1>2, <1>3, GuardedStopEnds, GuardedEnds DEF Next

LEMMA SpecGuarded == Spec => [](Typed /\ Guarded)
<1>1. Init => Typed /\ Guarded
  BY InitTyped, InitGuarded
<1>2. Typed /\ Guarded /\ [Next]_vars => (Typed /\ Guarded)'
  BY NextTyped, NextGuarded
<1> QED
  BY <1>1, <1>2, PTL DEF Spec

\* Runs of one agent that had not to wait for the workspace never overlap: whoever
\* works on one holds the agent's lease, and there is one lease; a lease that expired
\* is not taken from a holder that lives.
THEOREM OneRunPerAgentHolds == Spec => []OneRunPerAgent
<1>1. Typed /\ Guarded => OneRunPerAgent
  <2> SUFFICES ASSUME Typed, Guarded, NEW j \in DOMAIN runs, NEW k \in DOMAIN runs,
                      Prompt(j), Prompt(k)
               PROVE  j = k
    BY DEF OneRunPerAgent, Prompt
  <2>1. runs \in Seq(Run) /\ runs[j] \in Run /\ runs[k] \in Run /\ j # 0 /\ k # 0
    BY DEF Typed, TypeOK
  <2>2. runs[j].by \in Consumers /\ runs[k].by \in Consumers
    BY <2>1 DEF Run
  <2>3. Worker(runs[j].by, j) /\ Worker(runs[k].by, k)
    BY DEF Guarded
  <2>4. Mine(runs[j].by) /\ Mine(runs[k].by)
    BY <2>1, <2>2, <2>3 DEF Guarded, Worker, Held
  <2>5. runs[j].by = runs[k].by
    BY <2>4 DEF Mine
  <2> QED
    BY <2>1, <2>2, <2>3, <2>5 DEF Worker, Guarded
<1> QED
  BY <1>1, SpecGuarded, PTL
-----------------------------------------------------------------------------
(* What never comes back: a claimed instant, a retired row, a process gone *)

LEMMA FenceGrows ==
    ASSUME Typed, [Next]_vars
    PROVE  \A r \in Rows : fence[r] \subseteq fence'[r]
<1> USE DEF vars, store, attempts
<1>1. ASSUME NEW c \in Consumers, Skip(c) \/ ClaimAttempt(c), ~UNCHANGED fence
      PROVE  \A r \in Rows : fence[r] \subseteq fence'[r]
  <2>1. \E r, due : Claim(r, due)
    BY <1>1 DEF Skip, ClaimAttempt
  <2>2. PICK r, due : fence' = [fence EXCEPT ![r] = @ \cup {due}]
    BY <2>1 DEF Claim
  <2> QED
    BY <2>2 DEF Typed, TypeOK
<1>2. CASE UNCHANGED fence
  BY <1>2
<1>3. CASE ~UNCHANGED fence
  <2>1. PICK c \in Consumers : Skip(c) \/ ClaimAttempt(c)
    BY <1>3 DEF Next, Coordinator, Executor, Boot, Poll, CloseSkipped, CancelPrevious,
       Acquire, Refresh, TurnBack, GiveUp, CloseStale, Refuse, PauseRefused, FailEarly,
       Launch, Announce, Await, TimeOut, CloseTimedOut, PauseIfHopeless, SpendWake,
       ReleaseLease, RunEnds, StartWaiting, Stop, StopEnds, Exit, Die, OwnerEdits, Lapse, Tick
  <2> QED
    BY <1>1, <1>3, <2>1
<1> QED
  BY <1>2, <1>3

LEMMA GoneStays ==
    ASSUME Typed, [Next]_vars
    PROVE  \A c \in Consumers : proc[c] = "gone" => proc'[c] = "gone"
<1> USE DEF vars, store
<1>1. ASSUME NEW c \in Consumers,
             Boot(c) \/ Stop(c) \/ StopEnds(c) \/ Exit(c) \/ Die(c)
      PROVE  \A d \in Consumers : proc[d] = "gone" => proc'[d] = "gone"
  BY <1>1 DEF Boot, Stop, StopEnds, Exit, Die, Ends, Alive, Typed, TypeOK
<1>2. CASE UNCHANGED proc
  BY <1>2
<1>3. CASE ~UNCHANGED proc
  <2>1. PICK c \in Consumers : Boot(c) \/ Stop(c) \/ StopEnds(c) \/ Exit(c) \/ Die(c)
    BY <1>3 DEF Next, Coordinator, Executor, Poll, Skip, CloseSkipped, CancelPrevious,
       Acquire, Refresh, TurnBack, GiveUp, ClaimAttempt, CloseStale, Refuse,
       PauseRefused, FailEarly, Launch, Announce, Await, TimeOut, CloseTimedOut,
       PauseIfHopeless, SpendWake, ReleaseLease, RunEnds, StartWaiting, OwnerEdits, Lapse, Tick
  <2> QED
    BY <1>1, <2>1
<1> QED
  BY <1>2, <1>3

LEMMA RetiredStays ==
    ASSUME Typed, [Next]_vars
    PROVE  \A r \in Rows : state[r] = "retired" => state'[r] = "retired"
<1> USE DEF vars, store, rows
<1>1. ASSUME NEW r, NEW new, Becomes(r, new), state[r] = "retired" => new = "retired"
      PROVE  \A q \in Rows : state[q] = "retired" => state'[q] = "retired"
  BY <1>1 DEF Becomes, Typed, TypeOK
<1>2. \A r, ran : state[r] = "retired" => Paused(r) = "retired" /\ Spent(r, ran) = "retired"
  BY DEF Paused, Spent
<1>3. ASSUME NEW c \in Consumers,
             GiveUp(c) \/ PauseRefused(c) \/ Announce(c) \/ PauseIfHopeless(c) \/ SpendWake(c)
      PROVE  \A r \in Rows : state[r] = "retired" => state'[r] = "retired"
  <2>1. CASE GiveUp(c)
    BY <1>1, <1>2, <2>1 DEF GiveUp
  <2>2. CASE PauseRefused(c)
    BY <1>1, <1>2, <2>2 DEF PauseRefused
  <2>3. CASE Announce(c)
    BY <1>1, <1>2, <2>3 DEF Announce
  <2>4. CASE PauseIfHopeless(c)
    <3>1. PICK pause \in BOOLEAN :
             Becomes(task[c].item.row, IF pause THEN Paused(task[c].item.row)
                                       ELSE state[task[c].item.row])
      BY <2>4 DEF PauseIfHopeless
    <3> QED
      BY <1>1, <1>2, <3>1
  <2>5. CASE SpendWake(c)
    BY <1>1, <1>2, <2>5 DEF SpendWake
  <2> QED
    BY <1>3, <2>1, <2>2, <2>3, <2>4, <2>5
<1>4. ASSUME NEW r \in Rows, OwnerEdits(r)
      PROVE  \A q \in Rows : state[q] = "retired" => state'[q] = "retired"
  BY <1>1, <1>4 DEF OwnerEdits
<1>5. CASE UNCHANGED state
  BY <1>5
<1>6. CASE ~UNCHANGED state
  <2>1. \/ \E c \in Consumers : GiveUp(c) \/ PauseRefused(c) \/ Announce(c)
                               \/ PauseIfHopeless(c) \/ SpendWake(c)
        \/ \E r \in Rows : OwnerEdits(r)
    BY <1>6 DEF Next, Coordinator, Executor, Boot, Poll, Skip, CloseSkipped,
       CancelPrevious, Acquire, Refresh, TurnBack, ClaimAttempt, CloseStale, Refuse,
       FailEarly, Launch, Await, TimeOut, CloseTimedOut, ReleaseLease, RunEnds, StartWaiting,
       Stop, StopEnds, Exit, Die, Lapse, Tick, Finish
  <2> QED
    BY <1>3, <1>4, <2>1
<1> QED
  BY <1>5, <1>6
-----------------------------------------------------------------------------
(* Every run answers to a claim of its own                                 *)

\* The run a thread has started and not yet told of.
Untold(c, k) == task[c].pc = "announce" /\ task[c].run = k

\* A row's instant is claimed, and no earlier run stands for it.
Unrun(r, due) ==
    /\ due \in fence[r]
    /\ \A k \in DOMAIN runs : runs[k].row = r =>
          /\ runs[k].due # due
          /\ r \in Wakes => ~runs[k].told /\ proc[runs[k].by] = "gone"

Fenced ==
    /\ \A k \in DOMAIN runs : runs[k].due \in fence[runs[k].row]
    /\ \A c \in Consumers :
          task[c].pc = "gate" => Unrun(task[c].item.row, task[c].item.due)
    /\ \A c \in Consumers : task[c].pc = "announce" =>
          /\ runs[task[c].run].by = c
          /\ runs[task[c].run].row = task[c].item.row
    /\ \A k \in DOMAIN runs :
          runs[k].told /\ runs[k].row \in Wakes => state[runs[k].row] = "retired"
    /\ \A k \in DOMAIN runs :
          ~runs[k].told => proc[runs[k].by] = "gone" \/ Untold(runs[k].by, k)
    /\ WorkRunsOnce

LEMMA InitFenced == Init => Fenced
BY DEF Init, Fenced, WorkRunsOnce, NoTask

\* What an executor thread may do at its gate and before it tells of its run.
Onward(c) ==
    /\ task'[c].pc \in {"gate", "announce"} => task'[c] = task[c]
    /\ task[c].pc = "announce" => task'[c] = task[c] \/ proc'[c] = "gone"

\* The steps that neither claim, launch nor announce.
LEMMA OnwardSteps ==
    ASSUME Typed, [Next]_vars,
           ~\E c \in Consumers : ClaimAttempt(c) \/ Launch(c) \/ Announce(c)
    PROVE  SameRuns /\ \A c \in Consumers : Onward(c)
<1> USE DEF vars, store, threads
<1>1. ASSUME NEW c \in Consumers, NEW step \in Held \ {"gate", "announce"},
             Goto(c, step), task[c].pc # "announce"
      PROVE  \A d \in Consumers : Onward(d)
  BY <1>1, GotoTyped DEF Onward
<1>2. ASSUME UNCHANGED task PROVE \A d \in Consumers : Onward(d)
  BY <1>2 DEF Onward
<1>3. {"held", "stale", "wait", "grace", "refused", "hopeless", "spend", "release"}
         \subseteq Held \ {"gate", "announce"}
  BY DEF Held
<1>4. ASSUME NEW c \in Consumers, Poll(c) PROVE \A d \in Consumers : Onward(d)
  <2>1. CASE UNCHANGED task
    BY <1>2, <2>1
  <2>2. CASE ~UNCHANGED task
    <3>1. PICK i \in DueItems(now) :
            task' = [task EXCEPT ![c].pc = "acquire", ![c].item = i]
      BY <1>4, <2>2 DEF Poll, SubmitDue
    <3>2. task \in [Consumers -> Task] /\ task[c] \in Task /\ task[c].pc = "free"
      BY <1>4, <2>2 DEF Typed, TypeOK, Poll, SubmitDue, Running
    <3>3. task'[c].pc = "acquire" /\ \A d \in Consumers \ {c} : task'[d] = task[d]
      BY <3>1, <3>2 DEF Task
    <3> QED
      BY <3>2, <3>3 DEF Onward
  <2> QED
    BY <2>1, <2>2
<1>5. ASSUME NEW c \in Consumers, Acquire(c) \/ ReleaseLease(c)
      PROVE  \A d \in Consumers : Onward(d)
  <2>1. CASE task' = [task EXCEPT ![c] = NoTask]
    <3>1. task[c].pc # "announce"
      BY <1>5 DEF Acquire, ReleaseLease
    <3> QED
      BY <2>1, <3>1, FreedTyped DEF Onward, Typed, TypeOK
  <2>2. CASE Goto(c, "held")
    BY <1>1, <1>3, <1>5, <2>2 DEF Acquire, ReleaseLease
  <2> QED
    BY <1>5, <2>1, <2>2 DEF Acquire, ReleaseLease
<1>6. ASSUME NEW c \in Consumers,
             \/ TurnBack(c) \/ GiveUp(c) \/ CloseStale(c) \/ Refuse(c) \/ PauseRefused(c)
             \/ FailEarly(c) \/ Await(c) \/ PauseIfHopeless(c) \/ SpendWake(c) \/ TimeOut(c)
      PROVE  \A d \in Consumers : Onward(d)
  <2>1. PICK step \in {"stale", "grace", "refused", "hopeless", "spend", "release"} :
            Goto(c, step) /\ task[c].pc # "announce"
    BY <1>6 DEF TurnBack, GiveUp, CloseStale, Refuse, PauseRefused, FailEarly, Await,
       PauseIfHopeless, SpendWake, TimeOut
  <2> QED
    BY <1>1, <1>3, <2>1
<1>7. ASSUME NEW c \in Consumers, CloseTimedOut(c) PROVE \A d \in Consumers : Onward(d)
  <2>1. task \in [Consumers -> Task] /\ task[c] \in Task /\ task[c].pc = "grace"
    BY <1>7 DEF Typed, TypeOK, CloseTimedOut
  <2> DEFINE t == [task[c] EXCEPT !.pc = "hopeless", !.keep = Working(c, task[c].run)]
  <2>2. t.pc = "hopeless"
    BY <2>1 DEF Task
  <2>3. task' = [task EXCEPT ![c] = t]
    BY <1>7 DEF CloseTimedOut
  <2> HIDE DEF t
  <2> QED
    BY <2>1, <2>2, <2>3 DEF Onward
<1>8. ASSUME NEW c \in Consumers, StopEnds(c) PROVE \A d \in Consumers : Onward(d)
  <2>1. PICK left \in {task[c], NoTask} :
            /\ left = task[c] \/ task[c].pc = "acquire"
            /\ task' = [task EXCEPT ![c] = left]
    BY <1>8 DEF StopEnds
  <2>2. /\ task'[c] = left /\ \A d \in Consumers \ {c} : task'[d] = task[d]
        /\ NoTask.pc = "free"
    BY <2>1, FreedTyped DEF Typed, TypeOK
  <2> QED
    BY <2>1, <2>2 DEF Onward
<1>9. ASSUME NEW c \in Consumers, Exit(c) \/ Die(c)
      PROVE  \A d \in Consumers : Onward(d)
  <2>1. proc'[c] = "gone" /\ task' = [task EXCEPT ![c] = NoTask]
    BY <1>9 DEF Exit, Die, Ends, Typed, TypeOK
  <2> QED
    BY <2>1, FreedTyped DEF Onward, Typed, TypeOK
<1>10. \A c \in Consumers : Onward(c)
  BY <1>2, <1>4, <1>5, <1>6, <1>7, <1>8, <1>9 DEF Next, Coordinator, Executor, Boot,
     Skip, CloseSkipped, CancelPrevious, Refresh, RunEnds, StartWaiting, Stop,
     OwnerEdits, Lapse, Tick
<1>11. SameRuns
  BY RunsKept DEF Next, Coordinator, Executor, Boot, Poll, Skip, CloseSkipped,
     Acquire, Refresh, TurnBack, GiveUp, CloseStale, Refuse, PauseRefused, FailEarly,
     Await, CloseTimedOut, PauseIfHopeless, SpendWake, ReleaseLease, StopEnds, Exit,
     Die, OwnerEdits, Lapse, Tick
<1> QED
  BY <1>10, <1>11

LEMMA RunFacts ==
    ASSUME Typed, NEW k \in DOMAIN runs
    PROVE  /\ runs[k] \in Run /\ k \in Nat \ {0}
           /\ runs[k].row \in Rows /\ runs[k].by \in Consumers /\ runs[k].told \in BOOLEAN
<1>1. runs \in Seq(Run)
  BY DEF Typed, TypeOK
<1>2. runs[k] \in Run /\ k \in Nat \ {0}
  BY <1>1
<1> QED
  BY <1>2 DEF Run

\* The runs are the same, what was claimed, retired or gone still is.
LEMMA FencedOnward ==
    ASSUME Typed, Fenced, SameRuns, \A c \in Consumers : Onward(c),
           \A r \in Rows : fence[r] \subseteq fence'[r],
           \A r \in Rows : state[r] = "retired" => state'[r] = "retired",
           \A c \in Consumers : proc[c] = "gone" => proc'[c] = "gone"
    PROVE  Fenced'
<1>1. \A k \in DOMAIN runs' : runs'[k].due \in fence'[runs'[k].row]
  BY RunFacts DEF Fenced, SameRuns
<1>2. ASSUME NEW c \in Consumers, task'[c].pc = "gate"
      PROVE  /\ task'[c].item.due \in fence'[task'[c].item.row]
             /\ \A k \in DOMAIN runs' : runs'[k].row = task'[c].item.row =>
                   /\ runs'[k].due # task'[c].item.due
                   /\ task'[c].item.row \in Wakes =>
                         ~runs'[k].told /\ proc'[runs'[k].by] = "gone"
  <2>1. task'[c] = task[c] /\ task[c].pc = "gate"
    BY <1>2 DEF Onward
  <2>2. task[c].item.row \in Rows
    BY <2>1 DEF Typed, Linked, Items
  <2>3. Unrun(task[c].item.row, task[c].item.due)
    BY <2>1 DEF Fenced
  <2> QED
    BY <2>1, <2>2, <2>3, RunFacts DEF Unrun, SameRuns
<1>3. ASSUME NEW c \in Consumers, task'[c].pc = "announce"
      PROVE  runs'[task'[c].run].by = c /\ runs'[task'[c].run].row = task'[c].item.row
  <2>1. task'[c] = task[c] /\ task[c].pc = "announce"
    BY <1>3 DEF Onward
  <2>2. task[c].run \in DOMAIN runs
    BY <2>1 DEF Typed, TypeOK, Linked
  <2> QED
    BY <2>1, <2>2 DEF Fenced, SameRuns
<1>4. \A k \in DOMAIN runs' :
         runs'[k].told /\ runs'[k].row \in Wakes => state'[runs'[k].row] = "retired"
  BY RunFacts DEF Fenced, SameRuns
<1>5. ASSUME NEW k \in DOMAIN runs', ~runs'[k].told
      PROVE  proc'[runs'[k].by] = "gone"
             \/ (task'[runs'[k].by].pc = "announce" /\ task'[runs'[k].by].run = k)
  <2>1. k \in DOMAIN runs /\ ~runs[k].told
    BY <1>5 DEF SameRuns
  <2>2. PICK b \in Consumers : runs[k].by = b /\ runs'[k].by = b
    BY <2>1, RunFacts DEF SameRuns
  <2>3. (proc[b] = "gone" \/ Untold(b, k)) /\ Onward(b)
    BY <2>1, <2>2 DEF Fenced
  <2>4. CASE proc[b] = "gone"
    BY <2>2, <2>4
  <2>5. CASE Untold(b, k)
    BY <2>2, <2>3, <2>5 DEF Untold, Onward
  <2> QED
    BY <2>3, <2>4, <2>5
<1>6. WorkRunsOnce'
  BY RunFacts DEF Fenced, WorkRunsOnce, SameRuns
<1> QED
  BY <1>1, <1>2, <1>3, <1>4, <1>5, <1>6 DEF Fenced, Unrun, Untold

\* Of two threads at work under the lease there is only one.
LEMMA Alone ==
    ASSUME Guarded, NEW c \in Consumers, NEW d \in Consumers,
           task[c].pc \in Held, task[d].pc \in Held
    PROVE  c = d
BY DEF Guarded, Mine

LEMMA FencedClaim ==
    ASSUME Typed, Guarded, Fenced, NEW c \in Consumers, ClaimAttempt(c),
           \A r \in Rows : fence[r] \subseteq fence'[r]
    PROVE  Fenced'
<1> DEFINE i == task[c].item
<1>1. /\ UNCHANGED <<state, runs, proc>> /\ task[c].pc = "held"
      /\ {"held", "gate", "stale", "release", "announce"} \subseteq Held
  BY DEF ClaimAttempt, rows, Held
<1>2. PICK step \in {"gate", "stale", "release"} : Goto(c, step)
  BY DEF ClaimAttempt
<1>3. /\ task'[c].pc = step /\ task'[c].item = i
      /\ \A d \in Consumers \ {c} : task'[d] = task[d]
  BY <1>1, <1>2, GotoTyped
<1>4. \A d \in Consumers : task[d].pc \notin {"gate", "announce"}
  BY <1>1, Alone
<1>5. \A k \in DOMAIN runs : runs[k].row \in Rows /\ runs[k].due \in fence'[runs[k].row]
  BY RunFacts DEF Fenced
<1>6. ASSUME NEW d \in Consumers, task'[d].pc = "gate"
      PROVE  /\ task'[d].item.due \in fence'[task'[d].item.row]
             /\ \A k \in DOMAIN runs : runs[k].row = task'[d].item.row =>
                   /\ runs[k].due # task'[d].item.due
                   /\ task'[d].item.row \in Wakes =>
                         ~runs[k].told /\ proc[runs[k].by] = "gone"
  <2>1. d = c /\ task'[d].item = i /\ step = "gate"
    BY <1>3, <1>4, <1>6
  <2>2. i \in Items /\ i.row \in Rows
    BY <1>1 DEF Typed, Linked, Items
  <2>3. Unclaimed(i) /\ Claim(i.row, i.due) /\ state[i.row] = "active"
    <3>1. ~Goto(c, "release") /\ ~Goto(c, "stale")
      BY <1>1, <2>1, GotoTyped, <1>3
    <3> QED
      BY <3>1 DEF ClaimAttempt
  <2>4. i.due \in fence'[i.row]
    BY <2>2, <2>3 DEF Claim, Typed, TypeOK
  <2>5. ASSUME NEW k \in DOMAIN runs, runs[k].row = i.row
        PROVE  /\ runs[k].due # i.due
               /\ i.row \in Wakes => ~runs[k].told /\ proc[runs[k].by] = "gone"
    <3>1. runs[k].due \in fence[i.row] /\ i.due \notin fence[i.row]
      BY <2>3, <2>5 DEF Fenced, Unclaimed
    <3>2. i.row \in Wakes => ~runs[k].told
      BY <2>3, <2>5 DEF Fenced
    <3>3. ~runs[k].told => proc[runs[k].by] = "gone"
      BY <1>4, RunFacts DEF Fenced, Untold
    <3> QED
      BY <3>1, <3>2, <3>3
  <2> QED
    BY <2>1, <2>4, <2>5
<1>7. \A d \in Consumers : task'[d].pc # "announce"
  BY <1>3, <1>4
<1>8. \A k \in DOMAIN runs : ~runs[k].told => proc[runs[k].by] = "gone"
  BY <1>4, RunFacts DEF Fenced, Untold
<1>9. WorkRunsOnce'
  BY <1>1 DEF Fenced, WorkRunsOnce
<1> QED
  BY <1>1, <1>5, <1>6, <1>7, <1>8, <1>9 DEF Fenced, Unrun, Untold

LEMMA FencedLaunch ==
    ASSUME Typed, Guarded, Fenced, NEW c \in Consumers, Launch(c)
    PROVE  Fenced'
<1> DEFINE i == task[c].item
           n == Len(runs) + 1
<1>1. /\ UNCHANGED <<state, fence, proc>> /\ task[c].pc = "gate"
      /\ {"gate", "announce"} \subseteq Held
  BY DEF Launch, store, rows, attempts, Held
<1>2. Unrun(i.row, i.due)
  BY <1>1 DEF Fenced
<1>3. /\ DOMAIN runs' = DOMAIN runs \cup {n}
      /\ \A k \in DOMAIN runs : runs'[k] = runs[k] /\ k # n /\ k < n
      /\ runs'[n].row = i.row /\ runs'[n].due = i.due /\ runs'[n].by = c /\ ~runs'[n].told
  <2>1. \A k \in DOMAIN runs : k < n
    <3>1. runs \in Seq(Run)
      BY DEF Typed, TypeOK
    <3> QED
      BY <3>1
  <2> QED
    BY <2>1, Launched
<1>4. /\ task'[c].pc = "announce" /\ task'[c].item = i /\ task'[c].run = n
      /\ \A d \in Consumers \ {c} : task'[d] = task[d]
  BY Launched
<1> HIDE DEF i, n
<1>5. \A d \in Consumers : d # c => task'[d].pc \notin {"gate", "announce"}
  BY <1>1, <1>4, Alone
<1>6. \A k \in DOMAIN runs' : runs'[k].due \in fence'[runs'[k].row]
  BY <1>1, <1>2, <1>3 DEF Fenced, Unrun
<1>7. \A d \in Consumers : task'[d].pc # "gate"
  BY <1>4, <1>5
<1>8. \A d \in Consumers : task'[d].pc = "announce" =>
          runs'[task'[d].run].by = d /\ runs'[task'[d].run].row = task'[d].item.row
  BY <1>3, <1>4, <1>5
<1>9. \A k \in DOMAIN runs' :
         runs'[k].told /\ runs'[k].row \in Wakes => state'[runs'[k].row] = "retired"
  BY <1>1, <1>3 DEF Fenced
<1>10. ASSUME NEW k \in DOMAIN runs', ~runs'[k].told
       PROVE  proc'[runs'[k].by] = "gone"
              \/ (task'[runs'[k].by].pc = "announce" /\ task'[runs'[k].by].run = k)
  <2>1. CASE k = n
    BY <1>3, <1>4, <2>1
  <2>2. CASE k \in DOMAIN runs
    <3>1. PICK b \in Consumers : runs[k].by = b /\ runs'[k].by = b
      BY <1>3, <2>2, RunFacts
    <3>2. proc[b] = "gone" \/ Untold(b, k)
      BY <1>3, <1>10, <2>2, <3>1 DEF Fenced
    <3>3. CASE proc[b] = "gone"
      BY <1>1, <3>1, <3>3
    <3>4. CASE Untold(b, k)
      <4>1. b = c
        BY <1>1, <3>4, Alone DEF Untold
      <4> QED
        BY <1>1, <3>4, <4>1 DEF Untold
    <3> QED
      BY <3>2, <3>3, <3>4
  <2> QED
    BY <1>3, <1>10, <2>1, <2>2
<1>11. WorkRunsOnce'
  <2> SUFFICES ASSUME NEW j \in DOMAIN runs', NEW k \in DOMAIN runs',
                      j < k, runs'[j].row = runs'[k].row
               PROVE  /\ runs'[j].due # runs'[k].due
                      /\ runs'[j].row \in Wakes =>
                            ~runs'[j].told /\ proc'[runs'[j].by] = "gone"
    BY DEF WorkRunsOnce
  <2>1. j # n /\ j \in DOMAIN runs
    <3>1. n \in Nat /\ runs \in Seq(Run)
      BY DEF Typed, TypeOK, n
    <3> QED
      BY <1>3, <3>1
  <2>2. CASE k = n
    BY <1>1, <1>2, <1>3, <2>1, <2>2 DEF Unrun
  <2>3. CASE k \in DOMAIN runs
    BY <1>1, <1>3, <2>1, <2>3 DEF Fenced, WorkRunsOnce
  <2> QED
    BY <1>3, <2>2, <2>3
<1> QED
  BY <1>6, <1>7, <1>8, <1>9, <1>10, <1>11 DEF Fenced, Untold

LEMMA FencedAnnounce ==
    ASSUME Typed, Guarded, Fenced, NEW c \in Consumers, Announce(c),
           \A r \in Rows : state[r] = "retired" => state'[r] = "retired"
    PROVE  Fenced'
<1> DEFINE n == task[c].run
           w == task[c].item.row
<1>1. /\ UNCHANGED <<fence, proc>> /\ task[c].pc = "announce" /\ Alive(c)
      /\ {"announce", "gate", "wait"} \subseteq Held /\ Goto(c, "wait")
      /\ Becomes(w, Spent(w, TRUE))
  BY DEF Announce, attempts, Held
<1>2. /\ task'[c].pc = "wait" /\ \A d \in Consumers \ {c} : task'[d] = task[d]
  BY <1>1, GotoTyped
<1>3. \A d \in Consumers : task'[d].pc \notin {"gate", "announce"}
  BY <1>1, <1>2, Alone
<1>4. n \in DOMAIN runs /\ DOMAIN runs' = DOMAIN runs
  BY Told
<1>5. runs[n].by = c /\ runs[n].row = w /\ w \in Rows
  BY <1>1, <1>4, RunFacts DEF Fenced
<1>6. /\ runs'[n].told
      /\ \A k \in DOMAIN runs : runs'[k].row = runs[k].row /\ runs'[k].due = runs[k].due
                               /\ runs'[k].by = runs[k].by
      /\ \A k \in DOMAIN runs : k # n => runs'[k].told = runs[k].told
  <2> DEFINE e == [runs[n] EXCEPT !.told = TRUE]
  <2>1. runs[n] \in Run
    BY <1>4, RunFacts
  <2>2. e.told /\ e.row = runs[n].row /\ e.due = runs[n].due /\ e.by = runs[n].by
    BY <2>1 DEF Run
  <2>3. runs' = [runs EXCEPT ![n] = e] /\ runs \in Seq(Run)
    BY Told DEF Typed, TypeOK
  <2> HIDE DEF e, n
  <2>4. runs'[n] = e /\ \A k \in DOMAIN runs : k # n => runs'[k] = runs[k]
    BY <1>4, <2>3
  <2> QED
    BY <2>2, <2>4
<1>7. w \in Wakes => state'[w] = "retired"
  BY <1>1, <1>5 DEF Becomes, Spent, Typed, TypeOK
<1> HIDE DEF n, w
<1>8. \A k \in DOMAIN runs' : runs'[k].due \in fence'[runs'[k].row]
  BY <1>1, <1>4, <1>6 DEF Fenced
<1>9. ASSUME NEW k \in DOMAIN runs', runs'[k].told, runs'[k].row \in Wakes
      PROVE  state'[runs'[k].row] = "retired"
  <2>1. CASE k = n
    BY <1>5, <1>6, <1>7, <1>4, <1>9, <2>1
  <2>2. CASE k # n
    BY <1>4, <1>6, <1>9, <2>2, RunFacts DEF Fenced
  <2> QED
    BY <2>1, <2>2
<1>10. ASSUME NEW k \in DOMAIN runs', ~runs'[k].told
       PROVE  proc'[runs'[k].by] = "gone"
  <2>1. k # n /\ k \in DOMAIN runs /\ ~runs[k].told
    BY <1>4, <1>6, <1>10
  <2>2. PICK b \in Consumers : runs[k].by = b /\ runs'[k].by = b
    BY <1>6, <2>1, RunFacts
  <2>3. proc[b] = "gone" \/ Untold(b, k)
    BY <2>1, <2>2 DEF Fenced
  <2>4. ~Untold(b, k)
    BY <1>1, <2>1, Alone DEF Untold, n
  <2> QED
    BY <1>1, <2>2, <2>3, <2>4
<1>11. WorkRunsOnce'
  <2> SUFFICES ASSUME NEW j \in DOMAIN runs', NEW k \in DOMAIN runs',
                      j < k, runs'[j].row = runs'[k].row
               PROVE  /\ runs'[j].due # runs'[k].due
                      /\ runs'[j].row \in Wakes =>
                            ~runs'[j].told /\ proc'[runs'[j].by] = "gone"
    BY DEF WorkRunsOnce
  <2>1. /\ runs[j].due # runs[k].due
        /\ runs[j].row \in Wakes => ~runs[j].told /\ proc[runs[j].by] = "gone"
    BY <1>4, <1>6 DEF Fenced, WorkRunsOnce
  <2>2. runs[j].row \in Wakes => j # n
    BY <1>1, <1>5, <2>1 DEF Alive
  <2> QED
    BY <1>1, <1>4, <1>6, <2>1, <2>2
<1> QED
  BY <1>3, <1>8, <1>9, <1>10, <1>11 DEF Fenced

LEMMA NextFenced == Typed /\ Guarded /\ Fenced /\ [Next]_vars => Fenced'
<1> SUFFICES ASSUME Typed, Guarded, Fenced, [Next]_vars PROVE Fenced'
  OBVIOUS
<1>1. CASE \E c \in Consumers : ClaimAttempt(c) \/ Launch(c) \/ Announce(c)
  BY <1>1, FenceGrows, RetiredStays, FencedClaim, FencedLaunch, FencedAnnounce
<1>2. CASE ~\E c \in Consumers : ClaimAttempt(c) \/ Launch(c) \/ Announce(c)
  BY <1>2, OnwardSteps, FencedOnward, FenceGrows, RetiredStays, GoneStays
<1> QED
  BY <1>1, <1>2

\* No instant is run twice, and no wake either unless its process died before
\* it could write that its run exists: the claim of the instant comes before the
\* run, and the wake is retired before anyone else can hold the lease.
THEOREM WorkRunsOnceHolds == Spec => []WorkRunsOnce
<1>1. Init => Fenced
  BY InitFenced
<1>2. Typed /\ Guarded /\ Fenced /\ [Next]_vars => Fenced'
  BY NextFenced
<1>3. Fenced => WorkRunsOnce
  BY DEF Fenced
<1> QED
  BY <1>1, <1>2, <1>3, SpecGuarded, PTL DEF Spec
-----------------------------------------------------------------------------
(* The attempts of a wake                                                  *)

\* What a thread holds of a wake is its next attempt, or one already claimed.
NextAttempt(i) ==
    i.row \in Wakes =>
        \/ i.due \in fence[i.row]
        \/ i.count = Attempts(i.row) /\ i.due = OnceDue(i.row)

Counted ==
    /\ \A c \in Consumers :
          task[c].pc \in {"acquire", "held"} => NextAttempt(task[c].item)
    /\ \A c \in Consumers : \A i \in poll[c].todo :
          Overlap[i.row] = "skip" => i.row \notin Wakes
    /\ AttemptsWithinMax

LEMMA InitCounted == Init => Counted
<1> SUFFICES ASSUME Init PROVE Counted
  OBVIOUS
<1>1. \A w \in Wakes : Attempts(w) = 0
  BY FS_EmptySet DEF Init, Attempts, Rows
<1>2. \A c \in Consumers : task[c].pc = "free" /\ poll[c].todo = {}
  BY DEF Init, NoTask, NoPoll
<1> QED
  BY <1>1, <1>2, Constants DEF Counted, AttemptsWithinMax

\* A due wake is offered with its next attempt, and is never skipped.
LEMMA DueIsNext ==
    ASSUME NEW i \in DueItems(now)
    PROVE  /\ NextAttempt(i)
           /\ i \in ToSettle /\ Overlap[i.row] = "skip" => i.row \notin Wakes
<1>1. PICK r \in Rows : i = [row |-> r, due |-> DueInstant(r, now),
                             count |-> IF r \in Wakes THEN Attempts(r) ELSE 0]
  BY DEF DueItems
<1>2. i.row = r /\ (r \in Wakes => i.due = OnceDue(r) /\ i.count = Attempts(r))
  BY <1>1 DEF DueInstant
<1>3. NextAttempt(i)
  BY <1>2 DEF NextAttempt
<1>4. i \in ToSettle => Policy(i) \in {"skip", "cancel"}
  BY DEF ToSettle
<1> QED
  BY <1>3, <1>4 DEF Policy

\* What a step does to the rows that a thread or a poll holds: it keeps them, or
\* offers what is due.
Offers(c) ==
    /\ task'[c].pc \in {"acquire", "held"} =>
          \/ task[c].pc \in {"acquire", "held"} /\ task'[c].item = task[c].item
          \/ task'[c].item \in DueItems(now)
    /\ poll'[c].todo \subseteq poll[c].todo \cup ToSettle

LEMMA OfferedSteps ==
    ASSUME Typed, [Next]_vars
    PROVE  \A c \in Consumers : Offers(c)
<1> USE DEF vars, store, threads
<1>0. poll \in [Consumers -> Pass] /\ task \in [Consumers -> Task]
  BY DEF Typed, TypeOK
<1>1. ASSUME NEW c \in Consumers, NEW step \in Held \ {"held"}, Goto(c, step), UNCHANGED poll
      PROVE  \A d \in Consumers : Offers(d)
  BY <1>1, GotoTyped DEF Offers, Held
<1>2. ASSUME UNCHANGED <<task, poll>> PROVE \A d \in Consumers : Offers(d)
  BY <1>2 DEF Offers
<1>3. {"stale", "gate", "wait", "grace", "refused", "hopeless", "spend", "release"}
         \subseteq Held \ {"held"}
  BY DEF Held
<1>4. ASSUME NEW c \in Consumers, Poll(c) PROVE \A d \in Consumers : Offers(d)
  <2>1. \A d \in Consumers : poll'[d].todo \subseteq poll[d].todo \cup ToSettle
    <3>1. CASE UNCHANGED poll
      BY <3>1
    <3>2. CASE poll' = [poll EXCEPT ![c].pc = "overlap", ![c].todo = ToSettle]
      <4>1. poll'[c].todo = ToSettle /\ \A d \in Consumers \ {c} : poll'[d] = poll[d]
        BY <1>0, <3>2 DEF Pass
      <4> QED
        BY <4>1
    <3> QED
      BY <1>4, <3>1, <3>2 DEF Poll, SubmitDue
  <2>2. CASE UNCHANGED task
    BY <2>1, <2>2 DEF Offers
  <2>3. CASE ~UNCHANGED task
    <3>1. PICK i \in DueItems(now) :
            task' = [task EXCEPT ![c].pc = "acquire", ![c].item = i]
      BY <1>4, <2>3 DEF Poll, SubmitDue
    <3>2. task'[c].item = i /\ \A d \in Consumers \ {c} : task'[d] = task[d]
      BY <1>0, <3>1 DEF Task
    <3> QED
      BY <2>1, <3>2 DEF Offers
  <2> QED
    BY <2>2, <2>3
<1>5. ASSUME NEW c \in Consumers, Skip(c) \/ CloseSkipped(c) \/ CancelPrevious(c)
      PROVE  \A d \in Consumers : Offers(d)
  <2>1. UNCHANGED task
    BY <1>5 DEF Skip, CloseSkipped, CancelPrevious
  <2>2. \A i : Rest(c, i).todo \subseteq poll[c].todo
    BY DEF Rest, NoPoll
  <2>3. \/ \E i : poll' = [poll EXCEPT ![c] = Rest(c, i)]
        \/ \E i : poll' = [poll EXCEPT ![c].pc = "skipped", ![c].item = i]
    BY <1>5 DEF Skip, CloseSkipped, CancelPrevious
  <2>4. poll'[c].todo \subseteq poll[c].todo /\ \A d \in Consumers \ {c} : poll'[d] = poll[d]
    BY <1>0, <2>2, <2>3 DEF Pass
  <2> QED
    BY <2>1, <2>4 DEF Offers
<1>6. ASSUME NEW c \in Consumers, Acquire(c) \/ ReleaseLease(c) \/ StopEnds(c)
      PROVE  \A d \in Consumers : Offers(d)
  <2>1. UNCHANGED poll
    BY <1>6 DEF Acquire, ReleaseLease, StopEnds
  <2>2. CASE task' = [task EXCEPT ![c] = NoTask]
    BY <1>0, <2>1, <2>2, FreedTyped DEF Offers
  <2>3. CASE Goto(c, "held") /\ task[c].pc = "acquire"
    BY <2>1, <2>3, GotoTyped DEF Offers, Held
  <2>4. CASE UNCHANGED task
    BY <2>1, <2>4 DEF Offers
  <2> QED
    BY <1>0, <1>6, <2>2, <2>3, <2>4 DEF Acquire, ReleaseLease, StopEnds
<1>7. ASSUME NEW c \in Consumers,
             \/ TurnBack(c) \/ GiveUp(c) \/ ClaimAttempt(c) \/ CloseStale(c) \/ Refuse(c)
             \/ PauseRefused(c) \/ FailEarly(c) \/ Announce(c) \/ Await(c)
             \/ PauseIfHopeless(c) \/ SpendWake(c) \/ TimeOut(c)
      PROVE  \A d \in Consumers : Offers(d)
  <2>1. PICK step \in {"stale", "gate", "wait", "grace", "refused", "hopeless", "spend",
                       "release"} : Goto(c, step)
    BY <1>7 DEF TurnBack, GiveUp, ClaimAttempt, CloseStale, Refuse, PauseRefused,
       FailEarly, Announce, Await, PauseIfHopeless, SpendWake, TimeOut
  <2>2. UNCHANGED poll
    BY <1>7 DEF TurnBack, GiveUp, ClaimAttempt, CloseStale, Refuse, PauseRefused,
       FailEarly, Announce, Await, PauseIfHopeless, SpendWake, TimeOut
  <2> QED
    BY <1>1, <1>3, <2>1, <2>2
<1>8. ASSUME NEW c \in Consumers, Launch(c) PROVE \A d \in Consumers : Offers(d)
  <2>1. task'[c].pc = "announce" /\ \A d \in Consumers \ {c} : task'[d] = task[d]
    BY <1>8, Launched
  <2> QED
    BY <1>8, <2>1 DEF Launch, Offers
<1>9. ASSUME NEW c \in Consumers, CloseTimedOut(c) PROVE \A d \in Consumers : Offers(d)
  <2> DEFINE t == [task[c] EXCEPT !.pc = "hopeless", !.keep = Working(c, task[c].run)]
  <2>1. t.pc = "hopeless"
    BY <1>0 DEF Task
  <2>2. task' = [task EXCEPT ![c] = t] /\ UNCHANGED poll
    BY <1>9 DEF CloseTimedOut
  <2> HIDE DEF t
  <2> QED
    BY <1>0, <2>1, <2>2 DEF Offers
<1>10. ASSUME NEW c \in Consumers, Exit(c) \/ Die(c)
       PROVE  \A d \in Consumers : Offers(d)
  <2>1. /\ poll' = [poll EXCEPT ![c] = NoPoll] /\ task' = [task EXCEPT ![c] = NoTask]
        /\ NoPoll.todo = {}
    BY <1>10 DEF Exit, Die, Ends, NoPoll
  <2> QED
    BY <1>0, <2>1, FreedTyped DEF Offers
<1> QED
  BY <1>2, <1>4, <1>5, <1>6, <1>7, <1>8, <1>9, <1>10 DEF Next, Coordinator, Executor,
     Boot, Refresh, RunEnds, StartWaiting, Stop, OwnerEdits, Lapse, Tick

\* A step that claims no attempt of a wake.
LEMMA CountedFrame ==
    ASSUME Typed, Counted, [Next]_vars,
           \A w \in Wakes : fence'[w] = fence[w] /\ claimed'[w] = claimed[w]
    PROVE  Counted'
<1>1. \A w \in Wakes : Attempts(w)' = Attempts(w)
  BY DEF Attempts
<1>2. \A w \in Wakes : OnceDue(w)' = OnceDue(w)
  BY <1>1 DEF OnceDue, Later
<1>3. \A i : NextAttempt(i) => NextAttempt(i)'
  BY <1>1, <1>2 DEF NextAttempt
<1>4. ASSUME NEW c \in Consumers, (task[c].pc \in {"acquire", "held"})'
      PROVE  NextAttempt(task[c].item)'
  <2>1. CASE task[c].pc \in {"acquire", "held"} /\ task'[c].item = task[c].item
    BY <1>3, <2>1 DEF Counted, NextAttempt
  <2>2. CASE task'[c].item \in DueItems(now)
    <3>1. PICK i \in DueItems(now) : task'[c].item = i
      BY <2>2
    <3>2. NextAttempt(i)'
      BY <1>3, DueIsNext
    <3> QED
      BY <3>1, <3>2 DEF NextAttempt
  <2> QED
    BY <1>4, <2>1, <2>2, OfferedSteps DEF Offers
<1>5. ASSUME NEW c \in Consumers, NEW i \in poll'[c].todo, Overlap[i.row] = "skip"
      PROVE  i.row \notin Wakes
  <2>1. i \in poll[c].todo \cup ToSettle
    BY OfferedSteps DEF Offers
  <2>2. i \in ToSettle => i \in DueItems(now)
    BY DEF ToSettle
  <2> QED
    BY <1>5, <2>1, <2>2, DueIsNext DEF Counted
<1>6. AttemptsWithinMax'
  BY <1>1 DEF Counted, AttemptsWithinMax
<1> QED
  BY <1>4, <1>5, <1>6 DEF Counted

LEMMA CountedSkip ==
    ASSUME Typed, Counted, NEW c \in Consumers, Skip(c)
    PROVE  \A w \in Wakes : fence'[w] = fence[w] /\ claimed'[w] = claimed[w]
<1>1. PICK i \in poll[c].todo : /\ Overlap[i.row] = "skip"
                                /\ UNCHANGED attempts \/ Claim(i.row, i.due)
  BY DEF Skip
<1>2. i.row \notin Wakes
  BY <1>1 DEF Counted
<1>3. CASE UNCHANGED attempts
  BY <1>3 DEF attempts
<1>4. CASE Claim(i.row, i.due)
  BY <1>2, <1>4 DEF Claim, Typed, TypeOK, Rows
<1> QED
  BY <1>1, <1>3, <1>4

\* The attempt that is claimed is the next one of its wake: those that hold the
\* same one find it claimed, and the count goes up by one.
LEMMA CountedClaim ==
    ASSUME Typed, Counted, NEW c \in Consumers, ClaimAttempt(c),
           Unclaimed(task[c].item), task[c].item.row \in Wakes,
           \A d \in Consumers : Offers(d)
    PROVE  Counted'
<1> DEFINE i == task[c].item
           w == i.row
<1>1. /\ Claim(w, i.due) /\ ~OutOfAttempts(i) /\ task[c].pc = "held"
      /\ UNCHANGED poll
      /\ i \in Items /\ i.due \notin fence[w] /\ w \in Wakes
  BY DEF ClaimAttempt, Unclaimed, Typed, Linked
<1>2. \E step \in {"gate", "stale"} : Goto(c, step)
  BY DEF ClaimAttempt
<1>3. {"gate", "stale"} \subseteq Held
  BY DEF Held
<1>4. task'[c].pc \notin {"acquire", "held"} /\ \A d \in Consumers \ {c} : task'[d] = task[d]
  BY <1>2, <1>3, GotoTyped
<1>5. i.count = Attempts(w) /\ i.due = OnceDue(w)
  BY <1>1 DEF Counted, NextAttempt
<1> HIDE DEF i, w
<1>6. /\ fence'[w] = fence[w] \cup {i.due}
      /\ \A v \in Rows \ {w} : fence'[v] = fence[v]
      /\ \A v \in Wakes \ {w} : claimed'[v] = claimed[v]
  BY <1>1 DEF Claim, Typed, TypeOK, Rows
<1>7. \A v \in Wakes \ {w} : Attempts(v)' = Attempts(v) /\ OnceDue(v)' = OnceDue(v)
  <2>1. \A v \in Wakes \ {w} : Attempts(v)' = Attempts(v)
    BY <1>6 DEF Attempts, Rows
  <2> QED
    BY <1>6, <2>1 DEF OnceDue, Later
<1>8. Cardinality(fence'[w]) = Attempts(w) + 1 /\ Attempts(w) \in Nat
  <2>1. IsFiniteSet(fence[w])
    BY <1>1 DEF Typed, Linked, Rows
  <2>2. Cardinality(fence[w]) \in Nat
    BY <2>1, FS_CardinalityType
  <2>3. Cardinality(fence[w] \cup {i.due}) = Cardinality(fence[w]) + 1
    BY <1>1, <2>1, FS_AddElement
  <2> QED
    BY <1>6, <2>2, <2>3 DEF Attempts
<1>9. Attempts(w) < MaxAttempts
  <2>1. ~(Attempts(w) >= MaxAttempts)
    BY <1>1, <1>5 DEF OutOfAttempts, w
  <2> QED
    BY <1>8, <2>1, Constants
<1>10. AttemptsWithinMax'
  <2> SUFFICES ASSUME NEW v \in Wakes PROVE Attempts(v)' <= MaxAttempts
    BY DEF AttemptsWithinMax
  <2>1. CASE v = w
    <3>1. Cardinality(fence'[w]) <= MaxAttempts
      BY <1>8, <1>9, Constants
    <3> QED
      BY <2>1, <3>1 DEF Attempts
  <2>2. CASE v # w
    BY <1>7, <2>2 DEF Counted, AttemptsWithinMax
  <2> QED
    BY <2>1, <2>2
<1>11. ASSUME NEW d \in Consumers, (task[d].pc \in {"acquire", "held"})'
       PROVE  NextAttempt(task[d].item)'
  <2>1. d # c /\ task'[d] = task[d]
    BY <1>4, <1>11
  <2>2. NextAttempt(task[d].item)
    BY <1>11, <2>1 DEF Counted
  <2>3. CASE task[d].item.row = w
    BY <1>5, <1>6, <2>1, <2>2, <2>3 DEF NextAttempt
  <2>4. CASE task[d].item.row # w
    BY <1>6, <1>7, <2>1, <2>2, <2>4 DEF NextAttempt, Rows
  <2> QED
    BY <2>3, <2>4
<1> QED
  BY <1>1, <1>10, <1>11 DEF Counted

LEMMA NextCounted == Typed /\ Counted /\ [Next]_vars => Counted'
<1> SUFFICES ASSUME Typed, Counted, [Next]_vars PROVE Counted'
  OBVIOUS
<1> USE DEF vars, store, attempts
<1>1. CASE \E c \in Consumers : /\ ClaimAttempt(c) /\ Unclaimed(task[c].item)
                               /\ task[c].item.row \in Wakes
  BY <1>1, OfferedSteps, CountedClaim
<1>2. CASE ~\E c \in Consumers : /\ ClaimAttempt(c) /\ Unclaimed(task[c].item)
                                /\ task[c].item.row \in Wakes
  <2>1. CASE UNCHANGED <<fence, claimed>>
    BY <2>1, CountedFrame
  <2>2. ASSUME NEW c \in Consumers, Skip(c) PROVE Counted'
    BY <2>2, CountedSkip, CountedFrame
  <2>3. ASSUME NEW c \in Consumers, ClaimAttempt(c), ~UNCHANGED <<fence, claimed>>
        PROVE  Counted'
    <3>1. task[c].item.row \notin Wakes /\ Claim(task[c].item.row, task[c].item.due)
      BY <1>2, <2>3 DEF ClaimAttempt
    <3>2. \A w \in Wakes : fence'[w] = fence[w] /\ claimed'[w] = claimed[w]
      BY <3>1 DEF Claim, Typed, TypeOK, Rows
    <3> QED
      BY <3>2, CountedFrame
  <2>4. \/ UNCHANGED <<fence, claimed>>
        \/ \E c \in Consumers : Skip(c) \/ ClaimAttempt(c)
    BY DEF Next, Coordinator, Executor, Boot, Poll, CloseSkipped, CancelPrevious,
       Acquire, Refresh, TurnBack, GiveUp, CloseStale, Refuse, PauseRefused, FailEarly,
       Launch, Announce, Await, TimeOut, CloseTimedOut, PauseIfHopeless, SpendWake,
       ReleaseLease, RunEnds, StartWaiting, Stop, StopEnds, Exit, Die, OwnerEdits, Lapse, Tick
  <2> QED
    BY <2>1, <2>2, <2>3, <2>4
<1> QED
  BY <1>1, <1>2

\* A wake is claimed MAX_ONCE_ATTEMPTS times and no more: the attempts a scan
\* counted are still the wake's when its next attempt is claimed, or that attempt
\* is somebody else's by then.
THEOREM AttemptsWithinMaxHolds == Spec => []AttemptsWithinMax
<1>1. Init => Counted
  BY InitCounted
<1>2. Typed /\ Counted /\ [Next]_vars => Counted'
  BY NextCounted
<1>3. Counted => AttemptsWithinMax
  BY DEF Counted
<1> QED
  BY <1>1, <1>2, <1>3, SpecTyped, PTL DEF Spec
=============================================================================
