--------------------- MODULE ControlPlaneTriggersProofs ---------------------
(***************************************************************************)
(* Proofs about ControlPlaneTriggers, for any number of triggers, owner    *)
(* processes, handovers, crashes, failures and edits.                      *)
(***************************************************************************)
EXTENDS ControlPlaneTriggers, FiniteSetTheorems, WellFoundedInduction, TLAPS

-----------------------------------------------------------------------------
(* The cadence.                                                            *)

\* The least-number principle, for sets: what stands in for induction here.
LessThan == OpToRel(<, Nat)

LEMMA Least ==
  ASSUME NEW S, S \subseteq Nat, S # {}
  PROVE \E m \in S : \A n \in S : m <= n
<1>1. IsWellFoundedOn(LessThan, Nat)
  BY NatLessThanWellFounded DEF LessThan
<1>2. PICK x \in S : \A y \in S : ~ (<<y, x>> \in LessThan)
  BY <1>1, WFMin
<1>3. \A m, n \in Nat : m < n => <<m, n>> \in LessThan
  BY DEF LessThan, OpToRel
<1>4. ASSUME NEW y \in S PROVE x <= y
  <2>1. x \in Nat /\ y \in Nat
    OBVIOUS
  <2>2. ~(y < x)
    BY <1>2, <2>1, <1>3, Zenon
  <2> QED BY <2>1, <2>2
<1> QED BY <1>4

LEMMA HourOfDay ==
    ASSUME NEW o \in 0..Day - 1, NEW q \in Int
    PROVE  (q * Day + o) % Day = o
BY ControlPlaneAssumption

LEMMA DayOf ==
    ASSUME NEW t \in Nat
    PROVE  /\ t \div Day \in Nat /\ t % Day \in 0..Day - 1
           /\ t = (t \div Day) * Day + (t % Day)
BY ControlPlaneAssumption

\* _into_active_hours: the first instant from t on that is in the active hours.
LEMMA NextOpenHour ==
    ASSUME NEW p \in Policies, NEW t \in Nat
    PROVE  /\ IntoActiveHours(t, p) \in t..t + Day
           /\ InActiveHours(IntoActiveHours(t, p), p)
           /\ \A v \in t..IntoActiveHours(t, p) - 1 : ~InActiveHours(v, p)
<1>0. Day \in Nat \ {0} /\ p.open \in SUBSET (0..Day - 1) /\ p.open # {}
  BY ControlPlaneAssumption DEF Policy
<1> DEFINE S == {u \in t..t + Day : InActiveHours(u, p)}
           q == t \div Day
<1>1. PICK o \in 0..Day - 1 : o \in p.open
  BY <1>0
<1>2. /\ q \in Nat /\ q + 1 \in Nat /\ t = q * Day + (t % Day) /\ t % Day \in 0..Day - 1
  BY DayOf, <1>0
<1>3. InActiveHours(q * Day + o, p) /\ InActiveHours((q + 1) * Day + o, p)
  BY <1>1, <1>2, HourOfDay DEF InActiveHours
<1>4. q * Day \in Nat /\ (q + 1) * Day = q * Day + Day
  BY <1>0, <1>2
<1> HIDE DEF q
<1>5. S # {}
  <2>1. CASE q * Day + o >= t
    BY <2>1, <1>0, <1>1, <1>2, <1>3, <1>4
  <2>2. CASE q * Day + o < t
    <3>1. (q + 1) * Day + o \in t..t + Day
      BY <2>2, <1>0, <1>1, <1>2, <1>4
    <3> QED BY <3>1, <1>3
  <2> QED BY <2>1, <2>2, <1>0, <1>1, <1>4
<1>6. PICK u \in S : \A v \in S : u <= v
  <2>1. S \subseteq Nat
    BY <1>0
  <2> HIDE DEF S
  <2> QED BY <2>1, <1>5, Least
<1>7. u \in t..t + Day /\ InActiveHours(u, p) /\ \A v \in t..u - 1 : ~InActiveHours(v, p)
  BY <1>0, <1>6
<1> QED BY <1>7 DEF IntoActiveHours

\* One step of the walk over the active-hours grid, and what it yields.
Following(step, p, due) == IntoActiveHours(due + step, p)

LEMMA FollowingType ==
    ASSUME NEW p \in Policies, NEW step \in Nat \ {0}, NEW due \in Nat
    PROVE  /\ Following(step, p, due) \in Nat
           /\ Following(step, p, due) > due /\ Following(step, p, due) >= due + step
           /\ InActiveHours(Following(step, p, due), p)
<1>1. due + step \in Nat /\ due + step > due /\ Day \in Nat
  BY ControlPlaneAssumption
<1>2. Following(step, p, due) \in due + step..due + step + Day
  BY <1>1, NextOpenHour DEF Following
<1>3. InActiveHours(Following(step, p, due), p)
  BY <1>1, NextOpenHour DEF Following
<1> QED BY <1>1, <1>2, <1>3

OneStep(f, step, p, t, due) ==
    IF Following(step, p, due) > t THEN due ELSE f[Following(step, p, due)]

\* The recursion of the walk is well-founded: its due instants only grow.
LEMMA WalkExists ==
    ASSUME NEW p \in Policies, NEW step \in Nat \ {0}, NEW t \in Nat
    PROVE  \E f \in [Nat -> Nat] : \A due \in Nat : f[due] = OneStep(f, step, p, t, due)
<1> DEFINE Good(f, k) == \A due \in Nat : due + k > t => f[due] = OneStep(f, step, p, t, due)
           Bad == {k \in Nat : ~\E f \in [Nat -> Nat] : Good(f, k)}
<1>1. SUFFICES Bad = {}
  <2>1. t + 1 \in Nat /\ \A due \in Nat : due + (t + 1) > t
    OBVIOUS
  <2>2. t + 1 \notin Bad
    BY <1>1
  <2>3. PICK f \in [Nat -> Nat] : Good(f, t + 1)
    BY <2>1, <2>2
  <2>4. \A due \in Nat : f[due] = OneStep(f, step, p, t, due)
    BY <2>1, <2>3
  <2> QED BY <2>4
<1>2. SUFFICES ASSUME Bad # {} PROVE FALSE
  OBVIOUS
<1>3. PICK k \in Bad : \A n \in Bad : k <= n
  <2>1. Bad \subseteq Nat
    OBVIOUS
  <2> HIDE DEF Bad
  <2> QED BY <1>2, <2>1, Least
<1>4. k \in Nat /\ ~\E f \in [Nat -> Nat] : Good(f, k)
  OBVIOUS
<1>5. CASE k = 0
  <2> DEFINE f == [due \in Nat |-> due]
  <2>1. ASSUME NEW due \in Nat, due + 0 > t PROVE f[due] = OneStep(f, step, p, t, due)
    <3>1. Following(step, p, due) \in Nat /\ Following(step, p, due) > due
      BY FollowingType
    <3> QED BY <3>1, <2>1 DEF OneStep
  <2>2. f \in [Nat -> Nat] /\ Good(f, 0)
    BY <2>1
  <2> QED BY <1>4, <1>5, <2>2
<1>6. CASE k # 0
  <2>1. k - 1 \in Nat /\ k - 1 \notin Bad
    BY <1>3, <1>4, <1>6
  <2>2. PICK f \in [Nat -> Nat] : Good(f, k - 1)
    BY <2>1
  <2> DEFINE d0 == t - (k - 1)
  <2>3. CASE d0 < 0
    <3>1. \A due \in Nat : due + (k - 1) > t
      BY <2>1, <2>3
    <3>2. Good(f, k)
      BY <2>2, <3>1
    <3> QED BY <1>4, <3>2
  <2>4. CASE d0 >= 0
    <3> DEFINE g == [f EXCEPT ![d0] = OneStep(f, step, p, t, d0)]
    <3>0. d0 \in Nat
      BY <2>1, <2>4
    <3>1. OneStep(f, step, p, t, d0) \in Nat /\ g \in [Nat -> Nat]
      BY <3>0, FollowingType DEF OneStep
    <3>2. ASSUME NEW due \in Nat, due + k > t PROVE g[due] = OneStep(g, step, p, t, due)
      <4>1. due >= d0 /\ (due # d0 => due + (k - 1) > t)
        BY <3>2, <2>1, <1>4
      <4>2. Following(step, p, due) \in Nat /\ Following(step, p, due) > due
        BY FollowingType
      <4>3. g[Following(step, p, due)] = f[Following(step, p, due)]
        BY <3>0, <4>1, <4>2
      <4>4. OneStep(g, step, p, t, due) = OneStep(f, step, p, t, due)
        BY <4>3 DEF OneStep
      <4>5. g[due] = OneStep(f, step, p, t, due)
        BY <2>2, <3>0, <4>1
      <4> QED BY <4>4, <4>5
    <3> HIDE DEF g
    <3>3. Good(g, k)
      BY <3>2
    <3> QED BY <1>4, <3>1, <3>3
  <2>5. d0 \in Int
    BY <2>1
  <2> HIDE DEF d0
  <2> QED BY <2>3, <2>4, <2>5
<1> QED BY <1>4, <1>5, <1>6

\* The walk satisfies its defining equation.
LEMMA CollapseWalks ==
    ASSUME NEW p \in Policies, NEW step \in Nat \ {0}, NEW t \in Nat, NEW due \in Nat
    PROVE  Collapse(step, p, t)[due] = OneStep(Collapse(step, p, t), step, p, t, due)
<1> DEFINE Walks(f) ==
        f = [d \in Nat |-> LET following == IntoActiveHours(d + step, p)
                           IN  IF following > t THEN d ELSE f[following]]
<1>1. \E f : Walks(f)
  <2>1. PICK f \in [Nat -> Nat] : \A d \in Nat : f[d] = OneStep(f, step, p, t, d)
    BY WalkExists
  <2>2. Walks(f)
    BY <2>1 DEF OneStep, Following
  <2> QED BY <2>2
<1>2. Collapse(step, p, t) = CHOOSE f : Walks(f)
  BY Zenon DEF Collapse
<1>3. Walks(Collapse(step, p, t))
  <2> HIDE DEF Walks
  <2> QED BY <1>1, <1>2
<1> QED BY <1>3 DEF OneStep, Following

\* The walk from an instant ends at the latest one that is not after t, or where
\* it began when that one is later.
LEMMA CollapseIsLatest ==
    ASSUME NEW p \in Policies, NEW step \in Nat \ {0}, NEW t \in Nat, NEW due \in Nat
    PROVE  LET latest == Collapse(step, p, t)[due] IN
           /\ latest \in Nat /\ latest >= due
           /\ latest = due \/ (latest <= t /\ InActiveHours(latest, p))
           /\ Following(step, p, latest) > t
<1> DEFINE walk == Collapse(step, p, t)
           Right(d) == /\ walk[d] \in Nat /\ walk[d] >= d
                       /\ walk[d] = d \/ (walk[d] <= t /\ InActiveHours(walk[d], p))
                       /\ Following(step, p, walk[d]) > t
           Bad == {k \in Nat : ~\A d \in Nat : d + k > t => Right(d)}
<1>1. \A d \in Nat : walk[d] = OneStep(walk, step, p, t, d)
  BY CollapseWalks
<1> HIDE DEF walk
<1>2. Bad = {}
  <2>1. SUFFICES ASSUME Bad # {} PROVE FALSE
    OBVIOUS
  <2>2. PICK k \in Bad : \A n \in Bad : k <= n
    <3>1. Bad \subseteq Nat
      OBVIOUS
    <3> HIDE DEF Bad
    <3> QED BY <2>1, <3>1, Least
  <2>3. PICK d \in Nat : d + k > t /\ ~Right(d)
    OBVIOUS
  <2>4. /\ Following(step, p, d) \in Nat /\ Following(step, p, d) > d
        /\ InActiveHours(Following(step, p, d), p)
    BY FollowingType
  <2>5. CASE Following(step, p, d) > t
    <3>1. walk[d] = d
      BY <1>1, <2>5 DEF OneStep
    <3> QED BY <2>3, <2>5, <3>1
  <2>6. CASE ~(Following(step, p, d) > t)
    <3>1. walk[d] = walk[Following(step, p, d)]
      BY <1>1, <2>6 DEF OneStep
    <3>2. k - 1 \in Nat /\ k - 1 \notin Bad
      BY <2>2, <2>3, <2>4, <2>6
    <3>3. Right(Following(step, p, d))
      BY <2>3, <2>4, <3>2
    <3> QED BY <2>3, <2>4, <2>6, <3>1, <3>3
  <2> QED BY <2>4, <2>5, <2>6
<1>3. t + 1 \in Nat /\ t + 1 \notin Bad /\ due + (t + 1) > t
  BY <1>2
<1>4. Right(due)
  BY <1>3
<1> QED BY <1>4 DEF walk

LEMMA NextOpenHourGrows ==
    ASSUME NEW p \in Policies, NEW s \in Nat, NEW t \in Nat, s <= t
    PROVE  IntoActiveHours(s, p) <= IntoActiveHours(t, p)
<1>1. /\ IntoActiveHours(s, p) \in s..s + Day /\ IntoActiveHours(t, p) \in t..t + Day
      /\ InActiveHours(IntoActiveHours(t, p), p)
      /\ \A v \in s..IntoActiveHours(s, p) - 1 : ~InActiveHours(v, p)
  BY NextOpenHour
<1>2. IntoActiveHours(s, p) \in Nat /\ IntoActiveHours(t, p) \in Nat
  BY <1>1, ControlPlaneAssumption
<1>3. IntoActiveHours(t, p) \notin s..IntoActiveHours(s, p) - 1
  BY <1>1
<1> QED BY <1>1, <1>2, <1>3

LEMMA PolicyTypes ==
    ASSUME NEW p \in Policies
    PROVE  p.idle \in Nat /\ Periods(p) \subseteq Nat \ {0}
BY ControlPlaneAssumption DEF Policy, Periods

\* What due_instant answers: an instant in the active hours, not before the idle
\* wait, a period after the last one fired, and the latest of the missed ones: the
\* next one is still to come, so that one fire makes good however many were missed.
THEOREM DueInstantIsOwed ==
    ASSUME NEW p \in Policies, NEW created \in Times, NEW t \in Times,
           NEW engaged \in Times \cup {Never}, NEW lastDue \in Times \cup {Never}
    PROVE  LET due  == DueInstant(p, created, engaged, lastDue, t)
               step == Period(p, t - (IF engaged # Never THEN engaged ELSE created))
           IN  /\ due \in Nat /\ InActiveHours(due, p)
               /\ engaged # Never => due >= engaged + p.idle
               /\ lastDue = Never => due >= created
               /\ lastDue # Never => due >= lastDue + step
               /\ step \in Periods(p)
               /\ Following(step, p, due) > t
<1> DEFINE anchor == IF engaged # Never THEN engaged ELSE created
           step   == Period(p, t - anchor)
           first  == IF lastDue = Never THEN created ELSE lastDue + step
           latest == Collapse(step, p, t)[IntoActiveHours(first, p)]
           waited == Later(latest, anchor + p.idle)
           due    == IntoActiveHours(waited, p)
<1>1. t \in Nat /\ created \in Nat /\ anchor \in Nat /\ Day \in Nat
      /\ (engaged # Never => anchor = engaged)
  BY ControlPlaneAssumption DEF Times, Never
<1>2. step \in Periods(p) /\ step \in Nat \ {0} /\ p.idle \in Nat
  <2>1. step \in Periods(p)
    BY DEF Period, Periods
  <2> QED BY <2>1, PolicyTypes
<1>3. first \in Nat /\ (lastDue # Never => first = lastDue + step)
      /\ (lastDue = Never => first = created)
  BY <1>1, <1>2 DEF Times, Never
<1> HIDE DEF first, step, anchor
<1>4. IntoActiveHours(first, p) \in Nat /\ IntoActiveHours(first, p) >= first
  BY <1>1, <1>3, NextOpenHour
<1>5. latest \in Nat /\ latest >= first /\ Following(step, p, latest) > t
  <2>1. /\ latest \in Nat /\ latest >= IntoActiveHours(first, p)
        /\ Following(step, p, latest) > t
    BY <1>1, <1>2, <1>4, CollapseIsLatest
  <2> HIDE DEF latest
  <2> QED BY <1>3, <1>4, <2>1
<1> HIDE DEF latest
<1>6. waited \in Nat /\ waited >= latest /\ waited >= anchor + p.idle
  BY <1>1, <1>2, <1>5 DEF Later
<1> HIDE DEF waited
<1>7. due \in Nat /\ due >= waited /\ InActiveHours(due, p)
  BY <1>1, <1>6, NextOpenHour
<1> HIDE DEF due
<1>8. due >= first /\ due >= anchor + p.idle /\ due >= latest
  BY <1>1, <1>2, <1>3, <1>5, <1>6, <1>7
<1>9. Following(step, p, due) > t
  <2>1. latest + step \in Nat /\ due + step \in Nat /\ latest + step <= due + step
    BY <1>2, <1>5, <1>7, <1>8
  <2>2. Following(step, p, latest) <= Following(step, p, due)
    BY <2>1, NextOpenHourGrows DEF Following
  <2>3. Following(step, p, latest) \in Nat /\ Following(step, p, due) \in Nat
    BY <1>2, <1>5, <1>7, FollowingType
  <2> QED BY <1>1, <1>5, <2>2, <2>3
<1>10. due = DueInstant(p, created, engaged, lastDue, t)
  BY Zenon DEF due, waited, latest, first, step, anchor, DueInstant
<1>11. /\ engaged # Never => due >= engaged + p.idle
       /\ lastDue = Never => due >= created
       /\ lastDue # Never => due >= lastDue + step
  BY <1>1, <1>3, <1>8
<1> QED BY <1>2, <1>7, <1>9, <1>10, <1>11, Zenon DEF step, anchor

\* The same for a row of the trigger table.
LEMMA RowDue ==
    ASSUME NEW r \in Trigger, r.created \in Times, NEW t \in Times
    PROVE  LET due == DueInstant(r.policy, r.created, r.engaged, r.lastDue, t)
           IN  /\ due \in Nat
               /\ r.engaged # Never => due >= r.engaged + r.policy.idle
               /\ r.lastDue # Never => \E step \in Periods(r.policy) : due >= r.lastDue + step
<1>1. /\ r.policy \in Policies /\ r.engaged \in Times \cup {Never}
      /\ r.lastDue \in Times \cup {Never}
  BY DEF Trigger
<1> QED BY <1>1, DueInstantIsOwed, Zenon

-----------------------------------------------------------------------------
USE ControlPlaneAssumption

(* Type correctness.                                                       *)

TableType ==
    /\ triggers \in [Keys -> Trigger]
    /\ fires \in [Keys -> [Times -> Fire]]
    /\ runs \in [Keys -> [Times -> {"none", "live", "orphan", "done"}]]
    /\ calls \in [Keys -> [Times -> 0..2]]
TickType ==
    /\ pc \in [Schedulers -> Pcs]
    /\ tick \in [Schedulers -> [rows : [Keys -> Trigger], moment : Times \cup {Never},
                                left : SUBSET Keys]]
FireType ==
    fire \in [Schedulers -> [key : Keys \cup {NoKey}, due : Nat \cup {Never}, blocked : BOOLEAN,
                             generation : 0..MaxStarts + 1,
                             outcome : {"none", "started", "declined", "failed"}]]
RestType ==
    /\ now \in Times
    /\ lease \in [generation : 1..MaxStarts + 1, holder : Schedulers \cup {NoOne}]
    /\ inc \in [Schedulers -> 0..MaxStarts]
    /\ wired \in [Schedulers -> BOOLEAN]
    /\ settled \in [Schedulers -> 0..MaxStarts + 1]
    /\ starts \in 0..MaxStarts /\ edits \in 0..MaxEdits
    /\ crashes \in 0..MaxCrashes /\ failures \in 0..MaxFailures

LEMMA TypeParts == TypeOK <=> TableType /\ TickType /\ FireType /\ RestType
BY DEF TypeOK, TableType, TickType, FireType, RestType

LEMMA TypePartsNext ==
    TypeOK' <=> TableType' /\ TickType' /\ FireType' /\ RestType'
BY DEF TypeOK, TableType, TickType, FireType, RestType

LEMMA BoundsAreNat ==
    /\ Horizon \in Nat /\ MaxStarts \in Nat /\ MaxEdits \in Nat
    /\ MaxCrashes \in Nat /\ MaxFailures \in Nat
OBVIOUS

\* What a process has read when it needs it.
ReadyAt(s) ==
    /\ pc[s] \notin {"off", "idle"} =>
            /\ tick[s].moment \in Times
            /\ \A k \in tick[s].left : tick[s].rows[k].created # Never
    /\ pc[s] \notin {"off", "idle", "next"} => fire[s].key \in Keys /\ fire[s].due \in Nat
    /\ pc[s] \in {"wake", "finish"} => fire[s].due \in Times
    /\ pc[s] = "finish" => fire[s].outcome \in {"started", "declined", "failed"}
Ready ==
    /\ lease.generation <= starts + 1
    /\ \A s \in Schedulers : ReadyAt(s)
TypeInv == TypeOK /\ Ready

LEMMA InitType == Init => TypeInv
<1> SUFFICES ASSUME Init PROVE TypeInv
  OBVIOUS
<1>1. NotEnrolled \in Trigger /\ NoFire \in Fire
  BY DEF NotEnrolled, Trigger, NoLastRun, LastRun, Never, Policies, NoFire, Fire, Settled
<1>2. TableType
  BY <1>1 DEF Init, TableType
<1>3. TickType
  BY <1>1 DEF Init, TickType, NoTick, Pcs
<1>4. FireType
  BY DEF Init, FireType, Idle
<1>5. RestType
  BY DEF Init, RestType, Times
<1> QED BY <1>2, <1>3, <1>4, <1>5, TypeParts DEF TypeInv, Ready, ReadyAt, Init

\* A row stays a row when a column is written, and so under every write.
LEMMA ColumnWrites ==
    ASSUME NEW r \in Trigger
    PROVE  /\ \A t \in Times : [r EXCEPT !.created = t] \in Trigger
           /\ \A b \in BOOLEAN : [r EXCEPT !.enabled = b] \in Trigger
           /\ \A p \in Policies : [r EXCEPT !.policy = p] \in Trigger
           /\ \A t \in Times : [r EXCEPT !.engaged = t] \in Trigger
           /\ \A t \in Times : [r EXCEPT !.lastDue = t] \in Trigger
           /\ \A l \in LastRun : [r EXCEPT !.lastRun = l] \in Trigger
           /\ \A n \in Nat : [r EXCEPT !.revision = n] \in Trigger
<1>1. \A t \in Times : [r EXCEPT !.created = t] \in Trigger
  BY DEF Trigger
<1>2. \A b \in BOOLEAN : [r EXCEPT !.enabled = b] \in Trigger
  BY DEF Trigger
<1>3. \A p \in Policies : [r EXCEPT !.policy = p] \in Trigger
  BY DEF Trigger
<1>4. \A t \in Times : [r EXCEPT !.engaged = t] \in Trigger
  BY DEF Trigger
<1>5. \A t \in Times : [r EXCEPT !.lastDue = t] \in Trigger
  BY DEF Trigger
<1>6. \A l \in LastRun : [r EXCEPT !.lastRun = l] \in Trigger
  BY DEF Trigger
<1>7. \A n \in Nat : [r EXCEPT !.revision = n] \in Trigger
  BY DEF Trigger
<1> QED BY <1>1, <1>2, <1>3, <1>4, <1>5, <1>6, <1>7

LEMMA TriggerWrites ==
    ASSUME NEW r \in Trigger
    PROVE  /\ \A t \in Times : [r EXCEPT !.created = t] \in Trigger
           /\ \A b \in BOOLEAN : [r EXCEPT !.enabled = b, !.revision = @ + 1] \in Trigger
           /\ \A p \in Policies : [r EXCEPT !.policy = p, !.revision = @ + 1] \in Trigger
           /\ \A t \in Times : [r EXCEPT !.engaged = t, !.revision = @ + 1] \in Trigger
           /\ \A l \in LastRun : [r EXCEPT !.lastRun = l] \in Trigger
           /\ \A t \in Times : [r EXCEPT !.lastDue = t, !.lastRun = [kind |-> "claim", due |-> t],
                                         !.revision = @ + 1] \in Trigger
<1>1. r.revision \in Nat
  BY DEF Trigger
<1>2. PICK n \in Nat : n = r.revision + 1
  BY <1>1
<1>3. ASSUME NEW b \in BOOLEAN
      PROVE  [r EXCEPT !.enabled = b, !.revision = @ + 1] \in Trigger
  <2>1. PICK q \in Trigger : q = [r EXCEPT !.enabled = b]
    BY ColumnWrites
  <2>2. [q EXCEPT !.revision = n] \in Trigger
    BY ColumnWrites
  <2> QED BY <1>2, <2>1, <2>2, Zenon
<1>4. ASSUME NEW p \in Policies
      PROVE  [r EXCEPT !.policy = p, !.revision = @ + 1] \in Trigger
  <2>1. PICK q \in Trigger : q = [r EXCEPT !.policy = p]
    BY ColumnWrites
  <2>2. [q EXCEPT !.revision = n] \in Trigger
    BY ColumnWrites
  <2> QED BY <1>2, <2>1, <2>2, Zenon
<1>5. ASSUME NEW t \in Times
      PROVE  [r EXCEPT !.engaged = t, !.revision = @ + 1] \in Trigger
  <2>1. PICK q \in Trigger : q = [r EXCEPT !.engaged = t]
    BY ColumnWrites
  <2>2. [q EXCEPT !.revision = n] \in Trigger
    BY ColumnWrites
  <2> QED BY <1>2, <2>1, <2>2, Zenon
<1>6. ASSUME NEW t \in Times
      PROVE  [r EXCEPT !.lastDue = t, !.lastRun = [kind |-> "claim", due |-> t],
                       !.revision = @ + 1] \in Trigger
  <2>1. PICK l \in LastRun : l = [kind |-> "claim", due |-> t]
    BY DEF LastRun
  <2>2. PICK q \in Trigger : q = [r EXCEPT !.lastDue = t]
    BY ColumnWrites
  <2>3. PICK u \in Trigger : u = [q EXCEPT !.lastRun = l]
    BY ColumnWrites
  <2>4. [u EXCEPT !.revision = n] \in Trigger
    BY ColumnWrites
  <2> QED BY <1>2, <2>1, <2>2, <2>3, <2>4, Zenon
<1> QED BY <1>3, <1>4, <1>5, <1>6, ColumnWrites

LEMMA OwnerType ==
    ASSUME TypeInv, NEW k \in Keys, OwnerEdit(k)
    PROVE  TypeInv'
<1> USE TypeParts DEF TypeInv
<1>1. triggers[k] \in Trigger /\ now \in Times
  BY DEF TableType, RestType
<1>2. triggers' \in [Keys -> Trigger]
  <2>1. CASE Ensure(k)
    BY <1>1, <2>1, TriggerWrites DEF Ensure, TableType
  <2>2. ASSUME NEW b \in BOOLEAN, SetEnabled(k, b) PROVE triggers' \in [Keys -> Trigger]
    <3>1. triggers' = [triggers EXCEPT ![k] = [triggers[k] EXCEPT !.enabled = b, !.revision = @ + 1]]
      BY <2>2 DEF SetEnabled, TableType
    <3> QED BY <1>1, <3>1, TriggerWrites DEF TableType
  <2>3. CASE NoteEngagement(k)
    <3>1. triggers' = [triggers EXCEPT ![k] = [triggers[k] EXCEPT !.engaged = now, !.revision = @ + 1]]
      BY <2>3 DEF NoteEngagement, TableType
    <3> QED BY <1>1, <3>1, TriggerWrites DEF TableType
  <2>4. ASSUME NEW p \in Policies, SetCadenceOverride(k, p) PROVE triggers' \in [Keys -> Trigger]
    <3>1. triggers' = [triggers EXCEPT ![k] = [triggers[k] EXCEPT !.policy = p, !.revision = @ + 1]]
      BY <2>4 DEF SetCadenceOverride, TableType
    <3> QED BY <1>1, <3>1, TriggerWrites DEF TableType
  <2> QED BY <2>1, <2>2, <2>3, <2>4 DEF OwnerEdit
<1>3. UNCHANGED <<now, fires, runs, calls, owner, starts, crashes, failures>>
  BY DEF OwnerEdit, Ensure, SetEnabled, NoteEngagement, SetCadenceOverride, bounds
<1>4. edits' \in 0..MaxEdits
  <2>1. edits' = edits \/ (edits < MaxEdits /\ edits' = edits + 1)
    BY DEF OwnerEdit, Ensure, SetEnabled, NoteEngagement, SetCadenceOverride, Edit, bounds
  <2>2. edits \in 0..MaxEdits
    BY DEF RestType
  <2> QED BY <2>1, <2>2, BoundsAreNat
<1>5. TableType' /\ TickType' /\ FireType' /\ RestType'
  BY <1>2, <1>3, <1>4 DEF TableType, TickType, FireType, RestType, owner
<1>6. Ready'
  BY <1>3 DEF Ready, ReadyAt, owner
<1> QED BY <1>5, <1>6, TypePartsNext

\* A step of one process leaves what the others have read.
LEMMA OthersReady ==
    ASSUME Ready, NEW s \in Schedulers, ReadyAt(s)', lease'.generation <= starts' + 1,
           \A t \in Schedulers \ {s} : pc'[t] = pc[t] /\ tick'[t] = tick[t] /\ fire'[t] = fire[t]
    PROVE  Ready'
BY DEF Ready, ReadyAt

Calls == [key : Keys \cup {NoKey}, due : Nat \cup {Never}, blocked : BOOLEAN,
          generation : 0..MaxStarts + 1, outcome : {"none", "started", "declined", "failed"}]
Ticks == [rows : [Keys -> Trigger], moment : Times \cup {Never}, left : SUBSET Keys]

\* The three values that a step of s gives its tick.
LEMMA TickWrites ==
    ASSUME TickType, FireType, NEW s \in Schedulers,
           NEW l \in Pcs, pc' = [pc EXCEPT ![s] = l],
           NEW m \in Ticks, tick' = [tick EXCEPT ![s] = m],
           NEW f \in Calls, fire' = [fire EXCEPT ![s] = f]
    PROVE  /\ TickType' /\ FireType'
           /\ pc'[s] = l /\ tick'[s] = m /\ fire'[s] = f
           /\ \A t \in Schedulers \ {s} :
                pc'[t] = pc[t] /\ tick'[t] = tick[t] /\ fire'[t] = fire[t]
<1>1. /\ pc \in [Schedulers -> Pcs] /\ tick \in [Schedulers -> Ticks]
      /\ fire \in [Schedulers -> Calls]
  BY DEF TickType, FireType, Ticks, Calls
<1>2. pc' \in [Schedulers -> Pcs] /\ tick' \in [Schedulers -> Ticks]
  BY <1>1
<1>3. fire' \in [Schedulers -> Calls]
  BY <1>1
<1>4. TickType'
  BY <1>2 DEF TickType, Ticks
<1>5. FireType'
  BY <1>3 DEF FireType, Calls
<1> QED BY <1>1, <1>4, <1>5

LEMMA Blanks == Idle \in Calls /\ NoTick \in Ticks
<1>1. NotEnrolled \in Trigger
  BY DEF NotEnrolled, Trigger, NoLastRun, LastRun, Never, Policies
<1>2. NoTick \in Ticks
  BY <1>1 DEF NoTick, Ticks
<1>3. Idle \in Calls
  BY BoundsAreNat DEF Idle, Calls
<1> QED BY <1>2, <1>3

\* Done with a trigger, a process knows what it needs for the next.
LEMMA LeaveType ==
    ASSUME TypeInv, NEW s \in Schedulers, pc[s] \notin {"off", "idle"}, Leave(s),
           lease'.generation <= starts' + 1
    PROVE  TickType' /\ FireType' /\ Ready'
<1>0. TickType /\ FireType /\ Ready /\ ReadyAt(s)
  BY TypeParts DEF TypeInv, Ready
<1>1. tick[s] \in Ticks
  BY <1>0 DEF TickType, Ticks
<1>2. fire' = [fire EXCEPT ![s] = Idle]
  BY DEF Leave
<1>3. CASE tick[s].left = {}
  <2>1. pc' = [pc EXCEPT ![s] = "idle"] /\ tick' = [tick EXCEPT ![s] = NoTick]
    BY <1>3 DEF Leave
  <2>2. /\ TickType' /\ FireType' /\ pc'[s] = "idle"
        /\ \A t \in Schedulers \ {s} : pc'[t] = pc[t] /\ tick'[t] = tick[t] /\ fire'[t] = fire[t]
    BY <1>0, <1>2, <2>1, Blanks, TickWrites DEF Pcs
  <2>3. ReadyAt(s)'
    BY <2>2 DEF ReadyAt
  <2> QED BY <1>0, <2>2, <2>3, OthersReady
<1>4. CASE tick[s].left # {}
  <2>1. pc' = [pc EXCEPT ![s] = "next"] /\ tick' = [tick EXCEPT ![s] = tick[s]]
    BY <1>0, <1>4 DEF Leave, Goto, TickType
  <2>2. /\ TickType' /\ FireType' /\ pc'[s] = "next" /\ tick'[s] = tick[s]
        /\ \A t \in Schedulers \ {s} : pc'[t] = pc[t] /\ tick'[t] = tick[t] /\ fire'[t] = fire[t]
    BY <1>0, <1>1, <1>2, <2>1, Blanks, TickWrites DEF Pcs
  <2>3. ReadyAt(s)'
    BY <1>0, <2>2 DEF ReadyAt
  <2> QED BY <1>0, <2>2, <2>3, OthersReady
<1> QED BY <1>3, <1>4

\* A step that goes to l and changes at most what the process has decided.
LEMMA GotoType ==
    ASSUME TypeInv, NEW s \in Schedulers, NEW l \in Pcs, Goto(s, l),
           NEW f \in Calls, fire' = [fire EXCEPT ![s] = f],
           pc[s] \notin {"off", "idle", "next"}, l \notin {"off", "idle", "next"},
           f.key = fire[s].key /\ f.due = fire[s].due,
           l \in {"wake", "finish"} => f.due \in Times,
           l = "finish" => f.outcome # "none",
           lease'.generation <= starts' + 1
    PROVE  TickType' /\ FireType' /\ Ready'
<1>0. TickType /\ FireType /\ Ready /\ ReadyAt(s)
  BY TypeParts DEF TypeInv, Ready
<1>1. tick[s] \in Ticks /\ tick' = [tick EXCEPT ![s] = tick[s]]
  BY <1>0 DEF TickType, Ticks, Goto
<1>2. /\ TickType' /\ FireType' /\ pc'[s] = l /\ tick'[s] = tick[s] /\ fire'[s] = f
      /\ \A t \in Schedulers \ {s} : pc'[t] = pc[t] /\ tick'[t] = tick[t] /\ fire'[t] = fire[t]
  <2>1. pc' = [pc EXCEPT ![s] = l]
    BY DEF Goto
  <2> QED BY <1>0, <1>1, <2>1, TickWrites
<1>3. ReadyAt(s)'
  BY <1>0, <1>2 DEF ReadyAt, Calls
<1> QED BY <1>0, <1>2, <1>3, OthersReady

LEMMA BootType ==
    ASSUME TypeInv, NEW s \in Schedulers, Boot(s)
    PROVE  TypeInv'
<1>0. TableType /\ TickType /\ FireType /\ RestType /\ Ready
  BY TypeParts DEF TypeInv
<1>1. starts \in Nat /\ starts < MaxStarts /\ starts' = starts + 1 /\ starts' \in 0..MaxStarts
  BY <1>0, BoundsAreNat DEF RestType, Boot
<1>2. lease' \in [generation : 1..MaxStarts + 1, holder : Schedulers \cup {NoOne}]
      /\ lease'.generation <= starts' + 1
  <2>1. lease.generation \in 1..MaxStarts + 1 /\ lease.generation <= starts + 1
    BY <1>0 DEF RestType, Ready
  <2>2. PICK g \in 1..MaxStarts + 1 : g <= starts' + 1 /\ lease' = [holder |-> s, generation |-> g]
    BY <1>1, <2>1, BoundsAreNat DEF Boot
  <2> QED BY <2>2
<1>3. RestType'
  BY <1>0, <1>1, <1>2, BoundsAreNat DEF RestType, Boot
<1>4. TableType'
  BY <1>0 DEF TableType, Boot, tables
<1>5. TickType' /\ FireType'
  BY <1>0 DEF TickType, FireType, Boot, Pcs
<1>6. ReadyAt(s)'
  BY <1>0 DEF ReadyAt, Boot, TickType
<1>7. Ready'
  BY <1>0, <1>2, <1>6, OthersReady DEF Boot, TickType
<1> QED BY <1>3, <1>4, <1>5, <1>7, TypePartsNext DEF TypeInv

LEMMA ListType ==
    ASSUME TypeInv, NEW s \in Schedulers, ListTriggers(s)
    PROVE  TypeInv'
<1>0. TableType /\ TickType /\ FireType /\ RestType /\ Ready
  BY TypeParts DEF TypeInv
<1>1. RestType' /\ TableType'
  BY <1>0 DEF RestType, TableType, ListTriggers, tables, bounds
<1> DEFINE listed == {k \in Enrolled : triggers[k].enabled}
           m == [rows |-> triggers, moment |-> now, left |-> listed]
<1>2. m \in Ticks
  BY <1>0 DEF TableType, RestType, Ticks, Enrolled
<1>3. tick' = [tick EXCEPT ![s] = m] /\ pc' = [pc EXCEPT ![s] = "next"]
  BY DEF ListTriggers
<1>4. fire[s] \in Calls /\ fire' = [fire EXCEPT ![s] = fire[s]]
  BY <1>0 DEF FireType, Calls, ListTriggers
<1>5. /\ TickType' /\ FireType' /\ pc'[s] = "next" /\ tick'[s] = m
      /\ \A t \in Schedulers \ {s} : pc'[t] = pc[t] /\ tick'[t] = tick[t] /\ fire'[t] = fire[t]
  <2> HIDE DEF m
  <2> QED BY <1>0, <1>2, <1>3, <1>4, TickWrites DEF Pcs
<1>6. ReadyAt(s)'
  BY <1>0, <1>5 DEF ReadyAt, RestType, Enrolled
<1>7. Ready'
  <2>1. lease'.generation <= starts' + 1
    BY <1>0 DEF ListTriggers, Ready, bounds
  <2> QED BY <1>0, <1>5, <1>6, <2>1, OthersReady
<1> QED BY <1>1, <1>5, <1>7, TypePartsNext DEF TypeInv

LEMMA ConsiderType ==
    ASSUME TypeInv, NEW s \in Schedulers, NEW k \in Keys, Consider(s, k)
    PROVE  TypeInv'
<1>0. TableType /\ TickType /\ FireType /\ RestType /\ Ready /\ ReadyAt(s)
  BY TypeParts DEF TypeInv, Ready
<1>1. TableType'
  BY <1>0 DEF TableType, Consider, tables
<1>2. PICK unknown \in BOOLEAN :
        /\ unknown => failures < MaxFailures
        /\ failures' = IF unknown THEN failures + 1 ELSE failures
        /\ fire' = [fire EXCEPT ![s] =
                [key |-> k, due |-> DueOf(tick[s].rows[k], tick[s].moment),
                 blocked |-> unknown \/ Blocked(k, tick[s].rows[k]),
                 generation |-> 0, outcome |-> "none"]]
  BY DEF Consider
<1>3. failures' \in 0..MaxFailures
  BY <1>0, <1>2, BoundsAreNat DEF RestType
<1>4. RestType'
  BY <1>0, <1>3 DEF RestType, Consider
<1> DEFINE r == tick[s].rows[k]
           due == DueOf(r, tick[s].moment)
           m == [tick[s] EXCEPT !.left = @ \ {k}]
<1>5. /\ tick[s].moment \in Times /\ r \in Trigger /\ r.created # Never /\ k \in tick[s].left
      /\ tick[s] \in Ticks /\ pc[s] = "next"
  BY <1>0 DEF ReadyAt, Consider, TickType, Ticks
<1>6. due \in Nat
  <2>1. r.policy \in Policies /\ r.created \in Times
        /\ r.engaged \in Times \cup {Never} /\ r.lastDue \in Times \cup {Never}
    BY <1>5 DEF Trigger
  <2> HIDE DEF r
  <2> QED BY <1>5, <2>1, RowDue DEF DueOf
<1>7. PICK b \in BOOLEAN : b = (unknown \/ Blocked(k, r))
  OBVIOUS
<1> DEFINE f == [key |-> k, due |-> due, blocked |-> b, generation |-> 0, outcome |-> "none"]
<1>8. f \in Calls /\ f.key = k /\ f.due = due
  <2> HIDE DEF due
  <2> QED BY <1>6, BoundsAreNat DEF Calls
<1>9. m \in Ticks /\ m.left \subseteq tick[s].left /\ m.rows = tick[s].rows
      /\ m.moment = tick[s].moment
  BY <1>5 DEF Ticks
<1>10. /\ tick' = [tick EXCEPT ![s] = m] /\ pc' = [pc EXCEPT ![s] = "check"]
       /\ fire' = [fire EXCEPT ![s] = f]
  BY <1>2, <1>7 DEF Consider
<1> HIDE DEF f, m
<1>11. /\ TickType' /\ FireType' /\ pc'[s] = "check" /\ tick'[s] = m /\ fire'[s] = f
       /\ \A t \in Schedulers \ {s} : pc'[t] = pc[t] /\ tick'[t] = tick[t] /\ fire'[t] = fire[t]
  BY <1>0, <1>8, <1>9, <1>10, TickWrites DEF Pcs
<1>12. ReadyAt(s)'
  BY <1>0, <1>5, <1>6, <1>8, <1>9, <1>11 DEF ReadyAt
<1>13. Ready'
  <2>1. lease'.generation <= starts' + 1
    BY <1>0 DEF Consider, Ready
  <2> QED BY <1>0, <1>11, <1>12, <2>1, OthersReady
<1> QED BY <1>1, <1>4, <1>11, <1>13, TypePartsNext DEF TypeInv

\* A process that registers a handler, or skips a row for want of one, has read
\* what it read before, or nothing.
LEMMA RegisterType ==
    ASSUME TypeInv, NEW s \in Schedulers, RegisterHandler(s)
    PROVE  TypeInv'
<1>0. TableType /\ TickType /\ FireType /\ RestType /\ Ready
  BY TypeParts DEF TypeInv
<1>1. TableType' /\ TickType' /\ FireType' /\ RestType'
  BY <1>0 DEF TableType, TickType, FireType, RestType, RegisterHandler, tables, bounds
<1>2. Ready'
  BY <1>0 DEF Ready, ReadyAt, RegisterHandler, bounds
<1> QED BY <1>1, <1>2, TypePartsNext DEF TypeInv

LEMMA NoHandlerType ==
    ASSUME TypeInv, NEW s \in Schedulers, NEW k \in Keys, NoHandler(s, k)
    PROVE  TypeInv'
<1>0. TableType /\ TickType /\ FireType /\ RestType /\ Ready /\ ReadyAt(s) /\ pc[s] = "next"
  BY TypeParts DEF TypeInv, Ready, NoHandler
<1>1. TableType' /\ RestType' /\ lease'.generation <= starts' + 1
  BY <1>0 DEF TableType, RestType, Ready, NoHandler, tables, bounds
<1>2. tick[s] \in Ticks /\ fire[s] \in Calls /\ fire' = [fire EXCEPT ![s] = fire[s]]
  BY <1>0 DEF TickType, FireType, Ticks, Calls, NoHandler
<1> DEFINE m == [tick[s] EXCEPT !.left = tick[s].left \ {k}]
<1>3. m \in Ticks /\ m.left \subseteq tick[s].left /\ m.rows = tick[s].rows
      /\ m.moment = tick[s].moment
  BY <1>2 DEF Ticks
<1>4. CASE tick[s].left \ {k} = {}
  <2>1. tick' = [tick EXCEPT ![s] = NoTick] /\ pc' = [pc EXCEPT ![s] = "idle"]
    BY <1>4 DEF NoHandler
  <2>2. /\ TickType' /\ FireType' /\ pc'[s] = "idle"
        /\ \A t \in Schedulers \ {s} : pc'[t] = pc[t] /\ tick'[t] = tick[t] /\ fire'[t] = fire[t]
    BY <1>0, <1>2, <2>1, Blanks, TickWrites DEF Pcs
  <2>3. ReadyAt(s)'
    BY <2>2 DEF ReadyAt
  <2> QED BY <1>0, <1>1, <2>2, <2>3, OthersReady, TypePartsNext DEF TypeInv
<1>5. CASE tick[s].left \ {k} # {}
  <2>1. tick' = [tick EXCEPT ![s] = m] /\ pc' = [pc EXCEPT ![s] = "next"]
    BY <1>0, <1>5 DEF NoHandler, TickType
  <2> HIDE DEF m
  <2>2. /\ TickType' /\ FireType' /\ pc'[s] = "next" /\ tick'[s] = m
        /\ \A t \in Schedulers \ {s} : pc'[t] = pc[t] /\ tick'[t] = tick[t] /\ fire'[t] = fire[t]
    BY <1>0, <1>2, <1>3, <2>1, TickWrites DEF Pcs
  <2>3. ReadyAt(s)'
    BY <1>0, <1>3, <2>2 DEF ReadyAt
  <2> QED BY <1>0, <1>1, <2>2, <2>3, OthersReady, TypePartsNext DEF TypeInv
<1> QED BY <1>4, <1>5

LEMMA CheckType ==
    ASSUME TypeInv, NEW s \in Schedulers, CheckLease(s)
    PROVE  TypeInv'
<1>0. TableType /\ TickType /\ FireType /\ RestType /\ Ready /\ ReadyAt(s) /\ pc[s] = "check"
  BY TypeParts DEF TypeInv, Ready, CheckLease
<1>1. TableType' /\ RestType' /\ lease'.generation <= starts' + 1
  BY <1>0 DEF TableType, RestType, Ready, CheckLease, tables, bounds
<1>2. CASE Held(s)
  <2>1. fire[s] \in Calls /\ lease.generation \in 0..MaxStarts + 1
    BY <1>0, BoundsAreNat DEF FireType, RestType, Calls
  <2> DEFINE f == [fire[s] EXCEPT !.generation = lease.generation]
  <2>2. f \in Calls /\ f.key = fire[s].key /\ f.due = fire[s].due
    BY <2>1 DEF Calls
  <2>3. fire' = [fire EXCEPT ![s] = f]
    BY <1>0, <1>2 DEF CheckLease, FireType
  <2>4. PICK l \in {"decide", "settle"} : Goto(s, l)
    BY <1>2 DEF CheckLease
  <2> HIDE DEF f
  <2> QED BY <1>0, <1>1, <2>2, <2>3, <2>4, GotoType, TypePartsNext DEF TypeInv, Pcs
<1>3. CASE ~Held(s)
  <2>1. /\ TickType' /\ FireType' /\ pc'[s] = "idle"
        /\ \A t \in Schedulers \ {s} : pc'[t] = pc[t] /\ tick'[t] = tick[t] /\ fire'[t] = fire[t]
    BY <1>0, <1>3, Blanks, TickWrites DEF CheckLease, Pcs
  <2>2. ReadyAt(s)'
    BY <2>1 DEF ReadyAt
  <2> QED BY <1>0, <1>1, <2>1, <2>2, OthersReady, TypePartsNext DEF TypeInv
<1> QED BY <1>2, <1>3

LEMMA OutcomeWrites ==
    ASSUME NEW w \in Fire, NEW outcome \in Settled
    PROVE  [w EXCEPT !.outcome = outcome] \in Fire
BY DEF Fire

LEMMA SettleTables ==
    ASSUME TableType, NEW g, NEW i, SettleLostClaims(g, i)
    PROVE  triggers' \in [Keys -> Trigger] /\ fires' \in [Keys -> [Times -> Fire]]
<1>1. ASSUME NEW k \in Keys, NEW due \in Times
      PROVE  [fires[k][due] EXCEPT !.outcome = "lost"] \in Fire /\ fires[k][due] \in Fire
  <2>1. fires[k][due] \in Fire
    BY DEF TableType
  <2> QED BY <2>1, OutcomeWrites DEF Settled
<1>2. ASSUME NEW k \in Keys
      PROVE  [triggers[k] EXCEPT !.lastRun = NoLastRun] \in Trigger /\ triggers[k] \in Trigger
  <2>1. NoLastRun \in LastRun
    BY DEF NoLastRun, LastRun
  <2> QED BY <2>1, ColumnWrites DEF TableType
<1> QED BY <1>1, <1>2, Zenon DEF SettleLostClaims

LEMMA SettleType ==
    ASSUME TypeInv, NEW s \in Schedulers, Settle(s)
    PROVE  TypeInv'
<1>0. TableType /\ TickType /\ FireType /\ RestType /\ Ready /\ ReadyAt(s) /\ pc[s] = "settle"
  BY TypeParts DEF TypeInv, Ready, Settle
<1>1. TableType'
  <2>1. triggers' \in [Keys -> Trigger] /\ fires' \in [Keys -> [Times -> Fire]]
    BY <1>0, SettleTables DEF Settle
  <2> QED BY <1>0, <2>1 DEF TableType, Settle
<1>2. fire[s] \in Calls /\ fire' = [fire EXCEPT ![s] = fire[s]]
  BY <1>0 DEF FireType, Calls, Settle
<1>3. RestType' /\ lease'.generation <= starts' + 1
  BY <1>0, <1>2 DEF RestType, Ready, Settle, bounds, Calls
<1>4. TickType' /\ FireType' /\ Ready'
  BY <1>0, <1>2, <1>3, GotoType DEF Settle, Pcs
<1> QED BY <1>1, <1>3, <1>4, TypePartsNext DEF TypeInv

\* The steps that leave the tables as they are and only go on.
LEMMA DecideType ==
    ASSUME TypeInv, NEW s \in Schedulers, Decide(s) \/ ClaimRefused(s)
    PROVE  TypeInv'
<1>0. TableType /\ TickType /\ FireType /\ RestType /\ Ready /\ ReadyAt(s)
      /\ pc[s] \in {"decide", "claim"}
  BY TypeParts DEF TypeInv, Ready, Decide, ClaimRefused
<1>1. TableType' /\ RestType' /\ lease'.generation <= starts' + 1
  BY <1>0 DEF TableType, RestType, Ready, Decide, ClaimRefused, tables, bounds
<1>2. CASE Leave(s)
  BY <1>0, <1>1, <1>2, LeaveType, TypePartsNext DEF TypeInv
<1>3. CASE Goto(s, "claim") /\ UNCHANGED fire
  <2>1. fire[s] \in Calls /\ fire' = [fire EXCEPT ![s] = fire[s]]
    BY <1>0, <1>3 DEF FireType, Calls
  <2> QED BY <1>0, <1>1, <1>3, <2>1, GotoType, TypePartsNext DEF TypeInv, Pcs
<1> QED BY <1>2, <1>3 DEF Decide, ClaimRefused

LEMMA ClaimType ==
    ASSUME TypeInv, NEW s \in Schedulers, Claim(s)
    PROVE  TypeInv'
<1>0. TableType /\ TickType /\ FireType /\ RestType /\ Ready /\ ReadyAt(s) /\ pc[s] = "claim"
  BY TypeParts DEF TypeInv, Ready, Claim
<1>1. fire[s] \in Calls /\ fire' = [fire EXCEPT ![s] = fire[s]]
  BY <1>0 DEF FireType, Calls, Claim
<1>2. fire[s].key \in Keys /\ fire[s].due \in Times
  <2>1. fire[s].key \in Keys /\ fire[s].due \in Nat /\ fire[s].due <= now /\ now \in Times
    BY <1>0 DEF ReadyAt, Claim, MayClaim, Admitted, Eligible, RestType
  <2> QED BY <2>1, BoundsAreNat DEF Times
<1> DEFINE k == fire[s].key
           d == fire[s].due
           g == fire[s].generation
           i == inc[s]
<1>3. triggers[k] \in Trigger /\ fires[k] \in [Times -> Fire]
  BY <1>0, <1>2 DEF TableType
<1>4. TableType'
  <2>1. triggers' \in [Keys -> Trigger]
    <3>1. triggers' = [triggers EXCEPT ![k] = [triggers[k] EXCEPT
              !.lastDue = d, !.lastRun = [kind |-> "claim", due |-> d], !.revision = @ + 1]]
      BY <1>0, <1>2 DEF TableType, Claim, Claims
    <3> QED BY <1>0, <1>2, <1>3, <3>1, TriggerWrites DEF TableType
  <2>2. fires' \in [Keys -> [Times -> Fire]]
    <3>1. PICK w \in Fire : w = [outcome |-> "claimed", generation |-> g, incarnation |-> i]
      BY <1>0, <1>1 DEF Fire, Calls, RestType
    <3>2. fires' = [fires EXCEPT ![k] = [fires[k] EXCEPT ![d] = w]]
      BY <1>0, <1>2, <3>1 DEF TableType, Claim, Claims
    <3> QED BY <1>0, <1>2, <1>3, <3>2 DEF TableType
  <2> QED BY <1>0, <2>1, <2>2 DEF TableType, Claim
<1>5. RestType' /\ lease'.generation <= starts' + 1
  BY <1>0 DEF RestType, Ready, Claim, bounds
<1>6. TickType' /\ FireType' /\ Ready'
  BY <1>0, <1>1, <1>2, <1>5, GotoType DEF Claim, Pcs
<1> QED BY <1>4, <1>5, <1>6, TypePartsNext DEF TypeInv

LEMMA WakeType ==
    ASSUME TypeInv, NEW s \in Schedulers, NEW outcome \in {"started", "declined", "failed"},
           Wake(s, outcome)
    PROVE  TypeInv'
<1>0. TableType /\ TickType /\ FireType /\ RestType /\ Ready /\ ReadyAt(s) /\ pc[s] = "wake"
  BY TypeParts DEF TypeInv, Ready, Wake
<1> DEFINE f == [fire[s] EXCEPT !.outcome = outcome]
<1>1. fire[s] \in Calls /\ f \in Calls /\ fire' = [fire EXCEPT ![s] = f]
      /\ f.key = fire[s].key /\ f.due = fire[s].due /\ f.outcome = outcome
  BY <1>0 DEF FireType, Calls, Wake
<1>2. fire[s].key \in Keys /\ fire[s].due \in Times
  BY <1>0 DEF ReadyAt
<1>3. TableType'
  <2>1. calls' \in [Keys -> [Times -> 0..2]]
    <3> DEFINE k == fire[s].key
               d == fire[s].due
    <3>1. calls[k] \in [Times -> 0..2] /\ calls[k][d] \in 0..2
      BY <1>0, <1>2 DEF TableType
    <3>2. PICK n \in 0..2 : n = IF calls[k][d] = 2 THEN 2 ELSE calls[k][d] + 1
      BY <3>1
    <3>3. calls' = [calls EXCEPT ![k] = [calls[k] EXCEPT ![d] = n]]
      BY <1>0, <1>2, <3>2 DEF TableType, Wake
    <3> HIDE DEF k, d
    <3> QED BY <1>0, <1>2, <3>1, <3>3 DEF TableType, k
  <2>2. runs' \in [Keys -> [Times -> {"none", "live", "orphan", "done"}]]
    BY <1>0, <1>2 DEF TableType, Wake
  <2> QED BY <1>0, <2>1, <2>2 DEF TableType, Wake, tables
<1>4. RestType' /\ lease'.generation <= starts' + 1
  BY <1>0 DEF RestType, Ready, Wake, bounds
<1>5. TickType' /\ FireType' /\ Ready'
  <2>1. Goto(s, "finish")
    BY DEF Wake
  <2> HIDE DEF f
  <2> QED BY <1>0, <1>1, <1>2, <1>4, <2>1, GotoType DEF Pcs
<1> QED BY <1>3, <1>4, <1>5, TypePartsNext DEF TypeInv

LEMMA FinishTables ==
    ASSUME TableType, NEW k \in Keys, NEW d \in Times,
           NEW outcome \in {"started", "declined", "failed"}
    PROVE  /\ Finished(k, d, outcome) \in [Keys -> [Times -> Fire]]
           /\ [triggers EXCEPT ![k].lastRun = AfterFire(d, outcome)] \in [Keys -> Trigger]
<1>1. fires[k] \in [Times -> Fire] /\ fires[k][d] \in Fire /\ triggers[k] \in Trigger
  BY DEF TableType
<1>2. PICK w \in Fire :
        w = [fires[k][d] EXCEPT !.outcome = IF @ = "claimed" THEN outcome ELSE @]
  <2>1. CASE fires[k][d].outcome = "claimed"
    BY <1>1, <2>1, OutcomeWrites DEF Settled
  <2>2. CASE fires[k][d].outcome # "claimed"
    <3>1. [fires[k][d] EXCEPT !.outcome = @] = fires[k][d]
      BY <1>1 DEF Fire
    <3> QED BY <1>1, <2>2, <3>1
  <2> QED BY <2>1, <2>2
<1>3. Finished(k, d, outcome) = [fires EXCEPT ![k] = [fires[k] EXCEPT ![d] = w]]
  BY <1>1, <1>2 DEF Finished
<1>4. Finished(k, d, outcome) \in [Keys -> [Times -> Fire]]
  BY <1>1, <1>2, <1>3 DEF TableType
<1>5. AfterFire(d, outcome) \in LastRun
  BY DEF AfterFire, LastRun, NoLastRun
<1>6. [triggers[k] EXCEPT !.lastRun = AfterFire(d, outcome)] \in Trigger
  BY <1>1, <1>5, ColumnWrites
<1> QED BY <1>4, <1>6 DEF TableType

LEMMA FinishType ==
    ASSUME TypeInv, NEW s \in Schedulers, FinishFire(s)
    PROVE  TypeInv'
<1>0. TableType /\ TickType /\ FireType /\ RestType /\ Ready /\ ReadyAt(s) /\ pc[s] = "finish"
  BY TypeParts DEF TypeInv, Ready, FinishFire
<1>1. /\ fire[s].key \in Keys /\ fire[s].due \in Times
      /\ fire[s].outcome \in {"started", "declined", "failed"}
  BY <1>0 DEF ReadyAt
<1>2. TableType'
  <2>1. triggers' \in [Keys -> Trigger] /\ fires' \in [Keys -> [Times -> Fire]]
    BY <1>0, <1>1, FinishTables DEF FinishFire, TableType
  <2> QED BY <1>0, <2>1 DEF TableType, FinishFire
<1>3. RestType' /\ lease'.generation <= starts' + 1
  BY <1>0 DEF RestType, Ready, FinishFire, bounds
<1>4. TickType' /\ FireType' /\ Ready'
  BY <1>0, <1>3, LeaveType DEF FinishFire
<1> QED BY <1>2, <1>3, <1>4, TypePartsNext DEF TypeInv

LEMMA FailType ==
    ASSUME TypeInv, NEW s \in Schedulers, StoreFails(s)
    PROVE  TypeInv'
<1>0. TableType /\ TickType /\ FireType /\ RestType /\ Ready
  BY TypeParts DEF TypeInv
<1>1. TableType' /\ lease'.generation <= starts' + 1
  BY <1>0 DEF TableType, Ready, StoreFails, tables
<1>2. failures' \in 0..MaxFailures
  BY <1>0, BoundsAreNat DEF RestType, StoreFails
<1>3. RestType'
  BY <1>0, <1>2 DEF RestType, StoreFails
<1>4. TickType' /\ FireType' /\ Ready'
  <2>1. pc[s] \notin {"off", "idle"} /\ Leave(s)
    BY DEF StoreFails
  <2> QED BY <1>1, <2>1, LeaveType
<1> QED BY <1>1, <1>3, <1>4, TypePartsNext DEF TypeInv

LEMMA CrashType ==
    ASSUME TypeInv, NEW s \in Schedulers, Crash(s)
    PROVE  TypeInv'
<1>0. TableType /\ TickType /\ FireType /\ RestType /\ Ready
  BY TypeParts DEF TypeInv
<1>1. TableType' /\ lease'.generation <= starts' + 1
  BY <1>0 DEF TableType, Ready, Crash, tables
<1>2. crashes' \in 0..MaxCrashes
  BY <1>0, BoundsAreNat DEF RestType, Crash
<1>3. RestType'
  BY <1>0, <1>2 DEF RestType, Crash
<1>4. /\ TickType' /\ FireType' /\ pc'[s] = "off"
      /\ \A t \in Schedulers \ {s} : pc'[t] = pc[t] /\ tick'[t] = tick[t] /\ fire'[t] = fire[t]
  BY <1>0, Blanks, TickWrites DEF Crash, Pcs
<1>5. ReadyAt(s)'
  BY <1>4 DEF ReadyAt
<1> QED BY <1>0, <1>1, <1>3, <1>4, <1>5, OthersReady, TypePartsNext DEF TypeInv

LEMMA WorldType ==
    ASSUME TypeInv, Clock \/ \E k \in Keys : \E due \in Times : RunEnds(k, due)
    PROVE  TypeInv'
<1>0. TableType /\ TickType /\ FireType /\ RestType /\ Ready
  BY TypeParts DEF TypeInv
<1>1. now' \in Times
  BY <1>0, BoundsAreNat DEF RestType, Times, Clock, RunEnds
<1>2. UNCHANGED <<triggers, fires, calls, owner, bounds>>
  BY DEF Clock, RunEnds, tables
<1>3. runs' \in [Keys -> [Times -> {"none", "live", "orphan", "done"}]]
  <2>1. CASE Clock
    BY <1>0, <2>1 DEF TableType, Clock
  <2>2. ASSUME NEW k \in Keys, NEW d \in Times, RunEnds(k, d)
        PROVE  runs' \in [Keys -> [Times -> {"none", "live", "orphan", "done"}]]
    <3>1. runs' = [runs EXCEPT ![k] = [runs[k] EXCEPT ![d] = "done"]]
      BY <1>0, <2>2 DEF TableType, RunEnds
    <3>2. runs[k] \in [Times -> {"none", "live", "orphan", "done"}]
      BY <1>0 DEF TableType
    <3> QED BY <1>0, <3>1, <3>2 DEF TableType
  <2> QED BY <2>1, <2>2
<1>4. TableType' /\ TickType' /\ FireType' /\ RestType'
  BY <1>0, <1>1, <1>2, <1>3 DEF TableType, TickType, FireType, RestType, owner, bounds
<1>5. Ready'
  BY <1>0, <1>2 DEF Ready, ReadyAt, owner, bounds
<1> QED BY <1>4, <1>5, TypePartsNext DEF TypeInv

LEMMA StepType == TypeInv /\ [Next]_vars => TypeInv'
<1> SUFFICES ASSUME TypeInv, [Next]_vars PROVE TypeInv'
  OBVIOUS
<1>1. CASE UNCHANGED vars
  BY <1>1 DEF vars, TypeInv, TypeOK, Ready, ReadyAt
<1>2. ASSUME NEW k \in Keys, OwnerEdit(k) PROVE TypeInv'
  BY <1>2, OwnerType
<1>3. ASSUME NEW s \in Schedulers, TickStep(s) PROVE TypeInv'
  BY <1>3, ListType, NoHandlerType, ConsiderType, CheckType, SettleType, DecideType, ClaimType, WakeType,
     FinishType DEF TickStep
<1>4. ASSUME NEW s \in Schedulers, Boot(s) \/ RegisterHandler(s) \/ StoreFails(s) \/ Crash(s)
      PROVE TypeInv'
  BY <1>4, BootType, RegisterType, FailType, CrashType
<1> QED BY <1>1, <1>2, <1>3, <1>4, WorldType DEF Next

\* Every variable keeps its type, and a process in a tick has read what it uses.
THEOREM TypeCorrect == Spec => []TypeOK
<1>1. Init => TypeInv
  BY InitType
<1>2. TypeInv => TypeOK
  BY DEF TypeInv
<1> QED BY <1>1, <1>2, StepType, PTL DEF Spec

-----------------------------------------------------------------------------
(* The handler of a due instant.                                           *)

AtWake(s, k, d) == pc[s] = "wake" /\ fire[s].key = k /\ fire[s].due = d

\* A due instant without a fire row has not been handled; one that a process is
\* about to handle has its row, has not been handled yet, and is no one else's.
CallInv ==
    /\ \A k \in Keys : \A d \in Times :
        /\ calls[k][d] <= 1
        /\ fires[k][d].outcome = "none" => calls[k][d] = 0
        /\ \A s \in Schedulers : AtWake(s, k, d) =>
            /\ fires[k][d].outcome # "none" /\ calls[k][d] = 0
            /\ \A t \in Schedulers \ {s} : ~AtWake(t, k, d)

\* No step but a claim makes a process ready to call, or a row of nothing; and no
\* step unmakes a row.
LEMMA QuietStep ==
    ASSUME CallInv, UNCHANGED calls,
           \A k \in Keys : \A d \in Times :
                /\ fires'[k][d].outcome = "none" => fires[k][d].outcome = "none"
                /\ \A s \in Schedulers : AtWake(s, k, d)' => AtWake(s, k, d)
    PROVE  CallInv'
BY DEF CallInv

\* What a step does to a fire row that there is: nothing, or it settles a claim.
FireRowStays ==
    \A k \in Keys : \A d \in Times :
        \/ fires'[k][d] = fires[k][d]
        \/ fires[k][d].outcome = "claimed" /\ fires'[k][d].outcome \in Settled

LEMMA SettleKeepsRows ==
    ASSUME NEW s \in Schedulers, Settle(s)
    PROVE  FireRowStays
<1>1. ASSUME NEW g, NEW i, NEW k \in Keys, NEW d \in Times, SettleLostClaims(g, i)
      PROVE  \/ fires'[k][d] = fires[k][d]
             \/ fires[k][d].outcome = "claimed" /\ fires'[k][d].outcome = "lost"
  BY <1>1 DEF SettleLostClaims, Lost
<1> QED BY <1>1 DEF Settle, FireRowStays, Settled

LEMMA FinishKeepsRows ==
    ASSUME TypeInv, NEW s \in Schedulers, FinishFire(s)
    PROVE  FireRowStays
<1> DEFINE k == fire[s].key
           d == fire[s].due
           o == fire[s].outcome
<1>1. TableType /\ k \in Keys /\ d \in Times /\ o \in {"started", "declined", "failed"}
  BY TypeParts DEF TypeInv, Ready, ReadyAt, FinishFire
<1>2. fires' = Finished(k, d, o)
  BY DEF FinishFire
<1>3. fires[k][d] \in Fire
  BY <1>1 DEF TableType
<1>4. ASSUME NEW x \in Keys, NEW e \in Times
      PROVE  \/ fires'[x][e] = fires[x][e]
             \/ fires[x][e].outcome = "claimed" /\ fires'[x][e].outcome = o
  <2> HIDE DEF k, d, o
  <2>1. CASE x = k /\ e = d
    <3>1. fires'[x][e] = [fires[k][d] EXCEPT !.outcome = IF @ = "claimed" THEN o ELSE @]
      BY <1>1, <1>2, <2>1 DEF Finished, TableType
    <3> QED BY <1>3, <2>1, <3>1 DEF Fire
  <2>2. CASE ~(x = k /\ e = d)
    BY <1>1, <1>2, <2>2 DEF Finished, TableType
  <2> QED BY <2>1, <2>2
<1> QED BY <1>1, <1>4 DEF FireRowStays, Settled

LEMMA ClaimRow ==
    ASSUME TypeInv, NEW s \in Schedulers, Claim(s)
    PROVE  /\ fire[s].key \in Keys /\ fire[s].due \in Times
           /\ fires[fire[s].key][fire[s].due].outcome = "none"
           /\ fires'[fire[s].key][fire[s].due].outcome = "claimed"
           /\ \A k \in Keys : \A d \in Times :
                fires'[k][d] = fires[k][d] \/ (k = fire[s].key /\ d = fire[s].due)
<1>0. TableType /\ RestType /\ ReadyAt(s)
  BY TypeParts DEF TypeInv, Ready
<1>1. fire[s].key \in Keys /\ fire[s].due \in Times
  <2>1. fire[s].key \in Keys /\ fire[s].due \in Nat /\ fire[s].due <= now /\ now \in Times
    BY <1>0 DEF ReadyAt, Claim, MayClaim, Admitted, Eligible, RestType
  <2> QED BY <2>1, BoundsAreNat DEF Times
<1>2. fires[fire[s].key][fire[s].due].outcome = "none"
  BY DEF Claim, MayClaim, FenceHolds
<1> DEFINE k == fire[s].key
           d == fire[s].due
           g == fire[s].generation
<1>3. PICK w : w = [outcome |-> "claimed", generation |-> g, incarnation |-> inc[s]]
  OBVIOUS
<1>4. fires' = [fires EXCEPT ![k] = [fires[k] EXCEPT ![d] = w]]
  BY <1>0, <1>1, <1>3 DEF TableType, Claim, Claims
<1>5. fires[k] \in [Times -> Fire]
  BY <1>0, <1>1 DEF TableType
<1>6. w.outcome = "claimed"
  BY <1>3
<1> HIDE DEF k, d, g
<1>7. k \in Keys /\ d \in Times
  BY <1>1 DEF k, d
<1>8. fires'[k][d].outcome = "claimed"
  BY <1>0, <1>4, <1>5, <1>6, <1>7 DEF TableType
<1>9. \A x \in Keys : \A e \in Times : fires'[x][e] = fires[x][e] \/ (x = k /\ e = d)
  BY <1>0, <1>4, <1>5, <1>7 DEF TableType
<1> QED BY <1>1, <1>2, <1>8, <1>9 DEF k, d

\* Every step either claims one free due instant or leaves the rows standing.
LEMMA RowSteps ==
    ASSUME TypeInv, [Next]_vars, \A s \in Schedulers : ~Claim(s)
    PROVE  FireRowStays
<1>1. CASE UNCHANGED fires
  BY <1>1 DEF FireRowStays
<1>2. ASSUME NEW s \in Schedulers, Settle(s) PROVE FireRowStays
  BY <1>2, SettleKeepsRows
<1>3. ASSUME NEW s \in Schedulers, FinishFire(s) PROVE FireRowStays
  BY <1>3, FinishKeepsRows
<1>4. CASE UNCHANGED vars
  BY <1>1, <1>4 DEF vars
<1>5. ASSUME NEW k \in Keys, OwnerEdit(k) PROVE UNCHANGED fires
  BY <1>5 DEF OwnerEdit, Ensure, SetEnabled, NoteEngagement, SetCadenceOverride
<1>6. ASSUME NEW s \in Schedulers, TickStep(s), ~Settle(s), ~FinishFire(s) PROVE UNCHANGED fires
  BY <1>6 DEF TickStep, ListTriggers, NoHandler, Consider, CheckLease, Decide, ClaimRefused, Wake, tables
<1>7. ASSUME NEW s \in Schedulers, Boot(s) \/ RegisterHandler(s) \/ StoreFails(s) \/ Crash(s)
      PROVE  UNCHANGED fires
  BY <1>7 DEF Boot, RegisterHandler, StoreFails, Crash, tables
<1>8. ASSUME Clock \/ \E k \in Keys : \E due \in Times : RunEnds(k, due) PROVE UNCHANGED fires
  BY <1>8 DEF Clock, RunEnds, tables
<1> QED BY <1>1, <1>2, <1>3, <1>4, <1>5, <1>6, <1>7, <1>8 DEF Next

\* A fire keeps its outcome: neither a late answer of the handler nor a settlement
\* nor a claim writes a settled row (the outcome guards of finish_fire and
\* settle_lost_claims, the primary key that claim_fire inserts under).
THEOREM OutcomeIsFinalHolds == Spec => OutcomeIsFinal
<1> DEFINE Keeps == \A k \in Keys : \A due \in Times :
                        fires[k][due].outcome \in Settled => fires'[k][due] = fires[k][due]
<1>1. TypeInv /\ [Next]_vars => [Keeps]_vars
  <2> SUFFICES ASSUME TypeInv, [Next]_vars PROVE Keeps
    OBVIOUS
  <2>1. CASE \A s \in Schedulers : ~Claim(s)
    BY <2>1, RowSteps DEF FireRowStays, Settled
  <2>2. ASSUME NEW s \in Schedulers, Claim(s) PROVE Keeps
    BY <2>2, ClaimRow DEF Settled
  <2> QED BY <2>1, <2>2
<1>2. Init => TypeInv
  BY InitType
<1> QED BY <1>1, <1>2, StepType, PTL DEF Spec, OutcomeIsFinal

\* A process stays where it is while another one moves, and does not come to the
\* call by any step but a claim.
Arrivals(s) == pc'[s] = "wake" => pc[s] = "wake" /\ fire'[s] = fire[s]

LEMMA StepsOfOthers ==
    ASSUME TickType, FireType, NEW s \in Schedulers, NEW l \in Pcs \ {"wake"},
           pc' = [pc EXCEPT ![s] = l],
           \A t \in Schedulers \ {s} : fire'[t] = fire[t]
    PROVE  \A t \in Schedulers : Arrivals(t)
BY DEF TickType, Arrivals

LEMMA FireOfOthers ==
    ASSUME FireType, NEW s \in Schedulers, Leave(s) \/ CheckLease(s) \/ Settle(s)
                \/ (\E k \in Keys : Consider(s, k)) \/ Crash(s)
                \/ (\E o \in {"started", "declined", "failed"} : Wake(s, o))
    PROVE  \A t \in Schedulers \ {s} : fire'[t] = fire[t]
BY DEF FireType, Leave, CheckLease, Settle, Consider, Crash, Wake

LEMMA ArrivalSteps ==
    ASSUME TypeInv, [Next]_vars, \A s \in Schedulers : ~Claim(s)
    PROVE  \A t \in Schedulers : Arrivals(t)
<1>0. TickType /\ FireType
  BY TypeParts DEF TypeInv
<1>1. CASE UNCHANGED <<pc, fire>>
  BY <1>1 DEF Arrivals
<1>2. CASE UNCHANGED vars
  BY <1>1, <1>2 DEF vars
<1>3. ASSUME NEW k \in Keys, OwnerEdit(k) PROVE UNCHANGED <<pc, fire>>
  BY <1>3 DEF OwnerEdit, Ensure, SetEnabled, NoteEngagement, SetCadenceOverride, owner
<1>4. ASSUME \/ Clock \/ \E k \in Keys : \E due \in Times : RunEnds(k, due)
             \/ \E s \in Schedulers : RegisterHandler(s)
      PROVE  UNCHANGED <<pc, fire>>
  BY <1>4 DEF Clock, RunEnds, RegisterHandler, owner
<1>5. ASSUME NEW s \in Schedulers, Leave(s) PROVE \A t \in Schedulers : Arrivals(t)
  <2>1. PICK l \in Pcs \ {"wake"} : pc' = [pc EXCEPT ![s] = l]
    BY <1>5 DEF Leave, Goto, Pcs
  <2> QED BY <1>0, <1>5, <2>1, StepsOfOthers, FireOfOthers
<1>6. ASSUME NEW s \in Schedulers, Boot(s) \/ ListTriggers(s) \/ \E k \in Keys : NoHandler(s, k)
      PROVE  \A t \in Schedulers : Arrivals(t)
  <2>1. PICK l \in Pcs \ {"wake"} : pc' = [pc EXCEPT ![s] = l] /\ UNCHANGED fire
    BY <1>6 DEF Boot, ListTriggers, NoHandler, Pcs
  <2> QED BY <1>0, <2>1, StepsOfOthers
<1>7. ASSUME NEW s \in Schedulers,
             CheckLease(s) \/ Settle(s) \/ (\E k \in Keys : Consider(s, k)) \/ Crash(s)
                \/ (\E o \in {"started", "declined", "failed"} : Wake(s, o))
      PROVE  \A t \in Schedulers : Arrivals(t)
  <2>1. PICK l \in Pcs \ {"wake"} : pc' = [pc EXCEPT ![s] = l]
    BY <1>7 DEF CheckLease, Settle, Consider, Crash, Wake, Goto, Pcs
  <2> QED BY <1>0, <1>7, <2>1, StepsOfOthers, FireOfOthers
<1>8. ASSUME NEW s \in Schedulers, Decide(s) \/ ClaimRefused(s) \/ FinishFire(s) \/ StoreFails(s)
      PROVE  \A t \in Schedulers : Arrivals(t)
  <2>1. CASE Leave(s)
    BY <1>5, <2>1
  <2>2. CASE Goto(s, "claim") /\ UNCHANGED fire
    BY <1>0, <2>2, StepsOfOthers DEF Goto, Pcs
  <2> QED BY <1>8, <2>1, <2>2 DEF Decide, ClaimRefused, FinishFire, StoreFails
<1> QED BY <1>1, <1>2, <1>3, <1>4, <1>6, <1>7, <1>8 DEF Next, TickStep

\* The claim takes a due instant that nobody has handled or is about to.
LEMMA ClaimCalls ==
    ASSUME TypeInv, CallInv, NEW s \in Schedulers, Claim(s)
    PROVE  CallInv'
<1>0. TickType /\ UNCHANGED <<calls, fire>>
  BY TypeParts DEF TypeInv, Claim
<1>1. \A t \in Schedulers : pc'[t] = IF t = s THEN "wake" ELSE pc[t]
  BY <1>0 DEF Claim, Goto, TickType
<1>2. SUFFICES ASSUME NEW k \in Keys, NEW d \in Times
               PROVE  /\ calls[k][d] <= 1
                      /\ fires'[k][d].outcome = "none" => calls[k][d] = 0
                      /\ \A t \in Schedulers : AtWake(t, k, d)' =>
                            /\ fires'[k][d].outcome # "none" /\ calls[k][d] = 0
                            /\ \A u \in Schedulers \ {t} : ~AtWake(u, k, d)'
  BY <1>0 DEF CallInv
<1>3. CASE k = fire[s].key /\ d = fire[s].due
  <2>1. fires[k][d].outcome = "none" /\ fires'[k][d].outcome = "claimed"
    BY <1>3, ClaimRow
  <2>2. calls[k][d] = 0 /\ \A t \in Schedulers : ~AtWake(t, k, d)
    BY <2>1 DEF CallInv
  <2>3. \A t \in Schedulers \ {s} : ~AtWake(t, k, d)'
    BY <1>0, <1>1, <2>2 DEF AtWake
  <2> QED BY <2>1, <2>2, <2>3
<1>4. CASE ~(k = fire[s].key /\ d = fire[s].due)
  <2>1. fires'[k][d] = fires[k][d]
    BY <1>4, ClaimRow
  <2>2. \A t \in Schedulers : AtWake(t, k, d)' => AtWake(t, k, d)
    BY <1>0, <1>1, <1>4 DEF AtWake
  <2> QED BY <2>1, <2>2 DEF CallInv
<1> QED BY <1>3, <1>4

\* The call itself: a due instant that is handled now has not been handled.
LEMMA WakeCalls ==
    ASSUME TypeInv, CallInv, NEW s \in Schedulers, NEW o \in {"started", "declined", "failed"},
           Wake(s, o)
    PROVE  CallInv'
<1>0. TableType /\ TickType /\ ReadyAt(s) /\ UNCHANGED fires
  BY TypeParts DEF TypeInv, Ready, Wake, tables
<1> DEFINE x == fire[s].key
           e == fire[s].due
<1>1. x \in Keys /\ e \in Times /\ AtWake(s, x, e)
  BY <1>0 DEF ReadyAt, Wake, AtWake
<1>2. calls[x][e] = 0 /\ fires[x][e].outcome # "none"
      /\ \A t \in Schedulers \ {s} : ~AtWake(t, x, e)
  BY <1>1 DEF CallInv
<1>3. calls' = [calls EXCEPT ![x] = [calls[x] EXCEPT ![e] = 1]]
  BY <1>0, <1>1, <1>2 DEF Wake, TableType
<1>4. calls[x] \in [Times -> 0..2]
  BY <1>0, <1>1 DEF TableType
<1>5. \A t \in Schedulers : Arrivals(t)
  <2>1. pc' = [pc EXCEPT ![s] = "finish"] /\ "finish" \in Pcs \ {"wake"} /\ FireType
    BY TypeParts DEF Wake, Goto, Pcs, TypeInv
  <2> QED BY <1>0, <2>1, StepsOfOthers, FireOfOthers
<1>6. pc'[s] = "finish"
  BY <1>0 DEF Wake, Goto, TickType
<1> HIDE DEF x, e
<1>7. calls'[x][e] = 1 /\ \A k \in Keys : \A d \in Times :
        calls'[k][d] = calls[k][d] \/ (k = x /\ d = e)
  BY <1>0, <1>1, <1>3, <1>4 DEF TableType
<1>8. \A k \in Keys : \A d \in Times : \A t \in Schedulers :
        AtWake(t, k, d)' => AtWake(t, k, d) /\ t # s
  BY <1>5, <1>6 DEF Arrivals, AtWake
<1> QED BY <1>0, <1>1, <1>2, <1>7, <1>8 DEF CallInv

LEMMA StepCalls == TypeInv /\ CallInv /\ [Next]_vars => CallInv'
<1> SUFFICES ASSUME TypeInv, CallInv, [Next]_vars PROVE CallInv'
  OBVIOUS
<1>1. ASSUME NEW s \in Schedulers, Claim(s) PROVE CallInv'
  BY <1>1, ClaimCalls
<1>2. ASSUME NEW s \in Schedulers, NEW o \in {"started", "declined", "failed"}, Wake(s, o)
      PROVE  CallInv'
  BY <1>2, WakeCalls
<1>3. CASE UNCHANGED calls /\ \A s \in Schedulers : ~Claim(s)
  <2>1. \A k \in Keys : \A d \in Times :
            fires'[k][d].outcome = "none" => fires[k][d].outcome = "none"
    BY <1>3, RowSteps DEF FireRowStays, Settled
  <2>2. \A k \in Keys : \A d \in Times : \A s \in Schedulers : AtWake(s, k, d)' => AtWake(s, k, d)
    BY <1>3, ArrivalSteps DEF Arrivals, AtWake
  <2> QED BY <1>3, <2>1, <2>2, QuietStep
<1>4. \/ \E s \in Schedulers : Claim(s) \/ \E o \in {"started", "declined", "failed"} : Wake(s, o)
      \/ UNCHANGED calls
  BY DEF Next, OwnerEdit, Ensure, SetEnabled, NoteEngagement, SetCadenceOverride, RunEnds, Boot,
     RegisterHandler, TickStep, ListTriggers, NoHandler, Consider, CheckLease, Settle, Decide, ClaimRefused, FinishFire,
     StoreFails, Crash, Clock, vars
<1> QED BY <1>1, <1>2, <1>3, <1>4

\* The handler is called at most once for a due instant of a trigger, whatever
\* crashes, handovers, failures and edits there are: the claim row is committed
\* before the call, and the call is made only by the process that inserted it.
THEOREM HandlerOnceHolds == Spec => []HandlerOncePerDue
<1>1. Init => TypeInv /\ CallInv
  <2>1. Init => CallInv
    BY DEF Init, CallInv, NoFire, AtWake
  <2> QED BY <2>1, InitType
<1>2. CallInv => HandlerOncePerDue
  BY DEF CallInv, HandlerOncePerDue
<1> QED BY <1>1, <1>2, StepType, StepCalls, PTL DEF Spec

-----------------------------------------------------------------------------
(* The fire ledger.                                                        *)

Answered == {"started", "declined", "failed"}

AtFinish(s, k, d) == pc[s] = "finish" /\ fire[s].key = k /\ fire[s].due = d

\* What is about to be written, or was, is the answer of a call that was made, and
\* "started" the answer of one that began a run.
AnswerInv ==
    \A k \in Keys : \A d \in Times :
        /\ fires[k][d].outcome \in Answered => calls[k][d] = 1
        /\ \A s \in Schedulers : AtFinish(s, k, d) =>
            /\ calls[k][d] = 1
            /\ fire[s].outcome = "started" => runs[k][d] # "none"

\* Nobody comes to the write but by the call.
Answers(s) == pc'[s] = "finish" => pc[s] = "finish" /\ fire'[s] = fire[s]

\* A run that was begun stays in the runs store.
RunsStay == \A k \in Keys : \A d \in Times : runs'[k][d] = "none" <=> runs[k][d] = "none"

LEMMA MovesOfOthers ==
    ASSUME TickType, NEW s \in Schedulers, NEW l \in Pcs \ {"finish"},
           pc' = [pc EXCEPT ![s] = l],
           \A t \in Schedulers \ {s} : fire'[t] = fire[t]
    PROVE  \A t \in Schedulers : Answers(t)
BY DEF TickType, Answers

LEMMA AnswerSteps ==
    ASSUME TypeInv, [Next]_vars, \A s \in Schedulers : \A o \in Answered : ~Wake(s, o)
    PROVE  \A t \in Schedulers : Answers(t)
<1>0. TickType /\ FireType
  BY TypeParts DEF TypeInv
<1>1. CASE UNCHANGED <<pc, fire>>
  BY <1>1 DEF Answers
<1>2. CASE UNCHANGED vars
  BY <1>1, <1>2 DEF vars
<1>3. ASSUME NEW k \in Keys, OwnerEdit(k) PROVE UNCHANGED <<pc, fire>>
  BY <1>3 DEF OwnerEdit, Ensure, SetEnabled, NoteEngagement, SetCadenceOverride, owner
<1>4. ASSUME \/ Clock \/ \E k \in Keys : \E due \in Times : RunEnds(k, due)
             \/ \E s \in Schedulers : RegisterHandler(s)
      PROVE  UNCHANGED <<pc, fire>>
  BY <1>4 DEF Clock, RunEnds, RegisterHandler, owner
<1>5. ASSUME NEW s \in Schedulers, Leave(s) PROVE \A t \in Schedulers : Answers(t)
  <2>1. PICK l \in Pcs \ {"finish"} : pc' = [pc EXCEPT ![s] = l]
    BY <1>5 DEF Leave, Goto, Pcs
  <2> QED BY <1>0, <1>5, <2>1, MovesOfOthers, FireOfOthers
<1>6. ASSUME NEW s \in Schedulers,
             Boot(s) \/ ListTriggers(s) \/ Claim(s) \/ \E k \in Keys : NoHandler(s, k)
      PROVE  \A t \in Schedulers : Answers(t)
  <2>1. PICK l \in Pcs \ {"finish"} : pc' = [pc EXCEPT ![s] = l] /\ UNCHANGED fire
    BY <1>6 DEF Boot, ListTriggers, NoHandler, Claim, Goto, Pcs
  <2> QED BY <1>0, <2>1, MovesOfOthers
<1>7. ASSUME NEW s \in Schedulers,
             CheckLease(s) \/ Settle(s) \/ (\E k \in Keys : Consider(s, k)) \/ Crash(s)
      PROVE  \A t \in Schedulers : Answers(t)
  <2>1. PICK l \in Pcs \ {"finish"} : pc' = [pc EXCEPT ![s] = l]
    BY <1>7 DEF CheckLease, Settle, Consider, Crash, Goto, Pcs
  <2> QED BY <1>0, <1>7, <2>1, MovesOfOthers, FireOfOthers
<1>8. ASSUME NEW s \in Schedulers, Decide(s) \/ ClaimRefused(s) \/ FinishFire(s) \/ StoreFails(s)
      PROVE  \A t \in Schedulers : Answers(t)
  <2>1. CASE Leave(s)
    BY <1>5, <2>1
  <2>2. CASE Goto(s, "claim") /\ UNCHANGED fire
    BY <1>0, <2>2, MovesOfOthers DEF Goto, Pcs
  <2> QED BY <1>8, <2>1, <2>2 DEF Decide, ClaimRefused, FinishFire, StoreFails
<1> QED BY <1>1, <1>2, <1>3, <1>4, <1>6, <1>7, <1>8 DEF Next, TickStep, Answered

LEMMA RunSteps ==
    ASSUME TypeInv, [Next]_vars, \A s \in Schedulers : \A o \in Answered : ~Wake(s, o)
    PROVE  RunsStay
<1>0. TableType
  BY TypeParts DEF TypeInv
<1>1. CASE UNCHANGED runs
  BY <1>1 DEF RunsStay
<1>2. ASSUME NEW k \in Keys, NEW due \in Times, RunEnds(k, due) PROVE RunsStay
  BY <1>0, <1>2 DEF RunEnds, RunIsLive, RunsStay, TableType
<1>3. ASSUME NEW s \in Schedulers, Crash(s) PROVE RunsStay
  BY <1>3 DEF Crash, RunsStay
<1> QED BY <1>1, <1>2, <1>3 DEF Next, OwnerEdit, Ensure, SetEnabled, NoteEngagement,
     SetCadenceOverride, Boot, RegisterHandler, TickStep, ListTriggers, NoHandler, Consider, CheckLease, Settle, Decide,
     Claim, ClaimRefused, FinishFire, StoreFails, Clock, vars, Answered

\* The write settles the row it was made for, if that is still a claim.
LEMMA FinishRow ==
    ASSUME TypeInv, NEW s \in Schedulers, FinishFire(s)
    PROVE  /\ fire[s].key \in Keys /\ fire[s].due \in Times /\ fire[s].outcome \in Answered
           /\ AtFinish(s, fire[s].key, fire[s].due)
           /\ \/ /\ fires[fire[s].key][fire[s].due].outcome = "claimed"
                 /\ fires'[fire[s].key][fire[s].due].outcome = fire[s].outcome
              \/ fires'[fire[s].key][fire[s].due] = fires[fire[s].key][fire[s].due]
           /\ \A k \in Keys : \A d \in Times :
                fires'[k][d] = fires[k][d] \/ (k = fire[s].key /\ d = fire[s].due)
<1> DEFINE k == fire[s].key
           d == fire[s].due
           o == fire[s].outcome
<1>1. TableType /\ k \in Keys /\ d \in Times /\ o \in Answered
  BY TypeParts DEF TypeInv, Ready, ReadyAt, FinishFire, Answered
<1>2. fires' = Finished(k, d, o) /\ AtFinish(s, k, d)
  BY DEF FinishFire, AtFinish
<1>3. fires[k][d] \in Fire
  BY <1>1 DEF TableType
<1> HIDE DEF k, d, o
<1>4. fires'[k][d] = [fires[k][d] EXCEPT !.outcome = IF @ = "claimed" THEN o ELSE @]
  BY <1>1, <1>2 DEF Finished, TableType
<1>5. \/ fires[k][d].outcome = "claimed" /\ fires'[k][d].outcome = o
      \/ fires'[k][d] = fires[k][d]
  BY <1>3, <1>4 DEF Fire
<1>6. \A x \in Keys : \A e \in Times : fires'[x][e] = fires[x][e] \/ (x = k /\ e = d)
  BY <1>1, <1>2 DEF Finished, TableType
<1> QED BY <1>1, <1>2, <1>5, <1>6 DEF k, d, o

LEMMA SettleRow ==
    ASSUME NEW s \in Schedulers, Settle(s), NEW k \in Keys, NEW d \in Times
    PROVE  \/ fires'[k][d] = fires[k][d]
           \/ fires[k][d].outcome = "claimed" /\ fires'[k][d].outcome = "lost"
<1>1. ASSUME NEW g, NEW i, SettleLostClaims(g, i)
      PROVE  \/ fires'[k][d] = fires[k][d]
             \/ fires[k][d].outcome = "claimed" /\ fires'[k][d].outcome = "lost"
  BY <1>1 DEF SettleLostClaims, Lost
<1> QED BY <1>1 DEF Settle

LEMMA OtherRows ==
    ASSUME [Next]_vars, \A s \in Schedulers : ~Claim(s) /\ ~Settle(s) /\ ~FinishFire(s)
    PROVE  UNCHANGED fires
BY DEF Next, OwnerEdit, Ensure, SetEnabled, NoteEngagement, SetCadenceOverride, RunEnds, Boot,
   RegisterHandler, TickStep, ListTriggers, NoHandler, Consider, CheckLease, Decide, ClaimRefused, Wake, StoreFails, Crash,
   Clock, vars, tables

LEMMA AnswerRows ==
    ASSUME TypeInv, [Next]_vars, NEW k \in Keys, NEW d \in Times,
           fires'[k][d].outcome \in Answered, fires[k][d].outcome \notin Answered
    PROVE  \E s \in Schedulers : AtFinish(s, k, d) /\ FinishFire(s)
<1>1. ASSUME NEW s \in Schedulers, FinishFire(s) PROVE AtFinish(s, k, d)
  BY <1>1, FinishRow
<1>2. ASSUME NEW s \in Schedulers, Settle(s) PROVE FALSE
  BY <1>2, SettleRow DEF Answered
<1>3. ASSUME NEW s \in Schedulers, Claim(s) PROVE FALSE
  BY <1>3, ClaimRow DEF Answered
<1> QED BY <1>1, <1>2, <1>3, OtherRows

\* The call goes to a due instant that is claimed, or was when it was given up.
LEMMA WakeRow ==
    ASSUME TypeInv, CallInv, AnswerInv, NEW s \in Schedulers, NEW o \in Answered, Wake(s, o)
    PROVE  /\ fire[s].key \in Keys /\ fire[s].due \in Times
           /\ fires[fire[s].key][fire[s].due].outcome \in {"claimed", "lost"}
           /\ calls[fire[s].key][fire[s].due] = 0
           /\ calls' = [calls EXCEPT ![fire[s].key][fire[s].due] = 1]
           /\ runs' = IF o = "started"
                      THEN [runs EXCEPT ![fire[s].key][fire[s].due] = "live"] ELSE runs
           /\ fire' = [fire EXCEPT ![s].outcome = o] /\ pc' = [pc EXCEPT ![s] = "finish"]
           /\ UNCHANGED fires
<1>0. TableType /\ ReadyAt(s) /\ UNCHANGED fires
  BY TypeParts DEF TypeInv, Ready, Wake, tables
<1> DEFINE k == fire[s].key
           d == fire[s].due
<1>1. k \in Keys /\ d \in Times /\ AtWake(s, k, d)
  BY <1>0 DEF ReadyAt, Wake, AtWake
<1>2. calls[k][d] = 0 /\ fires[k][d].outcome # "none"
  BY <1>1 DEF CallInv
<1>3. fires[k][d].outcome \notin Answered /\ fires[k][d] \in Fire
  BY <1>0, <1>1, <1>2 DEF AnswerInv, TableType
<1>4. fires[k][d].outcome \in {"claimed", "lost"}
  BY <1>2, <1>3 DEF Fire, Settled, Answered
<1>5. calls' = [calls EXCEPT ![k][d] = 1]
  BY <1>2 DEF Wake
<1> QED BY <1>0, <1>1, <1>2, <1>4, <1>5 DEF Wake, Goto

LEMMA WakeAnswers ==
    ASSUME TypeInv, CallInv, AnswerInv, NEW s \in Schedulers, NEW o \in Answered, Wake(s, o)
    PROVE  AnswerInv'
<1>0. TableType /\ TickType /\ FireType
  BY TypeParts DEF TypeInv
<1> DEFINE x == fire[s].key
           e == fire[s].due
<1>1. x \in Keys /\ e \in Times /\ fires[x][e].outcome \notin Answered
  BY WakeRow DEF Answered
<1>2. /\ calls' = [calls EXCEPT ![x][e] = 1] /\ UNCHANGED fires
      /\ runs' = IF o = "started" THEN [runs EXCEPT ![x][e] = "live"] ELSE runs
      /\ fire' = [fire EXCEPT ![s].outcome = o] /\ pc' = [pc EXCEPT ![s] = "finish"]
  BY WakeRow
<1>3. fire'[s].key = x /\ fire'[s].due = e /\ fire'[s].outcome = o
  BY <1>0, <1>2 DEF FireType
<1>4. \A t \in Schedulers \ {s} : fire'[t] = fire[t] /\ pc'[t] = pc[t]
  BY <1>0, <1>2 DEF FireType, TickType
<1> HIDE DEF x, e
<1>5. calls'[x][e] = 1 /\ \A k \in Keys : \A d \in Times :
        calls'[k][d] = calls[k][d] \/ (k = x /\ d = e)
  BY <1>0, <1>1, <1>2 DEF TableType
<1>6. /\ o = "started" => runs'[x][e] # "none"
      /\ \A k \in Keys : \A d \in Times : runs[k][d] # "none" => runs'[k][d] # "none"
  BY <1>0, <1>1, <1>2 DEF TableType
<1> QED BY <1>1, <1>2, <1>3, <1>4, <1>5, <1>6 DEF AnswerInv, AtFinish

LEMMA OtherCalls ==
    ASSUME [Next]_vars, \A s \in Schedulers : \A o \in Answered : ~Wake(s, o)
    PROVE  UNCHANGED calls
BY DEF Next, OwnerEdit, Ensure, SetEnabled, NoteEngagement, SetCadenceOverride, RunEnds, Boot,
   RegisterHandler, TickStep, ListTriggers, NoHandler, Consider, CheckLease, Settle, Decide, Claim, ClaimRefused, FinishFire,
   StoreFails, Crash, Clock, vars, Answered

LEMMA StepAnswers == TypeInv /\ CallInv /\ AnswerInv /\ [Next]_vars => AnswerInv'
<1> SUFFICES ASSUME TypeInv, CallInv, AnswerInv, [Next]_vars PROVE AnswerInv'
  OBVIOUS
<1>1. ASSUME NEW s \in Schedulers, NEW o \in Answered, Wake(s, o) PROVE AnswerInv'
  BY <1>1, WakeAnswers
<1>2. CASE \A s \in Schedulers : \A o \in Answered : ~Wake(s, o)
  <2>1. UNCHANGED calls
    BY <1>2, OtherCalls
  <2>2. RunsStay /\ \A s \in Schedulers : Answers(s)
    BY <1>2, RunSteps, AnswerSteps
  <2>3. SUFFICES ASSUME NEW k \in Keys, NEW d \in Times
                 PROVE  /\ fires'[k][d].outcome \in Answered => calls[k][d] = 1
                        /\ \A s \in Schedulers : AtFinish(s, k, d)' =>
                            /\ calls[k][d] = 1
                            /\ fire'[s].outcome = "started" => runs'[k][d] # "none"
    BY <2>1 DEF AnswerInv
  <2>4. fires'[k][d].outcome \in Answered => calls[k][d] = 1
    BY AnswerRows DEF AnswerInv
  <2>5. ASSUME NEW s \in Schedulers, AtFinish(s, k, d)'
        PROVE  calls[k][d] = 1 /\ (fire'[s].outcome = "started" => runs'[k][d] # "none")
    <3>1. AtFinish(s, k, d) /\ fire'[s] = fire[s]
      BY <2>2, <2>5 DEF Answers, AtFinish
    <3> QED BY <2>2, <3>1 DEF AnswerInv, RunsStay
  <2> QED BY <2>4, <2>5
<1> QED BY <1>1, <1>2

\* What the ledger sees of the tables.
Fate == [k \in Keys |-> [due \in Times |-> fires[k][due].outcome]]
Begun == [k \in Keys |-> [due \in Times |-> IF runs[k][due] = "none" THEN 0 ELSE 1]]
Seen == <<Fate, calls, Begun>>

LEMMA FateWrites ==
    ASSUME NEW k \in Keys, NEW d \in Times, NEW v, fires'[k][d].outcome = v,
           \A x \in Keys : \A e \in Times : fires'[x][e] = fires[x][e] \/ (x = k /\ e = d)
    PROVE  Fate' = [Fate EXCEPT ![k][d] = v]
BY DEF Fate

LEMMA BegunStays == RunsStay => UNCHANGED Begun
BY DEF RunsStay, Begun

LEMMA LedgerStarts == Init => Ledger!Init
BY DEF Init, Ledger!Init, NoFire

LEMMA ClaimLedger ==
    ASSUME TypeInv, NEW s \in Schedulers, Claim(s)
    PROVE  \E k \in Keys : \E d \in Times : Ledger!Claim(k, d)
<1>1. PICK k \in Keys, d \in Times :
        /\ fires[k][d].outcome = "none" /\ fires'[k][d].outcome = "claimed"
        /\ \A x \in Keys : \A e \in Times : fires'[x][e] = fires[x][e] \/ (x = k /\ e = d)
  BY ClaimRow
<1>2. Fate' = [Fate EXCEPT ![k][d] = "claimed"]
  BY <1>1, FateWrites
<1>3. UNCHANGED <<calls, runs>>
  BY DEF Claim
<1>4. UNCHANGED Begun
  BY <1>3 DEF Begun
<1>5. Fate[k][d] = "none" /\ Fate'[k][d] = "claimed"
  BY <1>1 DEF Fate
<1>6. Ledger!Claim(k, d)
  BY <1>2, <1>3, <1>4, <1>5 DEF Ledger!Claim, Fate, Begun
<1> QED BY <1>6

LEMMA BegunWrites ==
    ASSUME NEW k \in Keys, NEW d \in Times, NEW n, n = IF runs'[k][d] = "none" THEN 0 ELSE 1,
           \A x \in Keys : \A e \in Times : runs'[x][e] = runs[x][e] \/ (x = k /\ e = d)
    PROVE  Begun' = [Begun EXCEPT ![k][d] = n]
<1>1. \A x \in Keys : \A e \in Times :
        Begun'[x][e] = IF x = k /\ e = d THEN n ELSE Begun[x][e]
  BY DEF Begun
<1>2. [Begun EXCEPT ![k][d] = n]
        = [x \in Keys |-> [e \in Times |-> IF x = k /\ e = d THEN n ELSE Begun[x][e]]]
  BY DEF Begun
<1>3. Begun' = [x \in Keys |-> [e \in Times |-> Begun'[x][e]]]
  BY DEF Begun
<1> QED BY <1>1, <1>2, <1>3

LEMMA WakeLedger ==
    ASSUME TypeInv, CallInv, AnswerInv, NEW s \in Schedulers, NEW o \in Answered, Wake(s, o)
    PROVE  \E k \in Keys : \E d \in Times : Ledger!Call(k, d)
<1>1. PICK k \in Keys, d \in Times : k = fire[s].key /\ d = fire[s].due
  BY WakeRow
<1>2. /\ fires[k][d].outcome \in {"claimed", "lost"} /\ calls[k][d] = 0 /\ UNCHANGED fires
      /\ calls' = [calls EXCEPT ![k][d] = 1]
      /\ runs' = IF o = "started" THEN [runs EXCEPT ![k][d] = "live"] ELSE runs
  BY <1>1, WakeRow
<1>3. TableType
  BY TypeParts DEF TypeInv
<1>4. \A x \in Keys : \A e \in Times : runs'[x][e] = runs[x][e] \/ (x = k /\ e = d)
  BY <1>2, <1>3 DEF TableType
<1>5. PICK n \in 0..1 : n = IF runs'[k][d] = "none" THEN 0 ELSE 1
  OBVIOUS
<1>6. Begun' = [Begun EXCEPT ![k][d] = n]
  BY <1>4, <1>5, BegunWrites
<1>7. UNCHANGED Fate /\ Fate[k][d] \in {"claimed", "lost"}
  BY <1>2 DEF Fate
<1>8. Ledger!Call(k, d)
  BY <1>2, <1>6, <1>7 DEF Ledger!Call, Fate, Begun
<1> QED BY <1>8

LEMMA FinishLedger ==
    ASSUME TypeInv, CallInv, AnswerInv, NEW s \in Schedulers, FinishFire(s)
    PROVE  (\E k \in Keys : \E d \in Times : Ledger!Answer(k, d)) \/ UNCHANGED Seen
<1>1. PICK k \in Keys, d \in Times :
        /\ AtFinish(s, k, d) /\ fire[s].outcome \in Answered
        /\ \/ fires[k][d].outcome = "claimed" /\ fires'[k][d].outcome = fire[s].outcome
           \/ fires'[k][d] = fires[k][d]
        /\ \A x \in Keys : \A e \in Times : fires'[x][e] = fires[x][e] \/ (x = k /\ e = d)
  BY FinishRow
<1>2. UNCHANGED <<calls, runs>>
  BY DEF FinishFire
<1>3. UNCHANGED Begun
  BY <1>2 DEF Begun
<1>4. CASE fires'[k][d] = fires[k][d]
  <2>1. UNCHANGED Fate
    BY <1>1, <1>4 DEF Fate
  <2> QED BY <1>2, <1>3, <2>1 DEF Seen
<1>5. CASE fires[k][d].outcome = "claimed" /\ fires'[k][d].outcome = fire[s].outcome
  <2>1. Fate' = [Fate EXCEPT ![k][d] = fire[s].outcome]
    BY <1>1, <1>5, FateWrites
  <2>2. calls[k][d] = 1 /\ (fire[s].outcome = "started" => Begun[k][d] = 1)
    BY <1>1 DEF AnswerInv, Begun
  <2>3. Fate[k][d] = "claimed"
    BY <1>5 DEF Fate
  <2>4. Ledger!Answer(k, d)
    BY <1>1, <1>2, <1>3, <2>1, <2>2, <2>3 DEF Ledger!Answer, Ledger!Answers, Answered, Fate, Begun
  <2> QED BY <2>4
<1> QED BY <1>1, <1>4, <1>5

LEMMA SettleLedger ==
    ASSUME TypeInv, NEW s \in Schedulers, Settle(s)
    PROVE  (\E lost \in (SUBSET Ledger!Claimed) \ {{}} : Ledger!Lose(lost)) \/ UNCHANGED Seen
<1>1. PICK given \in SUBSET (Keys \X Times) :
        given = {w \in Keys \X Times : fires'[w[1]][w[2]] # fires[w[1]][w[2]]}
  OBVIOUS
<1>2. UNCHANGED <<calls, runs>>
  BY DEF Settle
<1>3. UNCHANGED Begun
  BY <1>2 DEF Begun
<1>4. \A k \in Keys : \A d \in Times :
        \/ fires'[k][d] = fires[k][d] /\ <<k, d>> \notin given
        \/ /\ fires[k][d].outcome = "claimed" /\ fires'[k][d].outcome = "lost"
           /\ <<k, d>> \in given
  BY <1>1, SettleRow
<1>5. CASE given = {}
  <2>1. UNCHANGED Fate
    BY <1>4, <1>5 DEF Fate
  <2> QED BY <1>2, <1>3, <2>1 DEF Seen
<1>6. CASE given # {}
  <2>1. \A w \in given : Fate[w[1]][w[2]] = "claimed"
    BY <1>4 DEF Fate
  <2>2. ASSUME NEW k \in Keys, NEW due \in Times
        PROVE  Fate'[k][due] = IF <<k, due>> \in given THEN "lost" ELSE Fate[k][due]
    <3>1. Fate'[k][due] = fires'[k][due].outcome /\ Fate[k][due] = fires[k][due].outcome
      BY DEF Fate
    <3> QED BY <1>4, <3>1
  <2>3. Fate' = [k \in Keys |-> [due \in Times |-> Fate'[k][due]]]
    BY DEF Fate
  <2>4. Fate' = [k \in Keys |-> [due \in Times |->
                    IF <<k, due>> \in given THEN "lost" ELSE Fate[k][due]]]
    BY <2>2, <2>3
  <2>5. given \in (SUBSET Ledger!Claimed) \ {{}}
    BY <1>6, <2>1 DEF Ledger!Claimed, Fate
  <2>6. Ledger!Lose(given)
    BY <1>2, <1>3, <2>4 DEF Ledger!Lose, Fate, Begun
  <2> QED BY <2>5, <2>6
<1> QED BY <1>5, <1>6

\* The trigger store and the ticks implement the fire ledger, for any number of
\* triggers, owners, crashes, handovers and failures: the claim is committed before
\* the call (claim_fire), the call is made once and by the process that claimed, and
\* finish_fire and settle_lost_claims write only what is still a claim.
THEOREM KeepsFireLedgerHolds == Spec => KeepsFireLedger
<1>1. Init => TypeInv /\ CallInv /\ AnswerInv /\ Ledger!Init
  <2>1. Init => CallInv
    BY DEF Init, CallInv, NoFire, AtWake
  <2>2. Init => AnswerInv
    BY DEF Init, AnswerInv, NoFire, Answered, AtFinish
  <2> QED BY <2>1, <2>2, InitType, LedgerStarts
<1>2. TypeInv /\ CallInv /\ AnswerInv /\ [Next]_vars => [Ledger!Next]_Seen
  <2> SUFFICES ASSUME TypeInv, CallInv, AnswerInv, [Next]_vars
               PROVE  Ledger!Next \/ UNCHANGED Seen
    OBVIOUS
  <2>1. ASSUME NEW s \in Schedulers, Claim(s) PROVE Ledger!Next
    BY <2>1, ClaimLedger DEF Ledger!Next
  <2>2. ASSUME NEW s \in Schedulers, NEW o \in Answered, Wake(s, o) PROVE Ledger!Next
    BY <2>2, WakeLedger DEF Ledger!Next
  <2>3. ASSUME NEW s \in Schedulers, FinishFire(s) PROVE Ledger!Next \/ UNCHANGED Seen
    BY <2>3, FinishLedger DEF Ledger!Next
  <2>4. ASSUME NEW s \in Schedulers, Settle(s) PROVE Ledger!Next \/ UNCHANGED Seen
    BY <2>4, SettleLedger DEF Ledger!Next
  <2>5. CASE \A s \in Schedulers : /\ ~Claim(s) /\ ~Settle(s) /\ ~FinishFire(s)
                                   /\ \A o \in Answered : ~Wake(s, o)
    <3>1. UNCHANGED fires /\ UNCHANGED calls /\ RunsStay
      BY <2>5, OtherRows, OtherCalls, RunSteps
    <3>2. UNCHANGED Fate /\ UNCHANGED Begun
      BY <3>1, BegunStays DEF Fate
    <3> QED BY <3>1, <3>2 DEF Seen
  <2> QED BY <2>1, <2>2, <2>3, <2>4, <2>5
<1>3. Seen = <<[k \in Keys |-> [due \in Times |-> fires[k][due].outcome]], calls,
               [k \in Keys |-> [due \in Times |-> IF runs[k][due] = "none" THEN 0 ELSE 1]]>>
  BY DEF Seen, Fate, Begun
<1>4. TypeInv /\ CallInv /\ AnswerInv /\ [Next]_vars
        => [Ledger!Next]_<<[k \in Keys |-> [due \in Times |-> fires[k][due].outcome]], calls,
               [k \in Keys |-> [due \in Times |-> IF runs[k][due] = "none" THEN 0 ELSE 1]]>>
  BY <1>2 DEF Seen, Fate, Begun
<1> QED BY <1>1, <1>4, StepType, StepCalls, StepAnswers, PTL DEF Spec, KeepsFireLedger, Ledger!Spec

-----------------------------------------------------------------------------
(* What a tick has listed, and the table that moves on meanwhile.          *)

\* A trigger is enrolled once.  Its row changes under a new revision, or it only
\* loses or resolves its last run.
RowMoves(r, q) ==
    /\ r.created # Never => q.created = r.created
    /\ \/ r.revision < q.revision
       \/ /\ r.revision = q.revision
          /\ r.created # Never =>
                /\ q.enabled = r.enabled /\ q.policy = r.policy
                /\ q.engaged = r.engaged /\ q.lastDue = r.lastDue

LEMMA MovesCompose ==
    ASSUME NEW r \in Trigger, NEW q \in Trigger, NEW u \in Trigger, RowMoves(r, q), RowMoves(q, u)
    PROVE  RowMoves(r, u)
BY DEF RowMoves, Trigger

LEMMA MovesNot == ASSUME NEW r \in Trigger PROVE RowMoves(r, r)
BY DEF RowMoves, Trigger

LEMMA MovesBy ==
    ASSUME NEW r \in Trigger
    PROVE  /\ r.created = Never => \A t \in Times : RowMoves(r, [r EXCEPT !.created = t])
           /\ \A b \in BOOLEAN : RowMoves(r, [r EXCEPT !.enabled = b, !.revision = @ + 1])
           /\ \A p \in Policies : RowMoves(r, [r EXCEPT !.policy = p, !.revision = @ + 1])
           /\ \A t \in Times : RowMoves(r, [r EXCEPT !.engaged = t, !.revision = @ + 1])
           /\ \A l \in LastRun : RowMoves(r, [r EXCEPT !.lastRun = l])
           /\ \A t \in Times : RowMoves(r, [r EXCEPT !.lastDue = t,
                    !.lastRun = [kind |-> "claim", due |-> t], !.revision = @ + 1])
BY DEF RowMoves, Trigger, Never, Times

LEMMA TableMoves ==
    ASSUME TypeInv, [Next]_vars, NEW k \in Keys
    PROVE  RowMoves(triggers[k], triggers'[k])
<1>0. TableType /\ triggers[k] \in Trigger /\ now \in Times
  BY TypeParts DEF TypeInv, TableType, RestType
<1>1. CASE UNCHANGED triggers
  BY <1>0, <1>1, MovesNot
<1>2. ASSUME NEW x \in Keys, OwnerEdit(x) PROVE RowMoves(triggers[k], triggers'[k])
  <2>1. CASE k # x
    <3>1. triggers'[k] = triggers[k]
      BY <1>0, <1>2, <2>1 DEF TableType, OwnerEdit, Ensure, SetEnabled, NoteEngagement,
         SetCadenceOverride
    <3> QED BY <1>0, <3>1, MovesNot
  <2>2. CASE k = x /\ Ensure(x)
    BY <1>0, <2>2, MovesBy DEF TableType, Ensure
  <2>3. ASSUME NEW b \in BOOLEAN, k = x, SetEnabled(x, b) PROVE RowMoves(triggers[k], triggers'[k])
    <3>1. triggers'[k] = [triggers[k] EXCEPT !.enabled = b, !.revision = @ + 1]
      BY <1>0, <2>3 DEF TableType, SetEnabled
    <3>2. RowMoves(triggers[k], [triggers[k] EXCEPT !.enabled = b, !.revision = @ + 1])
      BY <1>0, MovesBy, Zenon
    <3> QED BY <3>1, <3>2, Zenon
  <2>4. CASE k = x /\ NoteEngagement(x)
    <3>1. triggers'[k] = [triggers[k] EXCEPT !.engaged = now, !.revision = @ + 1]
      BY <1>0, <2>4 DEF TableType, NoteEngagement
    <3>2. RowMoves(triggers[k], [triggers[k] EXCEPT !.engaged = now, !.revision = @ + 1])
      BY <1>0, MovesBy, Zenon
    <3> QED BY <3>1, <3>2, Zenon
  <2>5. ASSUME NEW p \in Policies, k = x, SetCadenceOverride(x, p)
        PROVE  RowMoves(triggers[k], triggers'[k])
    <3>1. triggers'[k] = [triggers[k] EXCEPT !.policy = p, !.revision = @ + 1]
      BY <1>0, <2>5 DEF TableType, SetCadenceOverride
    <3>2. RowMoves(triggers[k], [triggers[k] EXCEPT !.policy = p, !.revision = @ + 1])
      BY <1>0, MovesBy, Zenon
    <3> QED BY <3>1, <3>2, Zenon
  <2> QED BY <1>2, <2>1, <2>2, <2>3, <2>4, <2>5 DEF OwnerEdit
<1>3. ASSUME NEW s \in Schedulers, Settle(s) PROVE RowMoves(triggers[k], triggers'[k])
  <2>1. triggers'[k] = triggers[k] \/ triggers'[k] = [triggers[k] EXCEPT !.lastRun = NoLastRun]
    BY <1>0, <1>3 DEF TableType, Settle, SettleLostClaims
  <2>2. NoLastRun \in LastRun
    BY DEF NoLastRun, LastRun, Never
  <2> QED BY <1>0, <2>1, <2>2, MovesBy, MovesNot
<1>4. ASSUME NEW s \in Schedulers, FinishFire(s) PROVE RowMoves(triggers[k], triggers'[k])
  <2>1. ReadyAt(s) /\ fire[s].due \in Times
    BY <1>4, TypeParts DEF TypeInv, Ready, ReadyAt, FinishFire
  <2>2. PICK l : l = AfterFire(fire[s].due, fire[s].outcome)
    OBVIOUS
  <2>3. l \in LastRun
    BY <2>1, <2>2 DEF AfterFire, LastRun, NoLastRun
  <2>4. triggers'[k] = triggers[k] \/ triggers'[k] = [triggers[k] EXCEPT !.lastRun = l]
    BY <1>0, <1>4, <2>2 DEF TableType, FinishFire
  <2> QED BY <1>0, <2>3, <2>4, MovesBy, MovesNot
<1>5. ASSUME NEW s \in Schedulers, Claim(s) PROVE RowMoves(triggers[k], triggers'[k])
  <2>1. fire[s].key \in Keys /\ fire[s].due \in Times
    BY <1>5, ClaimRow
  <2>2. CASE k # fire[s].key
    BY <1>0, <1>5, <2>2, MovesNot DEF TableType, Claim, Claims
  <2>3. CASE k = fire[s].key
    <3>1. triggers'[k] = [triggers[k] EXCEPT !.lastDue = fire[s].due,
                !.lastRun = [kind |-> "claim", due |-> fire[s].due], !.revision = @ + 1]
      BY <1>0, <1>5, <2>1, <2>3 DEF TableType, Claim, Claims
    <3>2. RowMoves(triggers[k], [triggers[k] EXCEPT !.lastDue = fire[s].due,
                !.lastRun = [kind |-> "claim", due |-> fire[s].due], !.revision = @ + 1])
      BY <1>0, <2>1, MovesBy, Zenon
    <3> QED BY <3>1, <3>2, Zenon
  <2> QED BY <2>2, <2>3
<1>6. \/ UNCHANGED triggers \/ \E x \in Keys : OwnerEdit(x)
      \/ \E s \in Schedulers : Settle(s) \/ FinishFire(s) \/ Claim(s)
  BY DEF Next, RunEnds, Boot, RegisterHandler, TickStep, ListTriggers, NoHandler, Consider, CheckLease, Decide, ClaimRefused,
     Wake, StoreFails, Crash, Clock, vars, tables
<1> QED BY <1>1, <1>2, <1>3, <1>4, <1>5, <1>6

\* What a process has listed is an earlier state of the table, and what it has
\* decided is the cadence of that state.
SnapAt(s) ==
    /\ pc[s] \notin {"off", "idle"} => \A k \in Keys : RowMoves(tick[s].rows[k], triggers[k])
    /\ pc[s] \notin {"off", "idle", "next"} =>
            LET r == tick[s].rows[fire[s].key]
            IN  r.created # Never /\ fire[s].due = DueOf(r, tick[s].moment)
SnapInv == \A s \in Schedulers : SnapAt(s)

\* What the owner processes have read and hold, but for their handlers.
Reads == <<lease, pc, inc, settled, tick, fire>>

\* How a step leaves what a process has read: alone, forgotten, or taken afresh.
KeepsRead(s) ==
    \/ pc'[s] \in {"off", "idle"}
    \/ pc[s] \notin {"off", "idle"} /\ tick'[s].rows = tick[s].rows
          /\ tick'[s].moment = tick[s].moment
          /\ \/ pc'[s] = "next"
             \/ pc[s] # "next" /\ fire'[s].key = fire[s].key /\ fire'[s].due = fire[s].due

LEMMA LeaveKeeps ==
    ASSUME TypeInv, NEW s \in Schedulers, pc[s] \notin {"off", "idle"}, Leave(s)
    PROVE  KeepsRead(s)
BY TypeParts DEF TypeInv, TickType, Leave, Goto, KeepsRead

LEMMA KeepSteps ==
    ASSUME TypeInv, [Next]_vars, NEW s \in Schedulers
    PROVE  KeepsRead(s) \/ ListTriggers(s) \/ \E k \in Keys : Consider(s, k)
<1>0. TickType /\ FireType
  BY TypeParts DEF TypeInv
<1>1. CASE pc'[s] = pc[s] /\ tick'[s] = tick[s] /\ fire'[s] = fire[s]
  BY <1>0, <1>1 DEF KeepsRead
<1>2. ASSUME NEW t \in Schedulers, t # s, Boot(t) \/ TickStep(t) \/ StoreFails(t) \/ Crash(t)
      PROVE  pc'[s] = pc[s] /\ tick'[s] = tick[s] /\ fire'[s] = fire[s]
  BY <1>0, <1>2 DEF TickType, FireType, Boot, RegisterHandler, TickStep, ListTriggers, NoHandler, Consider, CheckLease, Settle,
     Decide, Claim, ClaimRefused, Wake, FinishFire, StoreFails, Crash, Leave, Goto
<1>3. CASE Boot(s) \/ Crash(s)
  BY <1>0, <1>3 DEF TickType, Boot, Crash, KeepsRead
<1>4. CASE \/ CheckLease(s) \/ Settle(s) \/ Claim(s)
          \/ \E o \in {"started", "declined", "failed"} : Wake(s, o)
  BY <1>0, <1>4 DEF TickType, FireType, CheckLease, Settle, Claim, Wake, Goto, KeepsRead
<1>5. CASE Decide(s) \/ ClaimRefused(s) \/ FinishFire(s) \/ StoreFails(s)
  <2>1. CASE Leave(s)
    BY <1>5, <2>1, LeaveKeeps DEF Decide, ClaimRefused, FinishFire, StoreFails
  <2>2. CASE Decide(s) /\ Goto(s, "claim") /\ UNCHANGED fire
    BY <1>0, <2>2 DEF TickType, Decide, Goto, KeepsRead
  <2> QED BY <1>5, <2>1, <2>2 DEF Decide, ClaimRefused, FinishFire, StoreFails
<1>6. ASSUME NEW k \in Keys, OwnerEdit(k) PROVE UNCHANGED Reads
  BY <1>6 DEF OwnerEdit, Ensure, SetEnabled, NoteEngagement, SetCadenceOverride, owner, Reads
<1>7. ASSUME \/ Clock \/ (\E k \in Keys : \E due \in Times : RunEnds(k, due)) \/ UNCHANGED vars
             \/ \E t \in Schedulers : RegisterHandler(t)
      PROVE UNCHANGED Reads
  BY <1>7 DEF Clock, RunEnds, RegisterHandler, vars, owner, Reads
<1>8. ASSUME NEW k \in Keys, NoHandler(s, k) PROVE KeepsRead(s)
  BY <1>0, <1>8 DEF TickType, NoHandler, KeepsRead
<1> QED BY <1>1, <1>2, <1>3, <1>4, <1>5, <1>6, <1>7, <1>8 DEF Next, TickStep, Reads

LEMMA StepSnap == TypeInv /\ TypeInv' /\ SnapInv /\ [Next]_vars => SnapInv'
<1> SUFFICES ASSUME TypeInv, TypeInv', SnapInv, [Next]_vars, NEW s \in Schedulers
             PROVE  SnapAt(s)'
  BY DEF SnapInv
<1>0. TickType /\ TableType /\ FireType /\ ReadyAt(s) /\ SnapAt(s) /\ TableType'
  BY TypeParts, TypePartsNext DEF TypeInv, Ready, SnapInv
<1>1. \A k \in Keys : RowMoves(triggers[k], triggers'[k])
  BY TableMoves
<1>2. ASSUME pc[s] \notin {"off", "idle"}, NEW k \in Keys
      PROVE  RowMoves(tick[s].rows[k], triggers'[k])
  <2>1. tick[s].rows[k] \in Trigger /\ triggers[k] \in Trigger /\ triggers'[k] \in Trigger
    BY <1>0 DEF TickType, TableType
  <2> QED BY <1>0, <1>1, <1>2, <2>1, MovesCompose DEF SnapAt
<1>3. CASE KeepsRead(s)
  BY <1>0, <1>2, <1>3 DEF KeepsRead, SnapAt
<1>4. CASE ListTriggers(s)
  BY <1>0, <1>4, MovesNot DEF SnapAt, ListTriggers, TickType, TableType, tables
<1>5. ASSUME NEW k \in Keys, Consider(s, k) PROVE SnapAt(s)'
  <2>1. /\ pc[s] = "next" /\ pc'[s] = "check" /\ k \in tick[s].left
        /\ tick'[s].rows = tick[s].rows /\ tick'[s].moment = tick[s].moment
        /\ fire'[s].key = k /\ fire'[s].due = DueOf(tick[s].rows[k], tick[s].moment)
    BY <1>0, <1>5 DEF Consider, TickType, FireType
  <2>2. tick[s].rows[k].created # Never
    BY <1>0, <2>1 DEF ReadyAt
  <2> QED BY <1>2, <2>1, <2>2 DEF SnapAt
<1> QED BY <1>3, <1>4, <1>5, KeepSteps

LEMMA InitSnap == Init => SnapInv
BY DEF Init, SnapInv, SnapAt

\* The row that a claim is written to is, but for its last run, the one it was
\* decided on: the fence of claim_fire.
LEMMA ClaimDecided ==
    ASSUME TypeInv, SnapInv, NEW s \in Schedulers, Claim(s)
    PROVE  LET r == triggers[fire[s].key]
               moment == tick[s].moment
           IN  /\ r \in Trigger /\ r.enabled /\ r.created \in Times /\ moment \in Times
               /\ fire[s].due = DueInstant(r.policy, r.created, r.engaged, r.lastDue, moment)
               /\ fire[s].due <= now /\ InActiveHours(now, r.policy)
<1> DEFINE k == fire[s].key
           q == tick[s].rows[k]
           r == triggers[k]
<1>1. /\ TickType /\ TableType /\ ReadyAt(s) /\ SnapAt(s) /\ pc[s] = "claim" /\ MayClaim(s)
  BY TypeParts DEF TypeInv, Ready, SnapInv, Claim
<1>2. k \in Keys /\ q \in Trigger /\ r \in Trigger /\ tick[s].moment \in Times
  BY <1>1 DEF ReadyAt, TickType, TableType
<1>3. RowMoves(q, r) /\ q.created # Never /\ fire[s].due = DueOf(q, tick[s].moment)
  BY <1>1, <1>2 DEF SnapAt
<1>4. /\ r.enabled /\ r.revision = q.revision
      /\ fire[s].due <= now /\ InActiveHours(now, q.policy)
  BY <1>1 DEF MayClaim, Admitted, Eligible, FenceHolds
<1>5. r.created = q.created /\ r.policy = q.policy /\ r.engaged = q.engaged /\ r.lastDue = q.lastDue
  <2>1. q.revision \in Nat
    BY <1>2 DEF Trigger
  <2>2. ~(q.revision < r.revision)
    BY <1>4, <2>1
  <2> HIDE DEF q, r
  <2> QED BY <1>3, <2>2 DEF RowMoves
<1>6. r.created \in Times
  BY <1>2, <1>3, <1>5 DEF Trigger
<1> QED BY <1>2, <1>3, <1>4, <1>5, <1>6 DEF DueOf

\* A wake is claimed only for an enabled trigger, inside the active hours of its
\* present policy and after the idle wait since its present engagement, however
\* old the snapshot is that the tick decided on (scheduler.py, claim_fire's fence).
THEOREM ClaimsWantedHolds == Spec => ClaimsOnlyWhenWanted
<1> DEFINE Wanted == \A k \in Keys : \A due \in Times :
        fires[k][due].outcome = "none" /\ fires'[k][due].outcome = "claimed" =>
            LET r == triggers[k]
            IN  /\ r.enabled /\ InActiveHours(now, r.policy)
                /\ r.engaged # Never => now >= r.engaged + r.policy.idle
<1>1. TypeInv /\ SnapInv /\ [Next]_vars => [Wanted]_vars
  <2> SUFFICES ASSUME TypeInv, SnapInv, [Next]_vars PROVE Wanted
    OBVIOUS
  <2>1. CASE \A s \in Schedulers : ~Claim(s)
    BY <2>1, RowSteps DEF FireRowStays, Settled
  <2>2. ASSUME NEW s \in Schedulers, Claim(s) PROVE Wanted
    <3> DEFINE r == triggers[fire[s].key]
    <3>1. /\ r \in Trigger /\ r.enabled /\ r.created \in Times /\ tick[s].moment \in Times
          /\ fire[s].due = DueInstant(r.policy, r.created, r.engaged, r.lastDue, tick[s].moment)
          /\ fire[s].due <= now /\ InActiveHours(now, r.policy)
      BY <2>2, ClaimDecided
    <3>2. /\ r.policy \in Policies /\ r.engaged \in Times \cup {Never}
          /\ r.lastDue \in Times \cup {Never}
      BY <3>1 DEF Trigger
    <3>3. fire[s].due \in Nat /\ (r.engaged # Never => fire[s].due >= r.engaged + r.policy.idle)
      BY <3>1, RowDue
    <3>4. r.engaged # Never => now >= r.engaged + r.policy.idle
      <4>1. now \in Nat /\ r.policy.idle \in Nat /\ r.engaged \in Int
        BY <3>2, PolicyTypes, BoundsAreNat, TypeParts DEF TypeInv, RestType, Times, Never
      <4> QED BY <3>1, <3>3, <4>1
    <3> HIDE DEF r
    <3>5. ASSUME NEW k \in Keys, NEW d \in Times, fires[k][d].outcome = "none",
                 fires'[k][d].outcome = "claimed"
          PROVE  k = fire[s].key
      BY <2>2, <3>5, ClaimRow
    <3> QED BY <3>1, <3>4, <3>5 DEF r
  <2> QED BY <2>1, <2>2
<1> QED BY <1>1, InitType, InitSnap, StepType, StepSnap, PTL DEF Spec, ClaimsOnlyWhenWanted

\* The ledger has no fire later than the last one its trigger knows of.
LastInv ==
    \A k \in Keys : \A d \in Times :
        fires[k][d].outcome # "none" => triggers[k].lastDue # Never /\ d <= triggers[k].lastDue

\* A claim is due at least one period after the last fire of its trigger.
LEMMA ClaimLater ==
    ASSUME TypeInv, SnapInv, NEW s \in Schedulers, Claim(s)
    PROVE  LET r == triggers[fire[s].key]
           IN  r.lastDue # Never =>
                /\ \E step \in Periods(r.policy) : fire[s].due >= r.lastDue + step
                /\ fire[s].due > r.lastDue
<1> DEFINE r == triggers[fire[s].key]
<1>1. /\ r \in Trigger /\ r.created \in Times /\ tick[s].moment \in Times
      /\ fire[s].due = DueInstant(r.policy, r.created, r.engaged, r.lastDue, tick[s].moment)
  BY ClaimDecided
<1>2. /\ r.policy \in Policies /\ r.engaged \in Times \cup {Never}
      /\ r.lastDue \in Times \cup {Never}
  BY <1>1 DEF Trigger
<1>3. /\ fire[s].due \in Nat
      /\ r.lastDue # Never => \E step \in Periods(r.policy) : fire[s].due >= r.lastDue + step
  BY <1>1, RowDue
<1>4. \A step \in Periods(r.policy) : step \in Nat \ {0}
  BY <1>2, PolicyTypes
<1>5. r.lastDue \in Int
  BY <1>2, BoundsAreNat DEF Times, Never
<1> HIDE DEF r
<1>6. r.lastDue # Never => fire[s].due > r.lastDue
  BY <1>3, <1>4, <1>5
<1> QED BY <1>3, <1>6 DEF r

LEMMA ClaimTrigger ==
    ASSUME TypeInv, NEW s \in Schedulers, Claim(s), NEW k \in Keys
    PROVE  /\ k # fire[s].key => triggers'[k] = triggers[k]
           /\ k = fire[s].key => /\ triggers'[k].lastDue = fire[s].due
                                 /\ triggers'[k].lastRun = [kind |-> "claim", due |-> fire[s].due]
                                 /\ triggers'[k].revision = triggers[k].revision + 1
<1>1. TableType /\ fire[s].key \in Keys /\ triggers[k] \in Trigger
  BY TypeParts, ClaimRow DEF TypeInv, TableType
<1>2. triggers' = [triggers EXCEPT
            ![fire[s].key].lastDue = fire[s].due,
            ![fire[s].key].lastRun = [kind |-> "claim", due |-> fire[s].due],
            ![fire[s].key].revision = @ + 1]
  BY DEF Claim, Claims
<1>3. CASE k # fire[s].key
  BY <1>1, <1>2, <1>3 DEF TableType
<1>4. CASE k = fire[s].key
  <2>1. triggers'[k] = [triggers[k] EXCEPT !.lastDue = fire[s].due,
            !.lastRun = [kind |-> "claim", due |-> fire[s].due], !.revision = @ + 1]
    BY <1>1, <1>2, <1>4 DEF TableType
  <2> QED BY <1>1, <1>4, <2>1 DEF Trigger
<1> QED BY <1>3, <1>4

\* The owner of a trigger does not write what its fires have left.
LEMMA EditKeeps ==
    ASSUME TypeInv, NEW x \in Keys, OwnerEdit(x), NEW k \in Keys
    PROVE  triggers'[k].lastDue = triggers[k].lastDue /\ triggers'[k].lastRun = triggers[k].lastRun
<1> DEFINE Kept == /\ triggers'[k].lastDue = triggers[k].lastDue
                   /\ triggers'[k].lastRun = triggers[k].lastRun
<1>0. TableType /\ triggers[k] \in Trigger
  BY TypeParts DEF TypeInv, TableType
<1>1. CASE Ensure(x)
  BY <1>0, <1>1 DEF TableType, Trigger, Ensure
<1>2. ASSUME NEW b \in BOOLEAN, SetEnabled(x, b) PROVE Kept
  BY <1>0, <1>2 DEF TableType, Trigger, SetEnabled
<1>3. CASE NoteEngagement(x)
  BY <1>0, <1>3 DEF TableType, Trigger, NoteEngagement
<1>4. ASSUME NEW p \in Policies, SetCadenceOverride(x, p) PROVE Kept
  BY <1>0, <1>4 DEF TableType, Trigger, SetCadenceOverride
<1> QED BY <1>1, <1>2, <1>3, <1>4 DEF OwnerEdit

\* No other step moves the last due instant.
LEMMA LastDueStays ==
    ASSUME TypeInv, [Next]_vars, \A s \in Schedulers : ~Claim(s), NEW k \in Keys
    PROVE  triggers'[k].lastDue = triggers[k].lastDue
<1>0. TableType /\ triggers[k] \in Trigger
  BY TypeParts DEF TypeInv, TableType
<1>1. ASSUME NEW x \in Keys, OwnerEdit(x) PROVE triggers'[k].lastDue = triggers[k].lastDue
  BY <1>1, EditKeeps
<1>2. ASSUME NEW s \in Schedulers, Settle(s) PROVE triggers'[k].lastDue = triggers[k].lastDue
  <2>1. triggers'[k] = triggers[k] \/ triggers'[k] = [triggers[k] EXCEPT !.lastRun = NoLastRun]
    BY <1>2 DEF Settle, SettleLostClaims
  <2> QED BY <1>0, <2>1 DEF Trigger
<1>3. ASSUME NEW s \in Schedulers, FinishFire(s)
      PROVE  triggers'[k].lastDue = triggers[k].lastDue
  <2>1. PICK l : l = AfterFire(fire[s].due, fire[s].outcome)
    OBVIOUS
  <2>2. triggers'[k] = triggers[k] \/ triggers'[k] = [triggers[k] EXCEPT !.lastRun = l]
    BY <1>0, <1>3, <2>1 DEF TableType, FinishFire
  <2> QED BY <1>0, <2>2 DEF Trigger
<1>4. \/ UNCHANGED triggers \/ \E x \in Keys : OwnerEdit(x)
      \/ \E s \in Schedulers : Settle(s) \/ FinishFire(s)
  BY DEF Next, RunEnds, Boot, RegisterHandler, TickStep, ListTriggers, NoHandler, Consider, CheckLease, Decide, ClaimRefused,
     Wake, StoreFails, Crash, Clock, vars, tables
<1> QED BY <1>1, <1>2, <1>3, <1>4

LEMMA StepLast == TypeInv /\ SnapInv /\ LastInv /\ [Next]_vars => LastInv'
<1> SUFFICES ASSUME TypeInv, SnapInv, LastInv, [Next]_vars, NEW k \in Keys, NEW d \in Times,
                    fires'[k][d].outcome # "none"
             PROVE  triggers'[k].lastDue # Never /\ d <= triggers'[k].lastDue
  BY DEF LastInv
<1>1. CASE \A s \in Schedulers : ~Claim(s)
  BY <1>1, RowSteps, LastDueStays DEF FireRowStays, LastInv
<1>2. ASSUME NEW s \in Schedulers, Claim(s)
      PROVE  triggers'[k].lastDue # Never /\ d <= triggers'[k].lastDue
  <2>1. /\ fire[s].key \in Keys /\ fire[s].due \in Times
        /\ fires'[k][d] = fires[k][d] \/ (k = fire[s].key /\ d = fire[s].due)
    BY <1>2, ClaimRow
  <2>2. CASE k # fire[s].key
    BY <1>2, <2>1, <2>2, ClaimTrigger DEF LastInv
  <2>3. CASE k = fire[s].key
    <3>1. triggers'[k].lastDue = fire[s].due
      BY <1>2, <2>3, ClaimTrigger
    <3>2. fire[s].due # Never /\ d \in Nat /\ fire[s].due \in Nat
      BY <2>1, BoundsAreNat DEF Times, Never
    <3>3. CASE d = fire[s].due
      BY <3>1, <3>2, <3>3
    <3>4. CASE d # fire[s].due
      <4>1. triggers[k].lastDue # Never /\ d <= triggers[k].lastDue
        BY <2>1, <3>4 DEF LastInv
      <4>2. triggers[k].lastDue < fire[s].due
        BY <1>2, <2>3, <4>1, ClaimLater
      <4>3. triggers[k].lastDue \in Int
        BY TypeParts, BoundsAreNat DEF TypeInv, TableType, Trigger, Times, Never
      <4> QED BY <3>1, <3>2, <4>1, <4>2, <4>3
    <3> QED BY <3>3, <3>4
  <2> QED BY <2>2, <2>3
<1> QED BY <1>1, <1>2

\* One turn per cadence window, whatever the snapshot a claim was decided on has
\* missed: a fire is due at least one period after every earlier one of its trigger.
THEOREM OneFirePerWindowHolds == Spec => OneFirePerWindow
<1> DEFINE Apart == \A k \in Keys : \A due, before \in Times :
        /\ fires[k][due].outcome = "none" /\ fires'[k][due].outcome = "claimed"
        /\ fires[k][before].outcome # "none"
        => LET p == triggers[k].policy
           IN  \E step \in Periods(p) : due >= before + step
<1>1. TypeInv /\ SnapInv /\ LastInv /\ [Next]_vars => [Apart]_vars
  <2> SUFFICES ASSUME TypeInv, SnapInv, LastInv, [Next]_vars,
                      NEW k \in Keys, NEW due \in Times, NEW before \in Times,
                      fires[k][due].outcome = "none", fires'[k][due].outcome = "claimed",
                      fires[k][before].outcome # "none"
               PROVE  \E step \in Periods(triggers[k].policy) : due >= before + step
    OBVIOUS
  <2>1. PICK s \in Schedulers : Claim(s)
    BY RowSteps DEF FireRowStays, Settled
  <2>2. k = fire[s].key /\ due = fire[s].due
    BY <2>1, ClaimRow
  <2>3. triggers[k].lastDue # Never /\ before <= triggers[k].lastDue
    BY DEF LastInv
  <2>4. PICK step \in Periods(triggers[k].policy) : due >= triggers[k].lastDue + step
    BY <2>1, <2>2, <2>3, ClaimLater
  <2>5. triggers[k].lastDue \in Int /\ triggers[k].policy \in Policies
    BY TypeParts, BoundsAreNat DEF TypeInv, TableType, Trigger, Times, Never
  <2>6. step \in Nat
    BY <2>5, PolicyTypes
  <2>7. due >= before + step
    BY <2>3, <2>4, <2>5, <2>6, BoundsAreNat DEF Times
  <2> QED BY <2>7
<1>2. Init => LastInv
  BY DEF Init, LastInv, NoFire
<1> QED BY <1>1, <1>2, InitType, InitSnap, StepType, StepSnap, StepLast, PTL
        DEF Spec, OneFirePerWindow

-----------------------------------------------------------------------------
(* Single flight, when one process at a time owns the triggers.            *)

\* One process at a time, and one generation.
Alone == \A s, t \in Schedulers : pc[s] # "off" /\ pc[t] # "off" => s = t
OneGeneration ==
    /\ lease.generation = 1
    /\ \A s \in Schedulers :
        pc[s] \in {"settle", "decide", "claim", "wake", "finish"} => fire[s].generation = 1
    /\ \A k \in Keys : \A d \in Times :
        fires[k][d].outcome = "claimed" => fires[k][d].generation = 1

IsClaim(d) == [kind |-> "claim", due |-> d]
IsRun(d) == [kind |-> "run", due |-> d]
Quiet(k) == \A d \in Times : runs[k][d] # "live"

\* A run that executes is the last one its trigger knows of, settled or not, and
\* its process is the one that is on.
LiveInv ==
    \A k \in Keys : \A d \in Times : runs[k][d] = "live" =>
        /\ triggers[k].lastRun \in {IsClaim(d), IsRun(d)}
        /\ \E s \in Schedulers : pc[s] # "off" /\ fires[k][d].incarnation = inc[s]

\* Under the revision that was listed, the last run is the one that was listed, or
\* it was a claim that has been settled.
ListedAt(s) ==
    pc[s] \notin {"off", "idle"} =>
        \A k \in Keys :
            LET r == tick[s].rows[k]
            IN  r.created # Never /\ r.revision = triggers[k].revision =>
                    \/ triggers[k].lastRun = r.lastRun
                    \/ r.lastRun.kind = "claim" /\ triggers[k].lastRun = NoLastRun
\* The last run that was listed had ended when it was looked at.
ConsideredAt(s) ==
    LET k == fire[s].key  last == tick[s].rows[k].lastRun
    IN  pc[s] \in {"check", "settle", "decide"} /\ ~fire[s].blocked =>
            \A d \in Times : last = IsRun(d) => runs[k][d] # "live"
DecidedAt(s) ==
    LET k == fire[s].key
    IN  pc[s] = "claim" /\ tick[s].rows[k].revision = triggers[k].revision => Quiet(k)
CalledAt(s) ==
    LET k == fire[s].key  d == fire[s].due
    IN  pc[s] \in {"wake", "finish"} =>
            /\ tick[s].rows[k].revision < triggers[k].revision
            /\ triggers[k].lastRun = IsClaim(d)
            /\ fires[k][d].incarnation = inc[s]
            /\ pc[s] = "wake" \/ fire[s].outcome # "started" => Quiet(k)
FlightAt(s) == ListedAt(s) /\ ConsideredAt(s) /\ DecidedAt(s) /\ CalledAt(s)
FlightInv == Alone /\ OneGeneration /\ LiveInv /\ \A s \in Schedulers : FlightAt(s)

-----------------------------------------------------------------------------
\* A step of a tick leaves the process on, and the others where they are.
LEMMA TickOn ==
    ASSUME TypeInv, NEW s \in Schedulers, TickStep(s) \/ StoreFails(s)
    PROVE  /\ UNCHANGED inc /\ pc[s] # "off" /\ pc'[s] # "off"
           /\ \A t \in Schedulers \ {s} : pc'[t] = pc[t]
BY TypeParts DEF TypeInv, TickType, TickStep, ListTriggers, NoHandler, Consider, CheckLease, Settle, Decide,
   Claim, ClaimRefused, Wake, FinishFire, StoreFails, Leave, Goto

LEMMA OffSteps ==
    ASSUME TypeInv, [Next]_vars, NEW t \in Schedulers
    PROVE  \/ Boot(t)
           \/ /\ inc'[t] = inc[t]
              /\ pc'[t] # "off" => pc[t] # "off"
              /\ pc[t] # "off" => pc'[t] # "off" \/ Crash(t)
<1>0. TickType /\ inc \in [Schedulers -> 0..MaxStarts]
  BY TypeParts DEF TypeInv, RestType
<1>1. CASE UNCHANGED <<pc, inc>>
  BY <1>1
<1>2. ASSUME NEW s \in Schedulers, Boot(s) PROVE t = s \/ UNCHANGED <<pc[t], inc[t]>>
  BY <1>0, <1>2 DEF TickType, Boot
<1>3. ASSUME NEW s \in Schedulers, TickStep(s) \/ StoreFails(s)
      PROVE  /\ UNCHANGED inc /\ pc[s] # "off" /\ pc'[s] # "off"
             /\ t # s => pc'[t] = pc[t]
  BY <1>3, TickOn
<1>4. ASSUME NEW s \in Schedulers, Crash(s)
      PROVE  UNCHANGED inc /\ pc'[s] = "off" /\ (t # s => pc'[t] = pc[t])
  BY <1>0, <1>4 DEF TickType, Crash
<1>5. ASSUME NEW k \in Keys, OwnerEdit(k) PROVE UNCHANGED <<pc, inc>>
  BY <1>5 DEF OwnerEdit, Ensure, SetEnabled, NoteEngagement, SetCadenceOverride, owner
<1>6. ASSUME \/ Clock \/ (\E k \in Keys : \E due \in Times : RunEnds(k, due)) \/ UNCHANGED vars
             \/ \E s \in Schedulers : RegisterHandler(s)
      PROVE  UNCHANGED <<pc, inc>>
  BY <1>6 DEF Clock, RunEnds, RegisterHandler, vars, owner
<1> QED BY <1>1, <1>2, <1>3, <1>4, <1>5, <1>6 DEF Next

\* SingleProcessLease: a process starts only when no other is on.
LEMMA StepAlone == SingleOwner /\ TypeInv /\ Alone /\ [Next]_vars => Alone'
<1> SUFFICES ASSUME SingleOwner, TypeInv, Alone, [Next]_vars,
                    NEW s \in Schedulers, NEW t \in Schedulers, pc'[s] # "off", pc'[t] # "off"
             PROVE  s = t
  BY DEF Alone
<1>0. TickType
  BY TypeParts DEF TypeInv
<1>1. ASSUME NEW u \in Schedulers, NEW v \in Schedulers, Boot(u), pc'[v] # "off"
      PROVE  u = v
  BY <1>0, <1>1 DEF Boot, TickType
<1> QED BY <1>1, OffSteps DEF Alone

LEMMA StepGeneration == SingleOwner /\ TypeInv /\ OneGeneration /\ [Next]_vars => OneGeneration'
<1> SUFFICES ASSUME SingleOwner, TypeInv, OneGeneration, [Next]_vars PROVE OneGeneration'
  OBVIOUS
<1>0. TickType /\ FireType /\ TableType
  BY TypeParts DEF TypeInv
<1>1. lease'.generation = 1
  <2>1. ASSUME NEW s \in Schedulers, Boot(s) PROVE lease'.generation = 1
    BY <2>1 DEF Boot
  <2>2. UNCHANGED lease \/ \E s \in Schedulers : Boot(s)
    BY DEF Next, OwnerEdit, Ensure, SetEnabled, NoteEngagement, SetCadenceOverride,
       RunEnds, RegisterHandler, TickStep, ListTriggers, NoHandler, Consider, CheckLease, Settle, Decide, Claim,
       ClaimRefused, Wake, FinishFire, StoreFails, Crash, Clock, vars, owner
  <2> QED BY <2>1, <2>2 DEF OneGeneration
<1> DEFINE Here(s) ==
        pc'[s] \in {"settle", "decide", "claim", "wake", "finish"} => fire'[s].generation = 1
<1>2. ASSUME NEW s \in Schedulers PROVE Here(s)
  <2>1. CASE pc'[s] = pc[s] /\ fire'[s] = fire[s]
    BY <2>1 DEF OneGeneration
  <2>2. ASSUME NEW t \in Schedulers, t # s, Boot(t) \/ TickStep(t) \/ StoreFails(t) \/ Crash(t)
        PROVE  pc'[s] = pc[s] /\ fire'[s] = fire[s]
    BY <1>0, <2>2 DEF TickType, FireType, Boot, RegisterHandler, TickStep, ListTriggers, NoHandler, Consider, CheckLease,
       Settle, Decide, Claim, ClaimRefused, Wake, FinishFire, StoreFails, Crash, Leave, Goto
  <2>3. CASE \/ Boot(s) \/ Crash(s) \/ ListTriggers(s)
             \/ \E k \in Keys : NoHandler(s, k) \/ Consider(s, k)
    BY <1>0, <2>3 DEF TickType, Boot, Crash, ListTriggers, NoHandler, Consider
  <2>4. CASE CheckLease(s)
    BY <1>0, <2>4 DEF TickType, FireType, CheckLease, Goto, OneGeneration
  <2>5. CASE Settle(s) \/ Claim(s) \/ \E o \in {"started", "declined", "failed"} : Wake(s, o)
    BY <1>0, <2>5 DEF TickType, FireType, Settle, Claim, Wake, Goto, OneGeneration
  <2>6. CASE Leave(s)
    BY <1>0, <2>6 DEF TickType, Leave, Goto
  <2>7. CASE Decide(s) /\ Goto(s, "claim") /\ UNCHANGED fire
    BY <1>0, <2>7 DEF TickType, Decide, Goto, OneGeneration
  <2>8. ASSUME NEW k \in Keys, OwnerEdit(k) PROVE UNCHANGED Reads
    BY <2>8 DEF OwnerEdit, Ensure, SetEnabled, NoteEngagement, SetCadenceOverride, owner, Reads
  <2>9. ASSUME \/ Clock \/ (\E k \in Keys : \E due \in Times : RunEnds(k, due)) \/ UNCHANGED vars
               \/ \E t \in Schedulers : RegisterHandler(t)
        PROVE UNCHANGED Reads
    BY <2>9 DEF Clock, RunEnds, RegisterHandler, vars, owner, Reads
  <2>10. Decide(s) \/ ClaimRefused(s) \/ FinishFire(s) \/ StoreFails(s) =>
            Leave(s) \/ (Decide(s) /\ Goto(s, "claim") /\ UNCHANGED fire)
    BY DEF Decide, ClaimRefused, FinishFire, StoreFails
  <2> HIDE DEF Here
  <2> QED BY <2>1, <2>2, <2>3, <2>4, <2>5, <2>6, <2>7, <2>8, <2>9, <2>10
        DEF Next, TickStep, Reads, Here
<1>3. ASSUME NEW k \in Keys, NEW d \in Times, fires'[k][d].outcome = "claimed"
      PROVE  fires'[k][d].generation = 1
  <2>1. CASE \A s \in Schedulers : ~Claim(s)
    BY <1>3, <2>1, RowSteps DEF FireRowStays, Settled, OneGeneration
  <2>2. ASSUME NEW s \in Schedulers, Claim(s) PROVE fires'[k][d].generation = 1
    <3>1. fire[s].generation = 1 /\ fire[s].key \in Keys /\ fire[s].due \in Times
      BY <2>2, ClaimRow DEF OneGeneration, Claim
    <3>2. fires'[k][d] = fires[k][d]
            \/ fires'[k][d] = [outcome |-> "claimed", generation |-> 1, incarnation |-> inc[s]]
      BY <1>0, <2>2, <3>1 DEF TableType, Claim, Claims
    <3> QED BY <1>3, <3>2 DEF OneGeneration
  <2> QED BY <2>1, <2>2
<1> QED BY <1>1, <1>2, <1>3 DEF OneGeneration

\* A row keeps the process that claimed it.
LEMMA RowKeepsProcess ==
    ASSUME TypeInv, [Next]_vars, \A s \in Schedulers : ~Claim(s), NEW k \in Keys, NEW d \in Times
    PROVE  fires'[k][d].incarnation = fires[k][d].incarnation
<1>0. TableType /\ fires[k][d] \in Fire
  BY TypeParts DEF TypeInv, TableType
<1>1. ASSUME NEW s \in Schedulers, Settle(s)
      PROVE  fires'[k][d].incarnation = fires[k][d].incarnation
  <2>1. fires'[k][d] = fires[k][d] \/ fires'[k][d] = [fires[k][d] EXCEPT !.outcome = "lost"]
    BY <1>1 DEF Settle, SettleLostClaims
  <2> QED BY <1>0, <2>1 DEF Fire
<1>2. ASSUME NEW s \in Schedulers, FinishFire(s)
      PROVE  fires'[k][d].incarnation = fires[k][d].incarnation
  <2>1. fire[s].key \in Keys /\ fire[s].due \in Times
    BY <1>2, TypeParts DEF TypeInv, Ready, ReadyAt, FinishFire
  <2>2. \/ fires'[k][d] = fires[k][d]
        \/ \E o : fires'[k][d] = [fires[k][d] EXCEPT !.outcome = o]
    BY <1>0, <1>2, <2>1 DEF TableType, FinishFire, Finished
  <2> QED BY <1>0, <2>2 DEF Fire
<1>3. \/ UNCHANGED fires \/ \E s \in Schedulers : Settle(s) \/ FinishFire(s)
  BY DEF Next, OwnerEdit, Ensure, SetEnabled, NoteEngagement, SetCadenceOverride, RunEnds, Boot,
     RegisterHandler, TickStep, ListTriggers, NoHandler, Consider, CheckLease, Decide, ClaimRefused, Wake, StoreFails, Crash,
     Clock, vars, tables
<1> QED BY <1>1, <1>2, <1>3

-----------------------------------------------------------------------------
\* What was listed stays true of the row under its revision, as long as only a
\* claim of it is settled.
LEMMA ListedStays ==
    ASSUME TypeInv, TypeInv', [Next]_vars, SnapInv, NEW s \in Schedulers, ListedAt(s),
           pc'[s] \in {"off", "idle"} \/
                (pc[s] \notin {"off", "idle"} /\ tick'[s].rows = tick[s].rows),
           \A k \in Keys :
                \/ triggers'[k].lastRun = triggers[k].lastRun
                \/ triggers[k].lastRun.kind = "claim" /\ triggers'[k].lastRun = NoLastRun
                \/ pc[s] \notin {"off", "idle"} /\ tick[s].rows[k].revision < triggers'[k].revision
    PROVE  ListedAt(s)'
<1> SUFFICES ASSUME pc'[s] \notin {"off", "idle"}, NEW k \in Keys,
                    tick[s].rows[k].created # Never,
                    tick[s].rows[k].revision = triggers'[k].revision
             PROVE  \/ triggers'[k].lastRun = tick[s].rows[k].lastRun
                    \/ /\ tick[s].rows[k].lastRun.kind = "claim"
                       /\ triggers'[k].lastRun = NoLastRun
  BY DEF ListedAt
<1> DEFINE r == tick[s].rows[k]
<1>1. /\ pc[s] \notin {"off", "idle"} /\ SnapAt(s)
      /\ r \in Trigger /\ triggers[k] \in Trigger /\ triggers'[k] \in Trigger
  BY TypeParts, TypePartsNext DEF TypeInv, TickType, TableType, SnapInv
<1>2. RowMoves(r, triggers[k]) /\ RowMoves(triggers[k], triggers'[k])
  BY <1>1, TableMoves DEF SnapAt
<1>3. r.revision \in Nat /\ triggers[k].revision \in Nat /\ triggers'[k].revision \in Nat
  BY <1>1 DEF Trigger
<1>4. r.revision <= triggers[k].revision /\ triggers[k].revision <= triggers'[k].revision
  BY <1>2, <1>3 DEF RowMoves
<1>5. r.revision = triggers[k].revision /\ ~(r.revision < triggers'[k].revision)
  BY <1>3, <1>4
<1>6. triggers[k].lastRun = r.lastRun
        \/ (r.lastRun.kind = "claim" /\ triggers[k].lastRun = NoLastRun)
  BY <1>1, <1>5 DEF ListedAt
<1>7. NoLastRun.kind # "claim"
  BY DEF NoLastRun
<1> QED BY <1>5, <1>6, <1>7

\* A step that starts no run, and writes no last run and no fire of a run that
\* executes, leaves the runs as they are.
LEMMA LiveStays ==
    ASSUME LiveInv, \A s \in Schedulers : pc[s] # "off" => pc'[s] # "off" /\ inc'[s] = inc[s],
           \A k \in Keys : \A d \in Times : runs'[k][d] = "live" =>
                /\ runs[k][d] = "live"
                /\ triggers'[k].lastRun = triggers[k].lastRun
                /\ fires'[k][d].incarnation = fires[k][d].incarnation
    PROVE  LiveInv'
BY DEF LiveInv, IsClaim, IsRun

\* A process that is off has nothing to keep, and one between two triggers only
\* what it has listed.
LEMMA FlightOff ==
    ASSUME NEW s \in Schedulers, pc'[s] \in {"off", "idle", "next"}, ListedAt(s)'
    PROVE  FlightAt(s)'
BY DEF FlightAt, ConsideredAt, DecidedAt, CalledAt

\* A step in which no process moves: an edit, the clock, the end of a run.
LEMMA WorldFlight ==
    ASSUME TypeInv, TypeInv', [Next]_vars, SnapInv, NEW s \in Schedulers, FlightAt(s),
           UNCHANGED <<Reads, fires>>,
           \A k \in Keys : triggers'[k].lastRun = triggers[k].lastRun,
           \A k \in Keys : \A d \in Times : runs'[k][d] = "live" => runs[k][d] = "live"
    PROVE  FlightAt(s)'
<1> DEFINE k == fire[s].key
           r == tick[s].rows[k]
<1>1. UNCHANGED <<pc, tick, fire, inc>>
  BY DEF Reads
<1>2. ListedAt(s)'
  BY <1>1, ListedStays DEF FlightAt
<1>3. CASE pc[s] \in {"off", "idle", "next"}
  BY <1>1, <1>2, <1>3, FlightOff
<1>4. CASE pc[s] \notin {"off", "idle", "next"}
  <2>1. k \in Keys /\ r \in Trigger /\ triggers[k] \in Trigger /\ triggers'[k] \in Trigger
    BY <1>4, TypeParts, TypePartsNext DEF TypeInv, Ready, ReadyAt, TickType, TableType
  <2>2. RowMoves(r, triggers[k]) /\ RowMoves(triggers[k], triggers'[k])
    BY <1>4, <2>1, TableMoves DEF SnapInv, SnapAt
  <2>3. r.revision \in Nat /\ triggers[k].revision \in Nat /\ triggers'[k].revision \in Nat
    BY <2>1 DEF Trigger
  <2>4. r.revision <= triggers[k].revision /\ triggers[k].revision <= triggers'[k].revision
    BY <2>2, <2>3 DEF RowMoves
  <2>5. /\ r.revision = triggers'[k].revision => r.revision = triggers[k].revision
        /\ r.revision < triggers[k].revision => r.revision < triggers'[k].revision
    BY <2>3, <2>4
  <2> HIDE DEF k, r
  <2>6. \A x \in Keys : Quiet(x) => Quiet(x)'
    BY DEF Quiet
  <2>7. ConsideredAt(s)'
    BY <1>1, <2>1 DEF FlightAt, ConsideredAt, k, r
  <2>8. DecidedAt(s)'
    <3> SUFFICES ASSUME pc[s] = "claim", r.revision = triggers'[k].revision, NEW d \in Times
                 PROVE  runs'[k][d] # "live"
      BY <1>1 DEF DecidedAt, Quiet, k, r
    <3> QED BY <2>1, <2>5 DEF FlightAt, DecidedAt, Quiet, k, r
  <2>9. CalledAt(s)'
    BY <1>1, <2>1, <2>5, <2>6 DEF FlightAt, CalledAt, k, r, Quiet
  <2> QED BY <1>2, <2>7, <2>8, <2>9 DEF FlightAt
<1> QED BY <1>3, <1>4

-----------------------------------------------------------------------------
\* Done with a trigger, a process keeps only what it has listed.
LEMMA LeaveFlight ==
    ASSUME TypeInv, TypeInv', [Next]_vars, SnapInv, NEW s \in Schedulers, ListedAt(s),
           pc[s] \notin {"off", "idle"}, Leave(s),
           \A k \in Keys :
                \/ triggers'[k].lastRun = triggers[k].lastRun
                \/ tick[s].rows[k].revision < triggers'[k].revision
    PROVE  FlightAt(s)'
<1>1. /\ pc'[s] \in {"idle", "next"}
      /\ pc'[s] = "idle" \/ tick'[s].rows = tick[s].rows
  BY TypeParts DEF TypeInv, TickType, Leave, Goto
<1>2. ListedAt(s)'
  BY <1>1, ListedStays
<1> QED BY <1>1, <1>2, FlightOff

\* The steps of a tick that write neither the tables nor the runs.
Looks(s) ==
    \/ ListTriggers(s) \/ (\E k \in Keys : NoHandler(s, k) \/ Consider(s, k))
    \/ CheckLease(s) \/ Decide(s) \/ ClaimRefused(s) \/ StoreFails(s)

LEMMA LooksListed ==
    ASSUME TypeInv, TypeInv', [Next]_vars, SnapInv, NEW s \in Schedulers, ListedAt(s), Looks(s)
    PROVE  ListedAt(s)'
<1>0. TickType
  BY TypeParts DEF TypeInv
<1>1. UNCHANGED triggers
  BY DEF Looks, ListTriggers, NoHandler, Consider, CheckLease, Decide, ClaimRefused, StoreFails, tables
<1>2. CASE ListTriggers(s)
  BY <1>0, <1>1, <1>2 DEF ListTriggers, ListedAt, TickType
<1>3. CASE (\E k \in Keys : NoHandler(s, k) \/ Consider(s, k)) \/ CheckLease(s)
  <2>1. pc'[s] = "idle" \/ (pc[s] \notin {"off", "idle"} /\ tick'[s].rows = tick[s].rows)
    BY <1>0, <1>3 DEF NoHandler, Consider, CheckLease, Goto, TickType
  <2> QED BY <1>1, <2>1, ListedStays
<1>4. CASE Decide(s) \/ ClaimRefused(s) \/ StoreFails(s)
  <2>1. pc[s] \notin {"off", "idle"} /\ (Leave(s) \/ (Goto(s, "claim") /\ UNCHANGED fire))
    BY <1>4 DEF Decide, ClaimRefused, StoreFails
  <2>2. pc'[s] = "idle" \/ (pc[s] \notin {"off", "idle"} /\ tick'[s].rows = tick[s].rows)
    BY <1>0, <2>1 DEF Leave, Goto, TickType
  <2> QED BY <1>1, <2>2, ListedStays
<1> QED BY <1>2, <1>3, <1>4 DEF Looks

\* The decision to claim: the last run that was listed has ended, or it was a claim
\* and has been settled.
LEMMA DecideQuiet ==
    ASSUME TypeInv, LiveInv, NEW s \in Schedulers, FlightAt(s), SnapInv,
           Decide(s), Goto(s, "claim"), UNCHANGED fire
    PROVE  DecidedAt(s)'
<1> DEFINE k == fire[s].key
           r == tick[s].rows[k]
<1>0. TickType /\ TableType /\ FireType /\ UNCHANGED <<triggers, runs, tick>> /\ pc[s] = "decide"
  BY TypeParts DEF TypeInv, Decide, tables, Goto
<1>1. k \in Keys /\ r.created # Never
  BY <1>0, TypeParts DEF TypeInv, Ready, ReadyAt, SnapInv, SnapAt
<1>2. IF r.lastRun.kind = "claim" THEN ~Blocked(k, triggers[k]) ELSE ~fire[s].blocked
  BY <1>0 DEF Decide, Goto, Leave, TickType
<1>3. SUFFICES ASSUME r.revision = triggers[k].revision PROVE Quiet(k)
  BY <1>0 DEF DecidedAt, Quiet
<1>4. triggers[k].lastRun = r.lastRun
        \/ (r.lastRun.kind = "claim" /\ triggers[k].lastRun = NoLastRun)
  BY <1>0, <1>1, <1>3 DEF FlightAt, ListedAt
<1>5. SUFFICES ASSUME NEW d \in Times, runs[k][d] = "live" PROVE FALSE
  BY DEF Quiet
<1>6. triggers[k].lastRun \in {IsClaim(d), IsRun(d)}
  BY <1>1, <1>5 DEF LiveInv
<1>7. triggers[k].lastRun = r.lastRun
  BY <1>4, <1>6 DEF IsClaim, IsRun, NoLastRun
<1>8. CASE r.lastRun.kind = "claim"
  BY <1>2, <1>7, <1>8 DEF Blocked
<1>9. CASE r.lastRun.kind # "claim"
  <2>1. r.lastRun = IsRun(d) /\ ~fire[s].blocked
    BY <1>2, <1>6, <1>7, <1>9 DEF IsClaim
  <2> QED BY <1>0, <1>5, <2>1 DEF FlightAt, ConsideredAt
<1> QED BY <1>8, <1>9

LEMMA LooksFlight ==
    ASSUME TypeInv, TypeInv', [Next]_vars, SnapInv, FlightInv, NEW s \in Schedulers, Looks(s)
    PROVE  FlightAt(s)' /\ LiveInv'
<1>0. TickType /\ FireType /\ TableType /\ FlightAt(s) /\ LiveInv
  BY TypeParts DEF TypeInv, FlightInv
<1>1. ListedAt(s)'
  BY <1>0, LooksListed DEF FlightAt
<1>2. UNCHANGED <<triggers, fires, runs>>
  BY DEF Looks, ListTriggers, NoHandler, Consider, CheckLease, Decide, ClaimRefused, StoreFails, tables
<1>3. LiveInv'
  <2>1. TickStep(s) \/ StoreFails(s)
    BY DEF Looks, TickStep
  <2>2. UNCHANGED inc /\ \A t \in Schedulers : pc[t] # "off" => pc'[t] # "off"
    BY <2>1, TickOn
  <2> QED BY <1>0, <1>2, <2>2, LiveStays
<1> SUFFICES FlightAt(s)'
  BY <1>3
<1>4. CASE pc'[s] \in {"idle", "next"}
  BY <1>1, <1>4, FlightOff
<1>5. ASSUME NEW k \in Keys, Consider(s, k) PROVE FlightAt(s)'
  <2>1. PICK unknown \in BOOLEAN :
            fire' = [fire EXCEPT ![s] =
                [key |-> k, due |-> DueOf(tick[s].rows[k], tick[s].moment),
                 blocked |-> unknown \/ Blocked(k, tick[s].rows[k]),
                 generation |-> 0, outcome |-> "none"]]
    BY <1>5 DEF Consider
  <2>2. pc'[s] = "check" /\ tick'[s].rows = tick[s].rows
    BY <1>0, <1>5 DEF Consider, TickType
  <2>3. fire'[s].key = k /\ (Blocked(k, tick[s].rows[k]) => fire'[s].blocked)
    BY <1>0, <2>1 DEF FireType
  <2>4. ASSUME ~fire'[s].blocked, NEW d \in Times, tick[s].rows[k].lastRun = IsRun(d)
        PROVE  runs'[k][d] # "live"
    <3>1. runs[k][d] = "live" => Blocked(k, tick[s].rows[k])
      BY <2>4 DEF Blocked, IsRun, RunIsLive
    <3> QED BY <1>2, <2>3, <2>4, <3>1
  <2>5. ConsideredAt(s)'
    BY <2>2, <2>3, <2>4 DEF ConsideredAt, IsRun
  <2> QED BY <1>1, <2>2, <2>5 DEF FlightAt, DecidedAt, CalledAt
<1>6. CASE CheckLease(s) /\ pc'[s] # "idle"
  <2>1. /\ pc[s] = "check" /\ pc'[s] \in {"decide", "settle"} /\ tick'[s] = tick[s]
        /\ fire'[s].key = fire[s].key /\ fire'[s].blocked = fire[s].blocked
    BY <1>0, <1>6 DEF CheckLease, Goto, TickType, FireType
  <2>2. ConsideredAt(s)'
    BY <1>0, <1>2, <2>1 DEF FlightAt, ConsideredAt, IsRun
  <2> QED BY <1>1, <2>1, <2>2 DEF FlightAt, DecidedAt, CalledAt
<1>7. CASE Decide(s) /\ Goto(s, "claim") /\ UNCHANGED fire
  <2>1. DecidedAt(s)' /\ pc'[s] = "claim"
    BY <1>0, <1>7, DecideQuiet DEF Goto, TickType
  <2> QED BY <1>1, <2>1 DEF FlightAt, ConsideredAt, CalledAt
<1>8. ListTriggers(s) \/ Leave(s) \/ (\E k \in Keys : NoHandler(s, k)) =>
        pc'[s] \in {"idle", "next"}
  BY <1>0 DEF ListTriggers, NoHandler, Leave, Goto, TickType
<1> QED BY <1>4, <1>5, <1>6, <1>7, <1>8 DEF Looks, Decide, ClaimRefused, StoreFails

\* The claims that are settled are not those of the process that is on.
LEMMA SettleFlight ==
    ASSUME TypeInv, TypeInv', [Next]_vars, SnapInv, FlightInv, NEW s \in Schedulers, Settle(s)
    PROVE  FlightAt(s)' /\ LiveInv'
<1>0. /\ TickType /\ TableType /\ FlightAt(s) /\ LiveInv /\ pc[s] = "settle" /\ pc'[s] = "decide"
      /\ UNCHANGED <<runs, fire, tick, inc>>
  BY TypeParts DEF TypeInv, FlightInv, Settle, Goto, TickType
<1>1. ASSUME NEW k \in Keys
      PROVE  \/ triggers'[k] = triggers[k]
             \/ \E e \in Times : /\ Lost(k, e, 1, inc[s])
                                 /\ triggers[k].lastRun = IsClaim(e)
                                 /\ triggers'[k] = [triggers[k] EXCEPT !.lastRun = NoLastRun]
  <2>1. fire[s].generation = 1
    BY <1>0 DEF FlightInv, OneGeneration
  <2> QED BY <2>1 DEF Settle, SettleLostClaims, IsClaim
<1>2. ASSUME NEW k \in Keys
      PROVE  \/ triggers'[k].lastRun = triggers[k].lastRun
             \/ triggers[k].lastRun.kind = "claim" /\ triggers'[k].lastRun = NoLastRun
  <2>1. triggers[k] \in Trigger
    BY <1>0 DEF TableType
  <2>2. CASE triggers'[k] = [triggers[k] EXCEPT !.lastRun = NoLastRun]
                /\ \E e \in Times : triggers[k].lastRun = IsClaim(e)
    BY <2>1, <2>2 DEF Trigger, IsClaim
  <2> QED BY <1>1, <2>2
<1>3. ListedAt(s)'
  BY <1>0, <1>2, ListedStays DEF FlightAt
<1>4. ConsideredAt(s)'
  BY <1>0 DEF FlightAt, ConsideredAt, IsRun
<1>5. ASSUME NEW k \in Keys, NEW d \in Times, runs'[k][d] = "live"
      PROVE  /\ triggers'[k].lastRun = triggers[k].lastRun
             /\ fires'[k][d].incarnation = fires[k][d].incarnation
  <2>1. /\ triggers[k].lastRun \in {IsClaim(d), IsRun(d)}
        /\ fires[k][d].incarnation = inc[s]
    BY <1>0, <1>5 DEF LiveInv, FlightInv, Alone
  <2>2. ~Lost(k, d, 1, inc[s])
    BY <2>1 DEF Lost, FlightInv, OneGeneration
  <2>3. triggers'[k] = triggers[k]
    <3>1. ASSUME NEW e \in Times, Lost(k, e, 1, inc[s]), triggers[k].lastRun = IsClaim(e)
          PROVE  FALSE
      <4>1. e = d
        BY <2>1, <3>1 DEF IsClaim, IsRun
      <4> QED BY <2>2, <3>1, <4>1
    <3> QED BY <1>1, <3>1
  <2>4. \A t \in Schedulers : ~Claim(t)
    <3>1. \A t \in Schedulers : Claim(t) => pc'[t] = "wake" /\ pc[t] = "claim"
      BY <1>0 DEF Claim, Goto, TickType
    <3> QED BY <1>0, <3>1 DEF FlightInv, Alone
  <2> QED BY <2>3, <2>4, RowKeepsProcess
<1>6. LiveInv'
  <2>1. \A t \in Schedulers : pc[t] # "off" => pc'[t] # "off"
    BY TickOn DEF TickStep
  <2> QED BY <1>0, <1>5, <2>1, LiveStays
<1> QED BY <1>0, <1>3, <1>4, <1>6 DEF FlightAt, DecidedAt, CalledAt

\* The claim: no run of the trigger executes, and what was listed of it is past.
LEMMA ClaimFlight ==
    ASSUME TypeInv, TypeInv', [Next]_vars, SnapInv, FlightInv, NEW s \in Schedulers, Claim(s)
    PROVE  FlightAt(s)' /\ LiveInv'
<1> DEFINE x == fire[s].key
           e == fire[s].due
<1>0. /\ TickType /\ TableType /\ FlightAt(s) /\ LiveInv /\ pc[s] = "claim" /\ pc'[s] = "wake"
      /\ UNCHANGED <<runs, fire, tick, inc>>
  BY TypeParts DEF TypeInv, FlightInv, Claim, Goto, TickType
<1>1. /\ x \in Keys /\ e \in Times
      /\ \A k \in Keys : \A d \in Times : fires'[k][d] = fires[k][d] \/ (k = x /\ d = e)
  BY ClaimRow
<1>2. fires'[x][e].incarnation = inc[s]
  BY <1>0, <1>1 DEF TableType, Claim, Claims
<1>3. /\ \A k \in Keys : k # x => triggers'[k] = triggers[k]
      /\ triggers'[x].lastRun = IsClaim(e) /\ triggers'[x].revision = triggers[x].revision + 1
  BY <1>1, ClaimTrigger DEF IsClaim
<1>4. triggers[x].revision = tick[s].rows[x].revision /\ triggers[x].revision \in Nat
  BY <1>0, <1>1 DEF Claim, MayClaim, FenceHolds, TableType, Trigger
<1>5. Quiet(x)
  BY <1>0, <1>4 DEF FlightAt, DecidedAt
<1>6. tick[s].rows[x].revision < triggers'[x].revision
  BY <1>3, <1>4
<1> HIDE DEF x, e
<1>7. ListedAt(s)'
  BY <1>0, <1>3, <1>6, ListedStays DEF FlightAt
<1>8. CalledAt(s)'
  <2>1. Quiet(x)'
    BY <1>0, <1>5 DEF Quiet, x
  <2> QED BY <1>0, <1>2, <1>3, <1>6, <2>1 DEF CalledAt, x, e
<1>9. LiveInv'
  <2>1. \A t \in Schedulers : pc[t] # "off" => pc'[t] # "off"
    BY TickOn DEF TickStep
  <2>2. ASSUME NEW k \in Keys, NEW d \in Times, runs'[k][d] = "live"
        PROVE  k # x
    BY <1>0, <1>5, <2>2 DEF Quiet
  <2> QED BY <1>0, <1>1, <1>3, <2>1, <2>2, LiveStays
<1> QED BY <1>0, <1>7, <1>8, <1>9 DEF FlightAt, ConsideredAt, DecidedAt

\* The handler starts the only run of its trigger, or none.
LEMMA WakeFlight ==
    ASSUME TypeInv, TypeInv', [Next]_vars, SnapInv, FlightInv, NEW s \in Schedulers,
           NEW o \in {"started", "declined", "failed"}, Wake(s, o)
    PROVE  FlightAt(s)' /\ LiveInv'
<1> DEFINE x == fire[s].key
           e == fire[s].due
<1>0. /\ TickType /\ TableType /\ FireType /\ FlightAt(s) /\ LiveInv
      /\ pc[s] = "wake" /\ pc'[s] = "finish" /\ UNCHANGED <<triggers, fires, tick, inc>>
  BY TypeParts DEF TypeInv, FlightInv, Wake, Goto, TickType, tables
<1>1. x \in Keys /\ e \in Times
  BY <1>0, TypeParts DEF TypeInv, Ready, ReadyAt
<1>2. fire'[s].key = x /\ fire'[s].due = e /\ fire'[s].outcome = o
  BY <1>0 DEF Wake, FireType
<1>3. /\ tick[s].rows[x].revision < triggers[x].revision
      /\ triggers[x].lastRun = IsClaim(e) /\ fires[x][e].incarnation = inc[s] /\ Quiet(x)
  BY <1>0 DEF FlightAt, CalledAt
<1>4. IF o = "started" THEN runs' = [runs EXCEPT ![x][e] = "live"] ELSE runs' = runs
  BY DEF Wake
<1> HIDE DEF x, e
<1>5. ListedAt(s)'
  BY <1>0, ListedStays DEF FlightAt
<1>6. CalledAt(s)'
  <2>1. o # "started" => \A d \in Times : runs'[x][d] # "live"
    BY <1>3, <1>4 DEF Quiet
  <2> QED BY <1>0, <1>2, <1>3, <2>1 DEF CalledAt, Quiet, IsClaim
<1>7. LiveInv'
  <2>1. \A t \in Schedulers : pc[t] # "off" => pc'[t] # "off"
    BY TickOn DEF TickStep
  <2>2. ASSUME NEW k \in Keys, NEW d \in Times, runs'[k][d] = "live"
        PROVE  runs[k][d] = "live" \/ (k = x /\ d = e)
    BY <1>0, <1>1, <1>4, <2>2 DEF TableType
  <2> QED BY <1>0, <1>3, <2>1, <2>2 DEF LiveInv, IsClaim, IsRun
<1> QED BY <1>0, <1>5, <1>6, <1>7 DEF FlightAt, ConsideredAt, DecidedAt

\* The run that was started becomes the last run, or stays the claim.
LEMMA FinishFlight ==
    ASSUME TypeInv, TypeInv', [Next]_vars, SnapInv, FlightInv, NEW s \in Schedulers, FinishFire(s)
    PROVE  FlightAt(s)' /\ LiveInv'
<1> DEFINE x == fire[s].key
           e == fire[s].due
           o == fire[s].outcome
<1>0. /\ TickType /\ TableType /\ FlightAt(s) /\ LiveInv /\ pc[s] = "finish" /\ Leave(s)
      /\ UNCHANGED <<runs, inc>>
  BY TypeParts DEF TypeInv, FlightInv, FinishFire
<1>1. x \in Keys /\ e \in Times
  BY <1>0, TypeParts DEF TypeInv, Ready, ReadyAt
<1>2. /\ tick[s].rows[x].revision < triggers[x].revision
      /\ triggers[x].lastRun = IsClaim(e) /\ (o # "started" => Quiet(x))
  BY <1>0 DEF FlightAt, CalledAt
<1>3. /\ \A k \in Keys : k # x => triggers'[k] = triggers[k]
      /\ triggers'[x] = triggers[x]
            \/ triggers'[x] = [triggers[x] EXCEPT !.lastRun = AfterFire(e, o)]
  BY <1>0, <1>1 DEF FinishFire, TableType
<1> HIDE DEF x, e, o
<1>4. /\ triggers'[x].revision = triggers[x].revision
      /\ triggers'[x].lastRun = triggers[x].lastRun \/ triggers'[x].lastRun = AfterFire(e, o)
  BY <1>0, <1>1, <1>3 DEF TableType, Trigger
<1>5. FlightAt(s)'
  <2>1. \A k \in Keys : triggers'[k].lastRun = triggers[k].lastRun
                          \/ tick[s].rows[k].revision < triggers'[k].revision
    BY <1>2, <1>3, <1>4
  <2> QED BY <1>0, <2>1, LeaveFlight DEF FlightAt
<1>6. ASSUME NEW k \in Keys, NEW d \in Times, runs'[k][d] = "live"
      PROVE  /\ triggers'[k].lastRun \in {IsClaim(d), IsRun(d)}
             /\ \E t \in Schedulers : pc'[t] # "off" /\ fires'[k][d].incarnation = inc'[t]
  <2>1. /\ triggers[k].lastRun \in {IsClaim(d), IsRun(d)}
        /\ \E t \in Schedulers : pc[t] # "off" /\ fires[k][d].incarnation = inc[t]
    BY <1>0, <1>6 DEF LiveInv
  <2>2. \A t \in Schedulers : pc[t] # "off" => pc'[t] # "off"
    BY TickOn DEF TickStep
  <2>3. \A t \in Schedulers : ~Claim(t)
    <3>1. \A t \in Schedulers : Claim(t) => pc'[t] = "wake" /\ pc[t] = "claim"
      BY <1>0 DEF Claim, Goto, TickType
    <3> QED BY <1>0, <3>1 DEF FlightInv, Alone
  <2>4. fires'[k][d].incarnation = fires[k][d].incarnation
    BY <2>3, RowKeepsProcess
  <2>5. triggers'[k].lastRun \in {IsClaim(d), IsRun(d)}
    <3>1. CASE k # x
      BY <1>3, <2>1, <3>1
    <3>2. CASE k = x
      <4>1. d = e /\ o = "started"
        BY <1>0, <1>2, <1>6, <2>1, <3>2 DEF Quiet, IsClaim, IsRun
      <4>2. AfterFire(e, o) = IsRun(d)
        BY <4>1 DEF AfterFire, IsRun
      <4> QED BY <1>4, <2>1, <3>2, <4>2
    <3> QED BY <3>1, <3>2
  <2> QED BY <1>0, <2>1, <2>2, <2>4, <2>5
<1> QED BY <1>5, <1>6 DEF LiveInv

LEMMA CrashFlight ==
    ASSUME TypeInv, FlightInv, NEW s \in Schedulers, Crash(s)
    PROVE  FlightAt(s)' /\ LiveInv'
<1>0. TickType /\ TableType /\ pc[s] # "off" /\ pc'[s] = "off" /\ LiveInv
  BY TypeParts DEF TypeInv, FlightInv, Crash, TickType
<1>1. FlightAt(s)'
  BY <1>0 DEF FlightAt, ListedAt, ConsideredAt, DecidedAt, CalledAt
<1>2. ASSUME NEW k \in Keys, NEW d \in Times, runs'[k][d] = "live" PROVE FALSE
  <2>1. runs[k][d] = "live" /\ fires[k][d].incarnation # inc[s]
    BY <1>2 DEF Crash
  <2> QED BY <1>0, <2>1 DEF LiveInv, FlightInv, Alone
<1> QED BY <1>1, <1>2 DEF LiveInv

LEMMA BootFlight ==
    ASSUME SingleOwner, TypeInv, FlightInv, NEW s \in Schedulers, Boot(s)
    PROVE  FlightAt(s)' /\ LiveInv'
<1>0. /\ TickType /\ UNCHANGED runs /\ pc'[s] = "idle" /\ LiveInv
      /\ \A t \in Schedulers : pc[t] = "off"
  BY TypeParts DEF TypeInv, FlightInv, Boot, TickType
<1>1. FlightAt(s)'
  BY <1>0 DEF FlightAt, ListedAt, ConsideredAt, DecidedAt, CalledAt
<1>2. ASSUME NEW k \in Keys, NEW d \in Times, runs'[k][d] = "live" PROVE FALSE
  BY <1>0, <1>2 DEF LiveInv
<1> QED BY <1>1, <1>2 DEF LiveInv

LEMMA StepFlight ==
    SingleOwner /\ TypeInv /\ TypeInv' /\ SnapInv /\ FlightInv /\ [Next]_vars => FlightInv'
<1> SUFFICES ASSUME SingleOwner, TypeInv, TypeInv', SnapInv, FlightInv, [Next]_vars
             PROVE  LiveInv' /\ \A s \in Schedulers : FlightAt(s)'
  BY StepAlone, StepGeneration DEF FlightInv
<1>0. TickType
  BY TypeParts DEF TypeInv
<1>1. ASSUME NEW s \in Schedulers, TickStep(s) \/ StoreFails(s) \/ Crash(s) \/ Boot(s)
      PROVE  LiveInv' /\ \A t \in Schedulers : FlightAt(t)'
  <2>1. FlightAt(s)' /\ LiveInv'
    BY <1>1, LooksFlight, SettleFlight, ClaimFlight, WakeFlight, FinishFlight, CrashFlight,
       BootFlight DEF TickStep, Looks
  <2>2. ASSUME NEW t \in Schedulers \ {s} PROVE FlightAt(t)'
    <3>1. pc[t] = "off" /\ pc'[t] = pc[t]
      <4>1. CASE TickStep(s) \/ StoreFails(s)
        BY <4>1, TickOn DEF FlightInv, Alone
      <4>2. CASE Crash(s)
        BY <1>0, <4>2 DEF Crash, TickType, FlightInv, Alone
      <4>3. CASE Boot(s)
        BY <1>0, <4>3 DEF Boot, TickType
      <4> QED BY <1>1, <4>1, <4>2, <4>3
    <3> QED BY <3>1 DEF FlightAt, ListedAt, ConsideredAt, DecidedAt, CalledAt
  <2> QED BY <2>1, <2>2
<1>2. CASE /\ UNCHANGED <<Reads, fires>>
           /\ \A k \in Keys : triggers'[k].lastRun = triggers[k].lastRun
           /\ \A k \in Keys : \A d \in Times : runs'[k][d] = "live" => runs[k][d] = "live"
  <2>1. \A s \in Schedulers : FlightAt(s)'
    BY <1>2, WorldFlight DEF FlightInv
  <2>2. LiveInv'
    BY <1>2, LiveStays DEF FlightInv, Reads
  <2> QED BY <2>1, <2>2
<1>3. ASSUME NEW x \in Keys, OwnerEdit(x)
      PROVE  /\ UNCHANGED <<Reads, fires, runs>>
             /\ \A k \in Keys : triggers'[k].lastRun = triggers[k].lastRun
  BY <1>3, EditKeeps DEF OwnerEdit, Ensure, SetEnabled, NoteEngagement, SetCadenceOverride,
     owner, Reads
<1>4. ASSUME NEW x \in Keys, NEW e \in Times, RunEnds(x, e)
      PROVE  /\ UNCHANGED <<Reads, fires, triggers>>
             /\ \A k \in Keys : \A d \in Times : runs'[k][d] = "live" => runs[k][d] = "live"
  <2>1. TableType
    BY TypeParts DEF TypeInv
  <2>2. ASSUME NEW k \in Keys, NEW d \in Times, runs'[k][d] = "live" PROVE runs[k][d] = "live"
    BY <1>4, <2>1, <2>2 DEF RunEnds, TableType
  <2> QED BY <1>4, <2>2 DEF RunEnds, tables, owner, Reads
<1>5. Clock \/ (\E s \in Schedulers : RegisterHandler(s)) \/ UNCHANGED vars =>
        UNCHANGED <<Reads, tables, runs>>
  BY DEF Clock, RegisterHandler, vars, owner, Reads, tables
<1> QED BY <1>1, <1>2, <1>3, <1>4, <1>5 DEF Next, tables

LEMMA InitFlight == Init => FlightInv
BY DEF Init, FlightInv, Alone, OneGeneration, LiveInv, FlightAt, ListedAt, ConsideredAt, DecidedAt,
   CalledAt, NoFire

LEMMA FlightIsSingle == FlightInv => SingleFlight
<1> SUFFICES ASSUME FlightInv, NEW k \in Keys
             PROVE  Cardinality({due \in Times : runs[k][due] = "live"}) <= 1
  BY DEF SingleFlight
<1> DEFINE Live == {due \in Times : runs[k][due] = "live"}
<1>1. \A d, e \in Live : d = e
  BY DEF FlightInv, LiveInv, IsClaim, IsRun
<1>2. CASE Live = {}
  BY <1>2, FS_EmptySet
<1>3. ASSUME NEW d \in Live PROVE Cardinality(Live) <= 1
  <2>1. Live = {d}
    BY <1>1
  <2>2. Cardinality({d}) = 1
    BY FS_Singleton
  <2> HIDE DEF Live
  <2> QED BY <2>1, <2>2
<1> QED BY <1>2, <1>3

\* Single flight: under SingleProcessLease at most one run of a trigger executes,
\* whatever outcomes could not be written and however often the process is
\* restarted; the last run that the trigger row shows is the run that executes.
THEOREM SingleFlightHolds == SingleOwner => (Spec => []SingleFlight)
<1> SUFFICES ASSUME SingleOwner PROVE Spec => []SingleFlight
  OBVIOUS
<1>1. TypeInv /\ TypeInv' /\ SnapInv /\ FlightInv /\ [Next]_vars => FlightInv'
  BY StepFlight
<1> QED BY <1>1, InitType, InitSnap, InitFlight, FlightIsSingle, StepType, StepSnap, PTL DEF Spec
=============================================================================
