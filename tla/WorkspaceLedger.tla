-------------------------- MODULE WorkspaceLedger --------------------------
(***************************************************************************)
(* What the workspace of a command center promises the runs that work in   *)
(* it.  A run that has started takes leases; from the first one until it   *)
(* has ended the workspace is its own, and nobody touches the trees it     *)
(* works in.  What it leaves is wiped: a lease is reported gone only when  *)
(* its tree is, or when a look at it failed; and what is not reported gone *)
(* counts against the pool.  A run that was resumed after its end is       *)
(* promised nothing.                                                       *)
(***************************************************************************)
EXTENDS Integers, FiniteSets

CONSTANTS
    Runs, Leases,
    Cap,        \* the pool, in leases
    NoRun       \* "no run"

VARIABLES
    phase,      \* "none", "waiting", "running", "ended", or "resumed" for good
    holder,     \* the run whose workspace it is
    use,        \* a lease: "none", "used", "left", "gone", "lost", or a resumed run's: "void"
    by,         \* the run it was granted to
    trees,      \* the leases with a tree on the disk, "void" ones left out
    overlooked  \* the leases where a look has failed to see the tree

Init ==
    /\ phase = [r \in Runs |-> "none"] /\ holder = NoRun
    /\ use = [l \in Leases |-> "none"] /\ by = [l \in Leases |-> NoRun]
    /\ trees = {} /\ overlooked = {}

Used == {l \in Leases : use[l] = "used"}
Charged == {l \in Leases : use[l] \in {"used", "left", "lost"}}
With(r) == {l \in Leases : by[l] = r}

Becomes(S, word) == use' = [l \in Leases |-> IF l \in S THEN word ELSE use[l]]

Move(r, from, to) == phase[r] = from /\ phase' = [phase EXCEPT ![r] = to]

Wait(r) == Move(r, "none", "waiting") /\ UNCHANGED <<holder, use, by, trees, overlooked>>
Start(r) == Move(r, "waiting", "running") /\ UNCHANGED <<holder, use, by, trees, overlooked>>

\* A run ends and leaves what it has, or ends before it has started.
End(r) ==
    /\ Move(r, "waiting", "ended") \/ Move(r, "running", "ended")
    /\ Becomes(Used \cap With(r), "left")
    /\ UNCHANGED <<holder, by, trees, overlooked>>

Resume(r) ==
    /\ Move(r, "ended", "resumed")
    /\ Becomes(With(r), "void") /\ trees' = trees \ With(r)
    /\ UNCHANGED <<holder, by, overlooked>>

Grant(r, l) ==
    /\ use[l] = "none" /\ holder \in {NoRun, r}
    /\ Cardinality(Charged) < Cap
    /\ \/ phase[r] = "running" /\ Becomes({l}, "used")
       \/ phase[r] = "resumed" /\ Becomes({l}, "void")
    /\ by' = [by EXCEPT ![l] = r] /\ holder' = r
    /\ UNCHANGED <<phase, trees, overlooked>>

Fill(l) ==
    /\ use[l] = "used"
    /\ trees' = trees \cup {l}
    /\ UNCHANGED <<phase, holder, use, by, overlooked>>

\* Leases are given back, or their process stops; a tree may be half made then.
Leave(S) ==
    /\ Becomes(S, "left")
    /\ \E made \in SUBSET S : trees' = trees \cup made
    /\ UNCHANGED <<phase, holder, by, overlooked>>

Wipe(l) ==
    /\ use[l] # "used"
    /\ trees' = trees \ {l}
    /\ UNCHANGED <<phase, holder, use, by, overlooked>>

\* A look for what is to be wiped fails.
Overlook(l) ==
    /\ use[l] # "used"
    /\ overlooked' = overlooked \cup {l}
    /\ UNCHANGED <<phase, holder, use, by, trees>>

\* The workspace is given up: by a run that has ended, or was resumed.
GivenUp == holder # NoRun /\ phase[holder] \in {"ended", "resumed"}

\* What was left is accounted for, once or again.
Account(l, word) ==
    /\ use[l] \in {"left", "gone", "lost"}
    /\ word = "gone" => l \notin trees \ overlooked
    /\ Becomes({l}, word)
    /\ holder' = holder \/ (GivenUp /\ holder' = NoRun)
    /\ UNCHANGED <<phase, by, trees, overlooked>>

GiveUp ==
    /\ GivenUp /\ holder' = NoRun
    /\ UNCHANGED <<phase, use, by, trees, overlooked>>

Next ==
    \/ \E S \in SUBSET Used : Leave(S)
    \/ \E r \in Runs : Wait(r) \/ Start(r) \/ End(r) \/ Resume(r)
    \/ \E r \in Runs : \E l \in Leases : Grant(r, l)
    \/ \E l \in Leases : Fill(l) \/ Wipe(l) \/ Overlook(l)
    \/ \E l \in Leases : \E word \in {"gone", "lost"} : Account(l, word)
    \/ GiveUp

Spec == Init /\ [][Next]_<<phase, holder, use, by, trees, overlooked>>
=============================================================================
