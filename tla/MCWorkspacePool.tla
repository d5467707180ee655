-------------------------- MODULE MCWorkspacePool --------------------------
(* Small instances of WorkspacePool for TLC.                               *)
EXTENDS WorkspacePool, TLC

CONSTANTS a, b, l1, l2, p1, p2

\* Waiters start alike, and a lease id is as good as another.
WaitersAlike == Permutations(Runs \ Direct) \cup Permutations(Leases)
ProcsAlike == Permutations(Procs) \cup Permutations(Leases)
=============================================================================
