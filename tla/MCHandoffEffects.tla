-------------------------- MODULE MCHandoffEffects --------------------------
(* Small instances of HandoffEffects for TLC.                              *)
EXTENDS HandoffEffects, TLC

CONSTANTS r1, r2, r3, t1, t2, t3

\* Requests and tokens are alike.
AllAlike == Permutations(Requests) \cup Permutations(Tokens)
=============================================================================
