----------------------- MODULE MCControlPlaneTriggers -----------------------
(* Small instances of ControlPlaneTriggers for TLC.                        *)
EXTENDS ControlPlaneTriggers, TLC

CONSTANTS k1, k2, s1, s2

\* Closed for one tick of four; daily after three quiet ticks.
MCDefault == [engaged |-> 2, cooling |-> 3, dormant |-> 4, coolAfter |-> 3,
              dormantAfter |-> 9, idle |-> 1, open |-> {0, 1, 2}]
\* An owner who asks for more, and sleeps at another time.
MCOverride == [engaged |-> 1, cooling |-> 2, dormant |-> 2, coolAfter |-> 4,
               dormantAfter |-> 9, idle |-> 0, open |-> {1, 2, 3}]
\* The two owners of the handover runs are alike.
OwnersAlike == Permutations(Schedulers)
=============================================================================
