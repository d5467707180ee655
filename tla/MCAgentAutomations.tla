------------------------ MODULE MCAgentAutomations -------------------------
(* Small instances of AgentAutomations for TLC.                            *)
EXTENDS AgentAutomations

CONSTANTS c1, c2, wake, beat

\* The wake is due at the start and cancels what runs; the cadence skips.
MCOverlap == [r \in Rows |-> IF r = wake THEN "cancel" ELSE "skip"]
MCNotBefore == [w \in Wakes |-> 0]
=============================================================================
