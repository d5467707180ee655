------------------------- MODULE MCBranchTaskQueue -------------------------
(* Small instances of BranchTaskQueue for TLC.                             *)
EXTENDS BranchTaskQueue

CONSTANTS w1, w2, req, kid1, kid2, pool, old, daemon, id1, id2, none

MCServes == [w \in Workers |-> Ids]
MCDaemonOf == [w \in Workers |-> daemon]
MCWorkerIdOf == [w \in Workers |-> IF w = w1 THEN id1 ELSE id2]
MCSharedWorkerIdOf == [w \in Workers |-> none]
MCPathOf == [t \in Ids |-> IF t \in RequestIds THEN "direct"
                           ELSE IF t \in ChildIds THEN "stream" ELSE "bid"]
=============================================================================
