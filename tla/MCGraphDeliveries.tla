------------------------- MODULE MCGraphDeliveries -------------------------
(* Small instances of GraphDeliveries for TLC.                             *)
EXTENDS GraphDeliveries

CONSTANTS s1, s2, s3, c1, c2
=============================================================================
