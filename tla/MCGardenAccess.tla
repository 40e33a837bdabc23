--------------------------- MODULE MCGardenAccess ---------------------------
(* Small instances of GardenAccess for TLC.                                *)
EXTENDS GardenAccess, TLC

CONSTANTS r1, r2, k1, k2

\* Each region has a Keystone of its own; or one Keystone serves both.
OwnKeystones == (r1 :> k1) @@ (r2 :> k2)
OneKeystone == (r1 :> k1) @@ (r2 :> k1)
=============================================================================
