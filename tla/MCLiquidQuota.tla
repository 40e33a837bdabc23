--------------------------- MODULE MCLiquidQuota ---------------------------
(* Small instances of LiquidQuota for TLC.                                 *)
EXTENDS LiquidQuota
=============================================================================
