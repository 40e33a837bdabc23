------------------------- MODULE MCClusterUserLogin -------------------------
(* Small instances of ClusterUserLogin for TLC.                            *)
EXTENDS ClusterUserLogin
=============================================================================
