---------------------------- MODULE MCShootQueue ----------------------------
(* Small instances of ShootQueue for TLC.                                  *)
EXTENDS ShootQueue
=============================================================================
