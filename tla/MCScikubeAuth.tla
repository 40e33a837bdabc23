---------------------------- MODULE MCScikubeAuth ---------------------------
(* Small instances of ScikubeAuth for TLC.                                  *)
EXTENDS ScikubeAuth, TLC

Symmetry == Permutations(Runs)
=============================================================================
