--------------------------- MODULE MCSecretRequeue ---------------------------
(* Small instances of SecretRequeue for TLC.                               *)
EXTENDS SecretRequeue
=============================================================================
