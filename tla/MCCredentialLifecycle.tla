------------------------ MODULE MCCredentialLifecycle ------------------------
(* Small instances of CredentialLifecycle for TLC.                         *)
EXTENDS CredentialInvariant
=============================================================================
