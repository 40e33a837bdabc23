------------------------ MODULE MCAuditCertificates ------------------------
(* Small instances of AuditCertificates for TLC.                           *)
EXTENDS CertificateInvariant
=============================================================================
