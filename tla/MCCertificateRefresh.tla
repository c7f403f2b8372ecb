------------------------ MODULE MCCertificateRefresh ------------------------
(***************************************************************************)
(* Instances of CertificateRefresh for TLC.                                *)
(***************************************************************************)
EXTENDS CertificateRefresh, TLC

CONSTANTS l1, l2

=============================================================================
