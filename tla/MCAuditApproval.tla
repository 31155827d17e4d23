-------------------------- MODULE MCAuditApproval --------------------------
(* Instances of AuditApproval for TLC: the configurations give its          *)
(* constants.  Liveness is checked together with safety, so no symmetry.    *)
EXTENDS AuditRefinesApproval, TLC
============================================================================
