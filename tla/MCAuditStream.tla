---------------------------- MODULE MCAuditStream ----------------------------
(***************************************************************************)
(* Instances of AuditStream for TLC; every constant is a number and is     *)
(* given in the .cfg files.                                                *)
(***************************************************************************)
EXTENDS AuditStream

=============================================================================
