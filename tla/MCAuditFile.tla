----------------------------- MODULE MCAuditFile -----------------------------
(***************************************************************************)
(* AuditFile with two events on disk, one of which the client filters out, *)
(* and two new ones, one of which has a line too long to be scanned.       *)
(***************************************************************************)
EXTENDS AuditFile

CONSTANTS First, Second

MCEarlier == <<First, Second>>
=============================================================================
