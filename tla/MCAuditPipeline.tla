--------------------------- MODULE MCAuditPipeline ---------------------------
(* Small instances of AuditPipeline.  Candidate c1 needs two audits, any   *)
(* other one.                                                              *)
EXTENDS AuditPipeline

CONSTANTS c1, c2

MCRequired(c) == IF c = c1 THEN 2 ELSE 1

=============================================================================
