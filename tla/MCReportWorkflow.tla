-------------------------- MODULE MCReportWorkflow --------------------------
(* Small instances of ReportWorkflow: a representative of the only
   educational organization and an administrator, who may do everything. *)
EXTENDS ReportWorkflow, TLC

MCSymmetry == Permutations(Calls) \cup Permutations(Writers)
=============================================================================
