---------------------------- MODULE MCAuditChain ----------------------------
(* Small instances of AuditChain. *)
EXTENDS AuditChain, TLC

MCSymmetry == Permutations(Transactions \ Serializable)
=============================================================================
