-------------------------- MODULE MCAuditChainLock --------------------------
(* Instances of AuditChainLock for TLC. *)
EXTENDS AuditChainLock, TLC

Symmetry == Permutations(Calls)
=============================================================================
