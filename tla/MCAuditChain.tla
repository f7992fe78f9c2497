---------------------------- MODULE MCAuditChain ----------------------------
(* Instances of AuditChain for TLC. *)
EXTENDS AuditChain

Symmetry == Permutations(Creates) \cup Permutations(Flushes)
=============================================================================
