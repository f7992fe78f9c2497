-------------------------- MODULE MCForensicManifest --------------------------
(* Instances of ForensicManifest for TLC. *)
EXTENDS ForensicManifest

Symmetry == Permutations(Procs) \cup Permutations(Records)
=============================================================================
