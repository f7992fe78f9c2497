------------------------------- MODULE MCGrants -------------------------------
\* Small instances of Grants for TLC.
EXTENDS Grants, TLC

Symmetry == Permutations(Admins) \cup Permutations(Ops)
=============================================================================
