--------------------------- MODULE MCUserAuthCache ---------------------------
\* Small instances of UserAuthCache for TLC.
EXTENDS UserAuthCache, TLC

Symmetry == Permutations(Loads)
=============================================================================
