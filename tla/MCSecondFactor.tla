---------------------------- MODULE MCSecondFactor ----------------------------
\* Small instances of SecondFactor for TLC.
EXTENDS SecondFactor, TLC

Symmetry == Permutations(Requests) \cup Permutations(Secrets) \cup Permutations(Issues)
=============================================================================
