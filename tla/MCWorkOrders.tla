----------------------------- MODULE MCWorkOrders -----------------------------
\* Small instances of WorkOrders for TLC.
EXTENDS WorkOrders, TLC

Symmetry == Permutations(Users) \cup Permutations(Requests)
=============================================================================
