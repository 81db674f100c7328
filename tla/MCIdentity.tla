---- MODULE MCIdentity ----
EXTENDS Identity, TLC

Symmetry == Permutations(Requests) \cup Permutations(Tokens) \cup Permutations(Links)
=============================================================================
