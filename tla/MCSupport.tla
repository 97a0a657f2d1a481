----------------------------- MODULE MCSupport -----------------------------
EXTENDS Support, TLC

Symmetry == Permutations(Requests) \cup Permutations(Keys)
============================================================================
