----------------------------- MODULE MCThreadPool -----------------------------
EXTENDS ThreadPool, TLC

Symmetry == Permutations(Requests) \cup Permutations(Workers)
=============================================================================
