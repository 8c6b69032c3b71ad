------------------------------ MODULE MCRunLoop ------------------------------
EXTENDS RunLoop

Symmetry == Permutations(Wrappers) \cup Permutations(Handles)
=============================================================================
