---------------------------- MODULE MCAsyncHandle ----------------------------
EXTENDS AsyncHandle, TLC

Symmetry == Permutations(Wrappers) \cup Permutations(Handles)
=============================================================================
