CONSTANTS
  Requests = {r1, r2, r3}
  Workers = {k1, k2}
  NULL = NULL
SPECIFICATION Spec
SYMMETRY Symmetry
INVARIANTS WeakReference
CHECK_DEADLOCK FALSE
