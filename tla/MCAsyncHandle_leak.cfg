CONSTANTS
  Wrappers = {w1, w2}
  Handles = {h1, h2}
  NULL = NULL
SPECIFICATION Spec
SYMMETRY Symmetry
INVARIANTS NoLeak
