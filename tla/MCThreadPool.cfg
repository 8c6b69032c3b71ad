CONSTANTS
  Requests = {r1, r2, r3}
  Workers = {k1, k2}
  NULL = NULL
SPECIFICATION FairSpec
INVARIANTS InOnePlace ReqsCounted
PROPERTIES WorkCompletes
CHECK_DEADLOCK FALSE
