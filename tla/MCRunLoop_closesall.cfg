CONSTANTS
  Wrappers = {w1}
  Handles = {h1, h2}
  NULL = NULL
  OwnLoop = TRUE
  kMaxLoopTimeout = 1
  MaxReqs = 1
  MaxClock = 2
SPECIFICATION RLSpec
INVARIANTS ClosesAllHandles
CHECK_DEADLOCK FALSE
