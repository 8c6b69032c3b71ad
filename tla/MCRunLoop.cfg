CONSTANTS
  Wrappers = {w1}
  Handles = {h1, h2}
  NULL = NULL
  OwnLoop = TRUE
  kMaxLoopTimeout = 1
  MaxReqs = 1
  MaxClock = 0
SPECIFICATION FairPoolSpec
INVARIANTS ClosingOnce TerminateReason
PROPERTIES ClosedLoopUntouched StopEndsRun DestructorEnds
CHECK_DEADLOCK FALSE
