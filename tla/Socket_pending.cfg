CONSTANTS
  Wrappers = {w1}
  Handles = {h1}
  Requests = {r1}
  NULL = NULL
SPECIFICATION SockSpec
INVARIANT PendingIsAllocated
