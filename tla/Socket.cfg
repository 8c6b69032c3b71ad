CONSTANTS
  Wrappers = {w1}
  Handles = {h1}
  Requests = {r1, r2}
  NULL = NULL
SPECIFICATION SockFairSpec
INVARIANTS SockTypeOK RequestsInOnePlace WritesAreWatched
PROPERTIES NothingForgotten AnsweredInOrder WritesComplete
