CONSTANTS
  Wrappers = {w1, w2, w3}
  Handles = {h1, h2}
  NULL = NULL
SPECIFICATION FairSpec
INVARIANTS TypeOK MemorySafe OwnersAgree OrphanIsClosing ClosingOnce ClosedMeansReleased
PROPERTIES FreedOnlyAfterClose OnCloseReachesOwner HandlersStayHome LifecycleSpec CloseCompletes OrphanIsFreed
