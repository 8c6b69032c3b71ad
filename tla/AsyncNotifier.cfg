CONSTANTS
  Handles = {h1, h2}
  Threads = {t1, t2}
  NULL = NULL
SPECIFICATION FairSpec
INVARIANTS WakeupOnTheWay NotifyTouchesMemory LinkedOnce
PROPERTIES PostedIsPickedUp
