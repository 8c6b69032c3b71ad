CONSTANTS
  t1 = t1
  t2 = t2
  w1 = w1
  w2 = w2
  NULL = NULL
  Timers <- MCTimers
  Watchers <- MCWatchers
  Kind <- MCKind
  FirstTimes <- MCFirstTimes
  Intervals <- MCIntervals
  Forever = 9
  CallbackLag = 1
SPECIFICATION FairSpec
INVARIANTS QueuedOnce EachWatcherOnce BlocksNoLonger
PROPERTIES NotEarly InOrder TimerFires
