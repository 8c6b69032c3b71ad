----------------------------- MODULE MCLoopPhases -----------------------------
EXTENDS LoopPhases

CONSTANTS t1, t2, w1, w2

MCTimers == {t1, t2}
MCWatchers == {w1, w2}
MCKind == [w \in MCWatchers |-> "idle"]
MCFirstTimes == {0, 9}
MCIntervals == {0, 2}
=============================================================================
