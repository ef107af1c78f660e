SPECIFICATION FairSpec
CONSTANT MaxView = 6
INVARIANT TypeOK
INVARIANT CurrentViewTimed
INVARIANT NoTimerAhead
PROPERTY TimeoutMovesByOne
PROPERTY EveryViewEnds
\* The views are bounded, so every run ends.
CHECK_DEADLOCK FALSE
