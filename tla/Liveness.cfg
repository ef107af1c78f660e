SPECIFICATION FairSpec
CONSTANTS
  r1 = r1
  r2 = r2
  r3 = r3
  r4 = r4
  Replica = {r1, r2}
  LeaderOf <- InTurn
  MaxView = 6
  TimerFires <- FollowerTimer
PROPERTY EventuallyCommit
\* The views are bounded, so every run ends.
CHECK_DEADLOCK FALSE
