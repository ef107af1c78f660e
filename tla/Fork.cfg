SPECIFICATION ForkSpec
CONSTANTS
  r1 = r1
  r2 = r2
  r3 = r3
  r4 = r4
  Replica = {r1, r2, r3, r4}
  LeaderOf <- InTurn
  MaxView = 11
  TimerFires <- AnyTimer
INVARIANT Agreement
\* The views are bounded, so every run ends.
CHECK_DEADLOCK FALSE
