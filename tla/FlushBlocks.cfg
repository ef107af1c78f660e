SPECIFICATION FairSpec
CONSTANTS
  r1 = r1
  Replica = {r1}
  LeaderOf <- OneLeader
  MaxView = 1
  Proposal <- One
  TimedOut = {r1}
  MaxQueue = 1
  Capacity = 1
  Faults = {"crash"}
PROPERTY FlushEnds
\* The calls are bounded, so every run ends.
CHECK_DEADLOCK FALSE
