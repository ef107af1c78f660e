SPECIFICATION Spec
CONSTANTS
  r1 = r1
  Replica = {r1}
  LeaderOf <- OneLeader
  MaxView = 2
  Proposal <- Two
  TimedOut = {}
  MaxQueue = 1
  Capacity = 1
  Faults = {"crash", "query", "commit"}
INVARIANT TypeOK
INVARIANT StateRowResolves
INVARIANT NothingForgotten
INVARIANT RowsJoin
PROPERTY CommitsStayWritten
\* The calls are bounded, so every run ends.
CHECK_DEADLOCK FALSE
