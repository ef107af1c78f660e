SPECIFICATION Spec
CONSTANTS
  r1 = r1
  r2 = r2
  r3 = r3
  r4 = r4
  Replica = {r1, r2}
  LeaderOf <- InTurn
  MaxView = 3
  TimerFires <- AnyTimer
INVARIANT TypeOK
INVARIANT OneProposalPerView
INVARIANT NewViewsSpent
INVARIANT Genuine
INVARIANT CertificatesBacked
INVARIANT SyncHasPending
PROPERTY ImplementsViews
\* The views are bounded, so every run ends.
CHECK_DEADLOCK FALSE
