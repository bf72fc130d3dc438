CONSTANTS
  i1 = i1
  NoId = NoId
  Ids <- OneId
  MaxRuns = 3
  FailureThreshold = 3
  RecoveryThreshold = 2
  CounterMax = 4
SPECIFICATION FairSpec
INVARIANT Inv
INVARIANT ProcessesOwned
INVARIANT WatchersCurrent
INVARIANT HealthyIsVerified
PROPERTY ImplementsLifecycle
PROPERTY CallsReturn
PROPERTY DeadIsNoticed
