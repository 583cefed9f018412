SPECIFICATION SchedulerSpec
CONSTANTS
  N = 2
  MaxParallel = 2
  Deferring <- Second
  Concluding <- First
  Limit <- RetryLimit
INVARIANTS
  CancelToldTruly
