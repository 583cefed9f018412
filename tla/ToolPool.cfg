SPECIFICATION SchedulerSpec
CONSTANTS
  N = 3
  MaxParallel = 2
  Deferring <- Second
  Concluding <- First
  Limit <- PoolLimit
INVARIANTS
  StepAccounted
  ExclusiveAlone
  CancelToldTruly
  CrashToldTruly
PROPERTIES
  AbortStopsStarts
