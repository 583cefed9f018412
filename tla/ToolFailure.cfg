SPECIFICATION FairSchedulerSpec
CONSTANTS
  N = 2
  MaxParallel = 2
  Deferring <- Second
  Concluding <- First
  Limit <- AllLimit
INVARIANTS
  FailureDrains
PROPERTIES
  AppendsAccepted
  ExecutionSettles
