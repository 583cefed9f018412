SPECIFICATION FairSpec
CONSTANTS
  c1 = c1
  c2 = c2
  Callers <- MCCallers
  MaxEvents = 4
INVARIANTS
  NoEventLost
  NotStranded
  FlushIsDurable
PROPERTIES
  ImplementsLog
  FlushSettles
  EventuallyDurable
CHECK_DEADLOCK FALSE
