SPECIFICATION Spec
CONSTANTS
  MaxEvents = 4
  Limit <- FileLimit
INVARIANTS
  AckedIsDurable
CHECK_DEADLOCK FALSE
