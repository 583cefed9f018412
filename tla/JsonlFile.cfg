SPECIFICATION FairSpec
CONSTANTS
  MaxEvents = 3
  Limit <- FileLimit
INVARIANTS
  AckedSurvive
  CursorMatchesFile
PROPERTIES
  LoadEnds
CHECK_DEADLOCK FALSE
