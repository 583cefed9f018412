SPECIFICATION FairSpec
CONSTANTS
  c1 = c1
  c2 = c2
  Callers <- TwoCallers
  Calls <- CallerOps
  MaxLives = 2
  MaxEvents = 2
  Limit <- CoordinatorLimit
INVARIANTS
  LedgerAgrees
  HasOneHolder
  RetiredLetsGo
PROPERTIES
  InspectionIsFresh
  AllSettle
CHECK_DEADLOCK FALSE
