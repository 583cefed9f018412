SPECIFICATION FairSpec
CONSTANTS
  root = root
  child = child
  grandchild = grandchild
  watcher = watcher
  c1 = c1
  c2 = c2
  Children <- Family
  Root <- root
  Parent <- Lineage
  Callers = {c1, c2}
  Stored <- Resumable
  Limit <- SubagentLimit
INVARIANTS
  ParentOutlivesChild
  DrainReleasesAll
PROPERTIES
  NothingLostBySettling
  AllSettled
CHECK_DEADLOCK FALSE
