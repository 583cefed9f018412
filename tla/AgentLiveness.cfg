SPECIFICATION FairAgentSpec
CONSTANTS
  m1 = m1
  m2 = m2
  Messages <- MCMessages
  Mixes <- LiveMixes
PROPERTIES
  AbortConverges
  LatchReplays
  DisposeSettles
CHECK_DEADLOCK FALSE
