SPECIFICATION AgentSpec
CONSTANTS
  m1 = m1
  m2 = m2
  Messages <- MCMessages
  Mixes <- LiveMixes
PROPERTIES
  DisposalNeverLatches
CHECK_DEADLOCK FALSE
