SPECIFICATION AgentSpec
CONSTANTS
  m1 = m1
  m2 = m2
  Messages <- MCMessages
  Mixes <- LogMixes
SYMMETRY Symmetry
INVARIANTS
  OwedWakeRuns
  TurnOwnsPrompt
  ConsumedWorkAgrees
  ClaimsAccounted
  DeliveredOnce
PROPERTIES
  AbortStopsWork
  ImplementsSessionLog
CHECK_DEADLOCK FALSE
