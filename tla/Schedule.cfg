SPECIFICATION FairSpec
CONSTANTS
  Rules <- Reminders
  Horizon = 3
  MaxDelay = 1
  Mixes <- ScheduleMixes
INVARIANTS
  RemindedOnce
  TriggerKept
PROPERTIES
  ToldIsDurable
  DueIsQueued
CHECK_DEADLOCK FALSE
