SPECIFICATION Spec
CONSTANTS
  QueueCap = 1
  AnyDismiss = TRUE
  MaxUsers = 1
  MaxSteps = 1
  MaxContinues = 1
  MaxFaults = 1
INVARIANTS RowsOnce
CHECK_DEADLOCK FALSE
