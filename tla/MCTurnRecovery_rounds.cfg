SPECIFICATION Spec
CONSTANTS
  QueueCap = 1
  AnyDismiss = FALSE
  MaxUsers = 1
  MaxSteps = 2
  MaxContinues = 0
  MaxFaults = 1
PROPERTIES StopKeepsResults
CHECK_DEADLOCK FALSE
