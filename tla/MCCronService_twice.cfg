SPECIFICATION Spec
CONSTANTS
  rec1 = rec1
  once1 = once1
  Jobs = {rec1, once1}
  Offers <- Later
  KeptAfterRun = {}
  Tasks = {1, 2}
  Runs = {1}
  SlowUnwind = {}
  NoTask = NoTask
  NoJob = NoJob
  Ops <- OnlyAdd
  MaxPeriod = 2
  Horizon = 2
  MaxOps = 2
  MaxFails = 0
  MaxDowns = 0
PROPERTIES OneTimeRunsOnce
CHECK_DEADLOCK FALSE
