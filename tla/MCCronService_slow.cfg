SPECIFICATION Spec
CONSTANTS
  rec1 = rec1
  once1 = once1
  Jobs = {rec1, once1}
  Offers <- Later
  KeptAfterRun = {once1}
  Tasks = {1, 2, 3}
  Runs = {1}
  SlowUnwind = {rec1}
  NoTask = NoTask
  NoJob = NoJob
  Ops <- AllOps
  MaxPeriod = 2
  Horizon = 2
  MaxOps = 4
  MaxFails = 1
  MaxDowns = 1
INVARIANTS OneLiveTick TimerNeverLost
PROPERTIES StartsOnlyEnabled
CHECK_DEADLOCK FALSE
