SPECIFICATION FairSpec
CONSTANTS
  rec1 = rec1
  once1 = once1
  Jobs = {rec1, once1}
  Offers <- ShortAndLong
  KeptAfterRun = {}
  Tasks = {1, 2}
  Runs = {1}
  SlowUnwind = {}
  NoTask = NoTask
  NoJob = NoJob
  Ops <- Owning
  MaxPeriod = 2
  Horizon = 2
  MaxOps = 4
  MaxFails = 1
  MaxDowns = 1
INVARIANTS TypeOK EditsSurvive
PROPERTIES RepeatNeedsCancel NextRunNeverGoesBack DueJobsRun
CHECK_DEADLOCK FALSE
