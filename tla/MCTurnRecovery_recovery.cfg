SPECIFICATION FairSpec
CONSTANTS
  QueueCap = 1
  AnyDismiss = FALSE
  MaxUsers = 3
  MaxSteps = 1
  MaxContinues = 1
  MaxFaults = 2
INVARIANTS TypeOK FollowupDurable RowsOnce CallsHaveResults UnansweredMarked LatestStepSurvives NewerRequestWins
PROPERTIES ContinueNeedsConsent FollowupsHandled RecoveriesSettle
CHECK_DEADLOCK FALSE
