CONSTANTS
  Recordings <- MCRecordings
  PlanTimes <- MCPlanTimes
  MaxTime = 4
SPECIFICATION FairSpec
INVARIANTS TypeOK NeverBeforeItsTime ReportMissesOnlyTheLast
PROPERTIES JumpOnlyWhenQuiet EndsOrStarves
CHECK_DEADLOCK FALSE
