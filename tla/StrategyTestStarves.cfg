CONSTANTS
  Recordings <- MCEndsOnTrade
  PlanTimes <- MCPlanTimes
  MaxTime = 3
SPECIFICATION FairSpec
PROPERTIES ReplayEnds
CHECK_DEADLOCK FALSE
