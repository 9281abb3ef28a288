CONSTANTS
  Recordings <- MCRecordings
  PlanTimes <- MCPlanTimes
  MaxTime = 4
SPECIFICATION Spec
PROPERTIES NoJumpBeforePlanStarts
CHECK_DEADLOCK FALSE
