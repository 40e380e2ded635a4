SPECIFICATION Spec
CONSTANTS
  NumExecutions = 4
  Triggers <- MCTriggers
  ScheduleOf <- MCSchedule
  LanesOf <- MCLanesOf
  Lanes <- MCLanes
  LaneLimit <- OnePerLane
  ScheduleLimit = 2
  MaxStops = 1
  MaxForeground = 1
CHECK_DEADLOCK FALSE
PROPERTIES
  StrandedIsInactive
