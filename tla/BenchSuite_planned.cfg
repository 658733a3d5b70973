SPECIFICATION Spec
CONSTANTS
  TotalMemory <- MCTotalMemory
  Launches <- MCPlannedLaunches
INVARIANTS
  PlannedBringUpFits
CHECK_DEADLOCK FALSE
