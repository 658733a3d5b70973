SPECIFICATION Spec
CONSTANTS
  TotalMemory <- MCTotalMemory
  Launches <- MCLaunches
INVARIANTS
  PlannedLengthTight
  LooksUpOnlyValidated
  FitsItsBuffers
  ComparesAtSameState
CHECK_DEADLOCK FALSE
