SPECIFICATION Spec
CONSTANTS
  Token <- MCToken
  Launches <- MCLaunches
INVARIANTS
  AcceptsFromDrawnRow
CHECK_DEADLOCK FALSE
