SPECIFICATION SupervisorFairSpec
CONSTANTS
  NumUnits = 3
  WithPath = {1}
INVARIANTS
  SupervisorTypeOK
  NobodyForgotten
PROPERTIES
  AllEnd
CHECK_DEADLOCK FALSE
