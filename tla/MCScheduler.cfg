SPECIFICATION FairSpec
CONSTANTS
  NumNodes = 3
  NumPods = 3
  None = None
  MaxWrites = 2
  MaxFailures = 1
  MaxBinds = 4
INVARIANTS
  TypeOK
  Even
PROPERTIES
  BindsUnbound
  AllBound
CHECK_DEADLOCK FALSE
