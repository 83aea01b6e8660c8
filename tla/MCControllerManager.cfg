SPECIFICATION FairSpecOfOneApp
CONSTANTS
  NumDeployments = 2
  Replicas <- NoneOneOrTwo
  NameBefore <- Less
  Apps = {a, b}
  App = a
  None = None
  MaxUserWrites = 2
  MaxFailures = 1
  MaxDisturbances = 2
INVARIANT
  TypeOK
PROPERTIES
  OwnFields
  NoSurplus
  Converges
CHECK_DEADLOCK FALSE
