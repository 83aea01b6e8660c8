SPECIFICATION FairSpec
CONSTANTS
  Pods = {p1, p2}
  Broken = {}
  NumIPs = 2
  None = None
  MaxUserWrites = 2
  MaxFailures = 1
PROPERTY
  SandboxesReleased
CHECK_DEADLOCK FALSE
