SPECIFICATION FairSpec
CONSTANTS
  Pods = {p1, p2, p3}
  Broken = {p3}
  NumIPs = 2
  None = None
  MaxUserWrites = 4
  MaxFailures = 2
INVARIANTS
  TypeOK
  NoOrphan
  SandboxPerContainer
PROPERTIES
  StatusOnly
  Settles
CHECK_DEADLOCK FALSE
