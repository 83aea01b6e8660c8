SPECIFICATION FairSpec
CONSTANTS
  Services = {s1, s2}
  Pods = {p1, p2}
  NumIPs = 2
  NumPodIPs = 2
  Ports = {1, 2}
  Specs <- AllSpecs
  None = None
  MaxWrites = 2
  MaxFailures = 1
INVARIANTS
  TypeOK
  RightWhenQuiet
PROPERTIES
  Converges
CHECK_DEADLOCK FALSE
