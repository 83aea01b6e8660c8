SPECIFICATION Spec
CONSTANTS
  Services = {s1, s2}
  Pods = {p1, p2}
  NumIPs = 2
  NumPodIPs = 2
  Ports = {1, 2}
  Specs <- TwoSpecs
  None = None
  MaxWrites = 1
  MaxFailures = 1
INVARIANTS
  ReachesItsOwn
CHECK_DEADLOCK FALSE
