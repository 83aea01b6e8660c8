SPECIFICATION ServicesSpec
CONSTANTS
  ServiceNames = {s1, s2}
  Requests = {r1, r2}
  NumHosts = 2
  Elsewhere = {}
  NumPorts = 1
  NoService = NoService
  MaxWrites = 4
INVARIANTS
  ServicesTypeOK
  DistinctUnlessRaced
PROPERTY
  StableClusterIP
SYMMETRY Symmetry
CHECK_DEADLOCK FALSE
