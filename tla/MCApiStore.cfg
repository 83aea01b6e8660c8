SPECIFICATION Spec
CONSTANTS
  Clients = {c1, c2}
  Names = {n1, n2}
  Contents = {x, y}
  None = None
  MaxRevision = 4
INVARIANT
  VersionNamesContent
PROPERTY
  KeepsPromise
CHECK_DEADLOCK FALSE
