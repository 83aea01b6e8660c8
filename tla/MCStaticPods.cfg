SPECIFICATION FairSpecFromFirst
CONSTANTS
  NumPods = 3
  ApiPods <- EtcdAndApiServer
  StorePods <- Etcd
  Specs = {1, 2}
  Labels = {1, 2}
  Versions <- ThreeVersions
  Invalid = Invalid
  Foreign = Foreign
  None = None
  MaxWrites = 2
  MaxFailures = 2
INVARIANT
  TypeOK
PROPERTIES
  NeverTwice
  WritesWhatItSaw
  LoadedRun
  MirrorsShowLoaded
CHECK_DEADLOCK FALSE
