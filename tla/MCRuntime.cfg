SPECIFICATION FairSpec
CONSTANTS
  Pods = {p1}
  None = None
  MaxStarts = 2
  MaxConns = 2
  MaxWatches = 2
  MaxTroubles = 1
INVARIANTS
  TypeOK
  NeverRaced
PROPERTIES
  KeepsPromise
  AnswersTrue
  EventsArrive
  StopsEnd
CHECK_DEADLOCK FALSE
