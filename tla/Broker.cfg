SPECIFICATION FairSpec
CONSTANTS
  Callers = {a, b}
  NoSession = none
  Cancellable = {a}
  MaxSessions = 1
  QueueCapacity = 1
  Prewarm = 1
  MaxStarts = 3
  MaxRetained = 1
INVARIANTS
  CapacityConserved
  QueueDisciplined
  CancelWakes
  CancelReachesWorker
PROPERTIES
  PoolSpec
  CallEnds
  DroppedCallReleases
