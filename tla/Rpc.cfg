SPECIFICATION FairSpec
CONSTANTS
  Ids = {1, 2, 3}
  MaxTasks = 3
  MaxSessions = 1
  MaxProgress = 2
  MaxBacklog = 1
  MaxRequests = 2
  MaxCalls = 3
  MaxPlain = 1
  AnyKinds = {"quick","open","close","cancel","exit","garbage","oversize"}
  MaxActive = 2
  MaxSpawns = 2
INVARIANTS
  RegistryExact
  NoOrphanSession
  SessionUse
  NothingForgotten
  SessionBelongs
  StreamComplete
PROPERTIES
  RequestAnswered
  CallSettles
