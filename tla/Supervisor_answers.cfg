SPECIFICATION FairSpec
CONSTANTS
  Cancellers = {}
  Caller = c
  NoThread = none
  MaxOps = 2
  PipeCap = 1
  MaxKillFaults = 2
  MaxRemoveFaults = 0
PROPERTIES
  HandleGoneSettles
  CommandAnswered
  WorkerDiesWithLease
