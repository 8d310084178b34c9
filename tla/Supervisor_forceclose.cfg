SPECIFICATION Spec
CONSTANTS
  Cancellers = {}
  Caller = c
  NoThread = none
  MaxOps = 1
  PipeCap = 1
  MaxKillFaults = 0
  MaxRemoveFaults = 0
INVARIANTS
  ForceCloseWaits
