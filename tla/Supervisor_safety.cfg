SPECIFICATION FairSpec
CONSTANTS
  Cancellers = {k1}
  Caller = c
  NoThread = none
  MaxOps = 2
  PipeCap = 1
  MaxKillFaults = 0
  MaxRemoveFaults = 1
INVARIANTS
  KillTargetsOwnChild
  PermitCoversWorker
  TerminalAnswerMeansDown
PROPERTIES
  LeaseSpec
  ForceSettles
