SPECIFICATION FairSpec
CONSTANTS
  Callers = {m, t1, t2, t3}
  Main = m
  Capacity = 3
  Agents = {builtin, session}
  DefaultAgent = builtin
  SessionAgent = session
  MaxConcurrency = 3
  MaxRequests = 2
  MaxCalls = 2
  MaxPages = 3
INVARIANTS
  PagesUnderSession
  QueueNeverFull
  IdleBetweenRequests
PROPERTIES
  EngineAnswers
