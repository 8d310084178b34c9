SPECIFICATION ServicesSpec
CONSTANTS
  SeedHost = "seed"
  Domain <- McDomain
  NoDomain = "none"
  PrivateHosts = {"inner"}
  DenyPrivate = TRUE
  ProductToken = "fetch"
  RobotsAnswers <- McRobotsAnswers
  SitemapBodies <- McBodies
  HomePages <- McHomePages
  MapPlans <- McMapPlans
  MaxSitemaps = 3
  MaxIndexDepth = 1
  MaxRedirects = 2
  Invocations = {i1, i2}
  Targets <- McTargets
  SetBySites <- McSetBySites
  JarAtStart <- McJarAtStart
  MaxCookies = 2
  LastInstant = 2
  Budgets <- McBudgets
  Slack = 3
  ExtractionBudget = 2
  MaxOperationWatchdog = 1000
  Calls <- McCalls
  SessionCapacity = 2
  Jobs = {1, 2, 3}
  TextSizes = {2, 4, 7}
  AnswerLimit = 14
  AnswerFrame = 1
  SummarySize = 3
  CommandLines <- McCommandLines
  FetchErrors = {"engine", "timeout", "address"}
  FetchPermits = 2
  Handlers = {1, 2, 3}
  BatchSizes <- McBatchSizes
  GateSize = 2
  Processes = {p1, p2, p3}
  Owners = {p1, p2}
  Pids <- McPids
INVARIANT
  RfcKept
