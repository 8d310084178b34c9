SPECIFICATION FairSpec
CONSTANTS
  Urls = {seed, a, b, c, off}
  Seed = seed
  Allowed = {seed, a, b, c}
  Contents = {x, y, z}
  NoContent = none
  MaxDepth = 2
  Plans <- SomePlans
INVARIANTS
  BudgetKept
  ContentOnce
  LayersInOrder
PROPERTIES
  WalkSpec
  CrawlEnds
