SPECIFICATION Spec
CONSTANTS
  Urls = {seed, a, b, c, off}
  Seed = seed
  Allowed = {seed, a, b, c}
  Contents = {x, y}
  NoContent = none
  MaxDepth = 2
  Plans <- OneByOne
INVARIANTS
  SuppressedCostsNothing
