SPECIFICATION Spec
CONSTANTS
  Handles = {a, b}
  Token = {0, 1}
  ContextLength = 3
  PoolCapacity = 4
  Capacities = {0, 1, 3, 5}
  NumLayers = 2
  PageSize = 2
  PhysicalPages = 3
  MayFail = TRUE
  MayRefill = TRUE
  a = a
  b = b
  Zero = Zero
  NoLogits = NoLogits
  None = None
  Prompts <- SomePrompts
  Embed <- MCEmbed
  Project <- MCProject
  Attend <- MCAttend
  Logits <- MCLogits
  Sample <- MCSample
SYMMETRY Alike
INVARIANTS
  PagesAccounted
  CacheExact
PROPERTIES
  FailureLeavesNoTrace
  DecodesAsUncached
  ImplementsLedger
